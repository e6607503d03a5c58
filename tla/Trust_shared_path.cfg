\* Two calls that overlap share the path of the certificate.
SPECIFICATION Spec
CONSTANTS
  Calls = {wizard, update}
  Certs = {signing}
  Mishaps = {}
  NoFile = NoFile
INVARIANT SuccessMeansTrusted

\* One call at a time, over a certificate that is rotated between calls.
SPECIFICATION FairSpec
CONSTANTS
  Calls = {update}
  Certs = {first, rotated}
  Mishaps = {"import"}
  NoFile = NoFile
INVARIANT TypeOK
INVARIANT SuccessMeansTrusted
INVARIANT AsksOnlyOnce
PROPERTY CallsReturn

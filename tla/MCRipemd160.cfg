SPECIFICATION Spec
CONSTANTS
  Sha <- KeySha
  Digest <- KeyHash
INVARIANT HashIsRipemd160
CHECK_DEADLOCK FALSE

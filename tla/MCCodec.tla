-------------------------------- MODULE MCCodec --------------------------------
\* Integers of one, two and three bytes, so that every one can be cut in the
\* middle; two of everything that is counted.
EXTENDS Codec
================================================================================

-------------------------- MODULE MCEscrowCreation --------------------------
\* Small instances of EscrowCreation.
EXTENDS EscrowCreation

CONSTANTS c1, c2,  \* callers
          t1, t2   \* hashes
=============================================================================

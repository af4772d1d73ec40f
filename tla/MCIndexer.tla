----------------------------- MODULE MCIndexer -----------------------------
\* Small instances of Indexer.
EXTENDS Indexer

CONSTANTS poller, request,  \* passes
          w1,               \* a webhook request
          m1                \* a request for a token
=============================================================================

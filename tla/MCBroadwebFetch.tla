--------------------------- MODULE MCBroadwebFetch ---------------------------
(* BroadwebFetch on a small instance: two threads, a configured gateway    *)
(* with one fallback, two file names and records of two writes.            *)
EXTENDS BroadwebFetch

CONSTANTS t1, t2

TwoThreads == {t1, t2}

Request(ipfs, valid, navigation) ==
    [ipfs |-> ipfs, valid |-> valid, navigation |-> navigation]

(* A page, an address that no gateway understands, and something linked.   *)
SomeRequests == {Request(TRUE, TRUE, TRUE), Request(TRUE, FALSE, TRUE),
                 Request(FALSE, TRUE, FALSE)}

=============================================================================

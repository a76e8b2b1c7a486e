-------------------------- MODULE MCPFBQueueShared --------------------------
(***************************************************************************)
(* PFBQueueShared with two slots: the smallest ring in which an index      *)
(* wraps, a queue can be partly filled, and full and empty differ only by  *)
(* is_full_.  Four elements or more take both indices twice around it.     *)
(***************************************************************************)
EXTENDS PFBQueueShared

Sharing(locked, overwrites, isr) ==
    [is_thread_safe |-> locked, overwrite_when_full |-> overwrites, isr_enqueues |-> isr]

MCConfigs == {Sharing(TRUE, FALSE, FALSE), Sharing(TRUE, TRUE, FALSE),
              Sharing(FALSE, FALSE, TRUE)}
MCFromInterrupt == {Sharing(FALSE, FALSE, TRUE)}
=============================================================================

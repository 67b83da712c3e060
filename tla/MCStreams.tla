------------------------------ MODULE MCStreams ------------------------------
(* The programs that the run of Streams explores: readers of a pull source,   *)
(* a pipe to a plain sink, a pipe through a transform to a reader, and a pipe *)
(* that shares a sink of callbacks with a writer.                             *)
EXTENDS Streams

Program(uses, transform, pull, callbacks) ==
  [calls |-> uses, transform |-> transform, pull |-> pull, callbacks |-> callbacks]

Workloads ==
  { Program({"getReader", "releaseReader", "read", "enqueue", "close", "error", "cancel"}, FALSE, TRUE, FALSE),
    Program({"pipe", "enqueue", "close", "error", "cancel", "getReader", "releaseReader", "read"}, FALSE, FALSE, FALSE),
    Program({"pipe", "enqueue", "close", "getReader", "read"}, TRUE, FALSE, FALSE),
    Program({"pipe", "enqueue", "close"}, TRUE, FALSE, TRUE),
    Program({"pipe", "enqueue", "close", "getWriter", "releaseWriter", "write", "closeWriter", "abort", "errorSink"},
            FALSE, FALSE, TRUE) }
=============================================================================

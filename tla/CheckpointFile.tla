--------------------------- MODULE CheckpointFile ---------------------------
(***************************************************************************)
(* A checkpoint file between write_checkpoint (tools/checkpoint_writer.py) *)
(* and load_checkpoint, two processes that share nothing but the file.     *)
(*                                                                         *)
(* The writer checks its tensors, truncates the file and writes it in      *)
(* place; the buffer between its calls and the file decides how much of    *)
(* them has arrived when a reader looks or the writer dies.  A file that   *)
(* does not exist yet is taken for an empty one: both are rejected.        *)
(***************************************************************************)
EXTENDS CheckpointLoader

CONSTANT MaxExports   \* bound on the number of exports

VARIABLES
  exported,    \* the configuration and tensors of the last export
  writing,     \* whether its writer is still at work
  flushed,     \* how many of its units have reached the file
  exports,     \* exports begun
  rewritten    \* an export began since the reader opened the file

writer == <<exported, writing, flushed, exports>>

fileVars == <<vars, writer, rewritten>>

NoExport == [config |-> 0, tensors |-> <<>>]

FileInit ==
  /\ file = <<>>
  /\ ReaderInit
  /\ exported = NoExport
  /\ writing = FALSE
  /\ flushed = 0
  /\ exports = 0
  /\ rewritten = FALSE

ExportedBytes == Bytes(exported.config, exported.tensors)

-----------------------------------------------------------------------------
(* write_checkpoint. *)

\* _prepare_tensors: what it lets through.  It knows nothing of scales and of
\* the loader's limits.
PreparedTensor(t) ==
  /\ t.name # <<>>
  /\ t.type \in {FLOAT32, INT8}
  /\ Len(t.shape) > 0
  /\ \A axis \in 1..Len(t.shape) : t.shape[axis] > 0
  /\ ElementCount(t.shape) <= MaxWord \div BytesPerElement(t.type)
  /\ Len(t.payload) = ElementCount(t.shape) * BytesPerElement(t.type)
  /\ t.type = INT8 => \A i \in 1..Len(t.payload) : t.payload[i] # MinInt8

Prepared(tensors) ==
  /\ \A i \in 1..Len(tensors) : PreparedTensor(tensors[i])
  /\ \A i, j \in 1..Len(tensors) : i # j => tensors[i].name # tensors[j].name

\* open("wb") cuts the file off before the first write.
OpenedForUpdate == file
Opened == <<>>

Export(c, tensors) ==
  /\ ~writing /\ exports < MaxExports
  /\ Prepared(tensors)
  /\ file' = Opened
  /\ exported' = [config |-> c, tensors |-> tensors]
  /\ writing' = TRUE
  /\ flushed' = 0
  /\ exports' = exports + 1
  /\ rewritten' = TRUE
  /\ UNCHANGED reader

\* Some of what was written reaches the file.
Flush(n) ==
  /\ writing /\ flushed < n
  /\ file' = SubSeq(ExportedBytes, 1, n) \o SubSeq(file, n + 1, Len(file))
  /\ flushed' = n
  /\ UNCHANGED <<reader, exported, writing, exports, rewritten>>

\* The end of the with block has written everything.
Close ==
  /\ writing /\ flushed = Len(ExportedBytes)
  /\ writing' = FALSE
  /\ UNCHANGED <<vars, exported, flushed, exports, rewritten>>

\* The writer dies, or the disk is full.
Crash ==
  /\ writing
  /\ writing' = FALSE
  /\ UNCHANGED <<vars, exported, flushed, exports, rewritten>>

Write ==
  \/ \E c \in Configs, tensors \in TensorLists : Export(c, tensors)
  \/ \E n \in 1..Len(ExportedBytes) : Flush(n)
  \/ Close
  \/ Crash

-----------------------------------------------------------------------------
(* load_checkpoint, as often as a caller likes. *)

OpenFile ==
  /\ Open
  /\ rewritten' = FALSE
  /\ UNCHANGED writer

LoadFile == Load /\ UNCHANGED <<writer, rewritten>>

LoadAgain ==
  /\ stage \in {"accepted", "rejected"}
  /\ stage' = "closed"
  /\ position' = 0 /\ remaining' = 0
  /\ config' = 0 /\ tensorCount' = 0
  /\ tensor' = NoTensor
  /\ total' = 0
  /\ loaded' = <<>>
  /\ UNCHANGED <<file, writer, rewritten>>

FileNext == Write \/ OpenFile \/ LoadFile \/ LoadAgain

FileSpec == FileInit /\ [][FileNext]_fileVars

-----------------------------------------------------------------------------
(* Properties. *)

\* A reader that no export overtakes never takes what an export left behind for
\* a whole one, wherever the writer is or died, and whatever was in the file
\* before: what it loads is the last export.
LoadedIsTheExport ==
  stage = "accepted" /\ ~rewritten =>
    /\ exported = [config |-> config, tensors |-> loaded]
    /\ flushed = Len(ExportedBytes)

\* What the reader was given when it opened the file.
OpenedSize == position + remaining

\* What the writer writes the loader reads, unless it is beyond the loader's
\* limits or a quantized tensor has no scale.
WrittenCanBeRead ==
  stage = "rejected" /\ ~rewritten /\ OpenedSize = Len(ExportedBytes)
    => exported = NoExport \/ ~Valid(exported.tensors)

\* Even if the file is rewritten under its hands the loader returns nothing but
\* a checkpoint: every check is made on what it read, not on the file.
AcceptedIsValid == stage = "accepted" => config \in Configs /\ Valid(loaded)

=============================================================================

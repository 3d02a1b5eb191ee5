----------------------------- MODULE FrameDecoder -----------------------------
(***************************************************************************)
(* How the extension reads the output of OMP (rpc/frameDecoder.ts): lines  *)
(* of JSON, where a frame too large for one line comes as a run of chunks. *)
(* Pure operators on the state of one decoder; PromptDelivery puts them    *)
(* behind a pipe.  A frame is what its JSON says, a size counts units of   *)
(* the limits below, and a byte sequence the decoder cannot read (not      *)
(* UTF-8, not JSON, longer than a line may be) is the line Garbled.        *)
(***************************************************************************)
EXTENDS Integers, SequencesExt

CONSTANTS Frames,        \* what OMP has to say
          Negotiated,    \* its answer that the protocol is version 2
          ChunkIds,
          MinChunked,    \* DEFAULT_MAX_FRAME_BYTES: smaller frames are not cut
          MaxReassembled,\* DEFAULT_MAX_REASSEMBLED_BYTES
          MaxChunks,     \* MAX_RPC_CHUNKS
          MaxChunkBytes  \* MAX_DECODED_CHUNK_BYTES

ASSUME DecoderAssumption ==
  /\ Negotiated \in Frames
  /\ MinChunked \in Nat \ {0} /\ MaxReassembled \in Nat
  /\ MaxChunks \in Nat /\ MaxChunkBytes \in Nat \ {0}

Whole(frame) == [kind |-> "whole", frame |-> frame]
Garbled == [kind |-> "garbled"]
Chunk(id, index, count, bytes, size, frame) ==
  [kind |-> "chunk", id |-> id, index |-> index, count |-> count, bytes |-> bytes,
   size |-> size, frame |-> frame]

\* The sizes and indices a chunk line can carry: one beyond each limit, too.
ChunkLines ==
  [kind : {"chunk"}, id : ChunkIds, index : 0..MaxChunks, count : 0..(MaxChunks + 1),
   bytes : 0..(MaxReassembled + 1), size : 0..(MaxChunkBytes + 1), frame : Frames]
Lines == {Whole(f) : f \in Frames} \cup {Garbled} \cup ChunkLines

\* #assembly, with the chunks it holds as their number and size.
Assemblies ==
  [id : ChunkIds, count : 2..MaxChunks, bytes : MinChunked..MaxReassembled,
   next : 0..MaxChunks, received : Nat]
\* negotiating and v2 are #protocolV2NegotiationPending and #protocolV2Enabled.
Decoders == [assembly : Seq(Assemblies), negotiating : BOOLEAN, v2 : BOOLEAN]

NewDecoder == [assembly |-> <<>>, negotiating |-> FALSE, v2 |-> FALSE]
BeginNegotiation(d) == [d EXCEPT !.negotiating = TRUE]
EnableV2(d) == [d EXCEPT !.v2 = TRUE, !.negotiating = FALSE]

-----------------------------------------------------------------------------
(* One line.  A result is the decoder, the frames it gave and whether it threw. *)

Result(d, frames, threw) == [decoder |-> d, frames |-> frames, threw |-> threw]
Threw(d) == Result(d, <<>>, TRUE)

\* Mutated form of WellFormed: no limit on the size a run of chunks announces.
WellFormedLoose(c) ==
  /\ c.count >= 2 /\ c.count <= MaxChunks
  /\ c.index < c.count
  /\ c.bytes >= MinChunked
  /\ c.count <= c.bytes
  /\ c.size > 0
\* validateChunkFrame.
WellFormed(c) ==
  /\ c.count >= 2 /\ c.count <= MaxChunks
  /\ c.index < c.count
  /\ c.bytes >= MinChunked /\ c.bytes <= MaxReassembled
  /\ c.count <= c.bytes
  /\ c.size > 0

\* The assembly a chunk goes to: the open one, or the one it opens.
Assembly(d, c) ==
  IF d.assembly # <<>> THEN d.assembly[1]
  ELSE [id |-> c.id, count |-> c.count, bytes |-> c.bytes, next |-> 0, received |-> 0]

Continues(a, c) ==
  c.id = a.id /\ c.count = a.count /\ c.bytes = a.bytes /\ c.index = a.next

\* Mutated form of Closed: a run that is complete stays open.
ClosedNever(d) == d
Closed(d) == [d EXCEPT !.assembly = <<>>]

AcceptChunk(d, c) ==
  LET a == Assembly(d, c)
      received == a.received + c.size
      \* The chunk is in the assembly before its size is compared.
      grown == [a EXCEPT !.next = @ + 1, !.received = received]
      open == [d EXCEPT !.assembly = <<grown>>]
      closed == Closed(open)
  IN  IF ~WellFormed(c) \/ (d.assembly = <<>> /\ c.index # 0) THEN Threw(d)
      ELSE IF ~Continues(a, c) \/ c.size > MaxChunkBytes
        THEN Threw([d EXCEPT !.assembly = <<a>>])
      ELSE IF received > a.bytes THEN Threw(open)
      ELSE IF grown.next < a.count THEN Result(open, <<>>, FALSE)
      ELSE IF received # a.bytes THEN Threw(closed)
      ELSE Result(closed, <<c.frame>>, FALSE)

\* #decodeLine: the answer to the negotiation takes effect at once, because the
\* chunks of the next frame may be in the same piece of output.
Negotiates(d, line) ==
  d.negotiating /\ line.kind = "whole" /\ line.frame = Negotiated

DecodeLine(d0, line) ==
  LET d == IF Negotiates(d0, line) THEN EnableV2(d0) ELSE d0
  IN  CASE line.kind = "garbled" -> Threw(d)
        [] line.kind = "chunk" -> IF d.v2 THEN AcceptChunk(d, line) ELSE Threw(d)
        [] line.kind = "whole" ->
             IF d.assembly # <<>> THEN Threw(d) ELSE Result(d, <<line.frame>>, FALSE)

\* push: the lines of one piece of output, one after the other.  The first that throws
\* ends it: the frames decoded before it in the same piece go with the exception, and
\* the lines after it stay in #lineBuffer.
Unpushed(d) == [decoder |-> d, frames |-> <<>>, threw |-> FALSE, read |-> 0]
PushLine(r, line) ==
  IF r.threw THEN r
  ELSE LET next == DecodeLine(r.decoder, line)
       IN  [decoder |-> next.decoder, frames |-> r.frames \o next.frames,
            threw |-> next.threw, read |-> r.read + 1]
Push(d, lines) ==
  LET last == FoldLeft(PushLine, Unpushed(d), lines)
  IN  IF last.threw THEN [last EXCEPT !.frames = <<>>] ELSE last

\* end: an open assembly is an error; OMP ends its lines, so no partial one is left.
EndThrows(d) == d.assembly # <<>>

===============================================================================

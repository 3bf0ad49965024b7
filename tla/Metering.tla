------------------------------ MODULE Metering ------------------------------
(***************************************************************************)
(* The usage of a streamed answer: src/consumer/metering.rs and its use in *)
(* sse_from_pending_with_guard (src/consumer/sse.rs).                      *)
(*                                                                         *)
(* The node sends server-sent events, cut into chunks anywhere; the router *)
(* scans all the text it has after each chunk and keeps the last usage it  *)
(* found.  The text is a sequence of pieces, five for an event: "data:",   *)
(* the first half of its JSON object, some text of the model, the second   *)
(* half, the end of the line.  The text of the model may itself contain    *)
(* "data:".  An event reports usage when it has both token counts, a       *)
(* receipt when its base64 payload decodes; [DONE] is an event with        *)
(* neither.  A chunk that ends inside "data:" is one that ends before it:  *)
(* the text so far ends a line.                                            *)
(***************************************************************************)
EXTENDS Integers, Sequences, FiniteSetsExt

CONSTANTS
  Streams,  \* answers: sequences of events, the last one their final event
  None      \* nothing reported

(* An event reports usage, a receipt, both or neither.  No answer is empty: *)
(* the node ends it with an event of its own.                              *)
ASSUME MeteringAssumption ==
  /\ Streams \subseteq Seq([usage : {None} \cup [input : Nat, output : Nat],
                           receipt : {None} \cup Nat, quotes : BOOLEAN]) \ {<<>>}
  /\ None \notin Nat \cup [input : Nat, output : Nat]

VARIABLES
  options,  \* stream_options.include_usage of the request: "absent", "yes", "no"
  stream,   \* the events the node will send
  got,      \* pieces accumulated
  latest,   \* latest_usage
  ended,    \* how the stream ended, or "no"
  usage     \* what on_complete was called with

meterVars == <<options, stream, got, latest, ended, usage>>

-----------------------------------------------------------------------------
(* The text *)

Pieces == 5

(* The piece at place p of the text of s. *)
Piece(s, p) ==
  LET i == (p - 1) \div Pieces + 1
      k == (p - 1) % Pieces
  IN CASE k = 0 -> [is |-> "data"]
       [] k = 1 -> [is |-> "open", event |-> i]
       [] k = 2 -> IF s[i].quotes THEN [is |-> "data"] ELSE [is |-> "text"]
       [] k = 3 -> [is |-> "close", event |-> i]
       [] k = 4 -> [is |-> "line"]

Text(s, n) == [p \in 1 .. n |-> Piece(s, p)]
Length(s) == Pieces * Len(s)

(* What iter_sse_event_values finds after the "data:" at place p: the rest *)
(* of the segment up to the end of its first line, if that is an object.   *)
SegmentEnd(t, p) ==
  Min({q \in p + 1 .. Len(t) : t[q].is \in {"data", "line"}} \cup {Len(t) + 1})

Payload(t, p) == SubSeq(t, p + 1, SegmentEnd(t, p) - 1)

IsObject(x) ==
  /\ Len(x) = 3
  /\ x[1].is = "open" /\ x[2].is = "text" /\ x[3].is = "close"

(* Sensitivity: an object is accepted as soon as it begins. *)
ObjectsBegun(t) ==
  {p \in DOMAIN t : t[p].is = "data" /\ Payload(t, p) # <<>> /\ Payload(t, p)[1].is = "open"}

(* The places of the segments that parse. *)
Objects(t) == {p \in DOMAIN t : t[p].is = "data" /\ IsObject(Payload(t, p))}

-----------------------------------------------------------------------------
(* extract_usage_from_sse_body *)

(* The last usage counts, or the largest receipt if that says more. *)
Combine(openai, receipt) ==
  IF openai = None
    THEN IF receipt = 0 THEN None ELSE [input |-> 0, output |-> receipt]
    ELSE IF receipt > openai.output THEN [openai EXCEPT !.output = receipt] ELSE openai

(* Sensitivity: the first usage counts. *)
ExtractFirst(s, t) ==
  LET Event(p) == s[t[p + 1].event]
      reports == {p \in Objects(t) : Event(p).usage # None}
      receipts == {Event(p).receipt : p \in Objects(t)} \ {None}
  IN Combine(IF reports = {} THEN None ELSE Event(Min(reports)).usage, Max(receipts \cup {0}))

Extract(s, t) ==
  LET Event(p) == s[t[p + 1].event]
      reports == {p \in Objects(t) : Event(p).usage # None}
      receipts == {Event(p).receipt : p \in Objects(t)} \ {None}
  IN Combine(IF reports = {} THEN None ELSE Event(Max(reports)).usage, Max(receipts \cup {0}))

-----------------------------------------------------------------------------
(* Sensitivity: the request is forwarded as it is. *)
InjectNothing(o) == o

(* inject_stream_usage_option: stream_options is added, never changed. *)
InjectStreamUsageOption(o) == IF o = "absent" THEN "yes" ELSE o

(* The backend adds the usage to its final event when it is asked to. *)
ReportsUsage(s, o) == (s[Len(s)].usage # None) <=> o = "yes"

MeterInit ==
  /\ options \in {"absent", "yes", "no"}
  /\ stream \in {s \in Streams : ReportsUsage(s, InjectStreamUsageOption(options))}
  /\ got = 0 /\ latest = None
  /\ ended = "no" /\ usage = None

(* A chunk of any size arrives, an empty one included. *)
AddChunk(n) ==
  /\ ended = "no" /\ got + n <= Length(stream)
  /\ got' = got + n
  /\ LET u == Extract(stream, Text(stream, got')) IN
       latest' = IF u = None THEN latest ELSE u
  /\ UNCHANGED <<options, stream, ended, usage>>

(* End, error or deadline, or the channel closes: the completion is fired  *)
(* with the latest usage, or with another scan if there is none.           *)
Complete(how) ==
  /\ ended = "no" /\ (how = "end" => got = Length(stream))
  /\ ended' = how
  /\ usage' = IF latest # None THEN latest ELSE Extract(stream, Text(stream, got))
  /\ UNCHANGED <<options, stream, got, latest>>

(* The client leaves: the completion is dropped, no usage is reported. *)
Drop ==
  /\ ended = "no"
  /\ ended' = "dropped"
  /\ UNCHANGED <<options, stream, got, latest, usage>>

Over == ended # "no" /\ UNCHANGED meterVars

MeterNext ==
  \/ \E n \in 0 .. Length(stream) : AddChunk(n)
  \/ \E how \in {"end", "error", "timeout", "cut"} : Complete(how)
  \/ Drop
  \/ Over

MeterSpec == MeterInit /\ [][MeterNext]_meterVars

-----------------------------------------------------------------------------
(* Every variable has its type; a completion reports what it last found. *)
MeterTypeOK ==
  /\ options \in {"absent", "yes", "no"} /\ stream \in Streams
  /\ got \in 0 .. Length(stream)
  /\ ended \in {"no", "end", "error", "timeout", "cut", "dropped"}
  /\ {latest, usage} \subseteq {None} \cup [input : Nat, output : Nat]

(* The reference: what the first n events report, one after the other. *)
Reported(s, n) ==
  LET counts == {i \in 1 .. n : s[i].usage # None}
      receipts == {s[i].receipt : i \in 1 .. n} \ {None}
      largest == Max(receipts \cup {0})
  IN IF counts = {}
       THEN IF largest = 0 THEN None ELSE [input |-> 0, output |-> largest]
       ELSE LET last == s[Max(counts)].usage IN
            [input |-> last.input, output |-> Max({last.output, largest})]

(* The events whose objects are complete in the text so far. *)
Received == (got + 1) \div Pieces

Plain == \A i \in DOMAIN stream : stream[i].quotes =>
            stream[i].usage = None /\ stream[i].receipt = None

(* However the answer is cut into chunks, the router holds at any moment   *)
(* the usage that the complete events report, and nothing of a partial     *)
(* one: what it meters does not depend on the chunking.                    *)
ChunkingDoesNotMatter == Plain => latest = Reported(stream, Received)

(* A stream that reaches its end is metered whenever its client left       *)
(* stream_options to the router, and by at least its largest receipt.      *)
FinishedStreamIsMetered ==
  options = "absent" /\ ended = "end" /\ Plain =>
    /\ usage # None
    /\ \A i \in DOMAIN stream :
         stream[i].receipt # None => usage.output >= stream[i].receipt

(* Strengthening for UsageProofs: what a completion is called with         *)
(* is the latest usage, whether or not it scans the text once more.        *)
CompletionInv ==
  /\ ReportsUsage(stream, InjectStreamUsageOption(options))
  /\ ended = "end" => got = Length(stream)
  /\ ended \in {"end", "error", "timeout", "cut"} /\ Plain => usage = latest

-----------------------------------------------------------------------------
(* Statements of the source's comments that the code does not keep. *)

(* src/consumer/metering.rs:59, "Scan SSE events for OpenAI usage and/or   *)
(* sparkl receipt checkpoints": an event counts whatever text it carries.  *)
TextDoesNotMatter == latest = Reported(stream, Received)

(* src/consumer/metering.rs:92, "Ensure streaming requests ask backends    *)
(* for a final usage chunk when possible": a finished stream is metered.   *)
EveryStreamIsMetered == ended = "end" /\ Plain => usage # None
=============================================================================

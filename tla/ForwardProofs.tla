--------------------------- MODULE ForwardProofs ----------------------------
(***************************************************************************)
(* Theorems about Forward, for every set of requests, every mix of their   *)
(* kinds, every number of chunks and every capacity of the channels.       *)
(***************************************************************************)
EXTENDS Forward, TLAPS

-----------------------------------------------------------------------------
(* Facts about frames and channels *)

(* Frames are numbers; chunks and the response are not terminal. *)
LEMMA FrameFacts ==
  /\ Chunks \in Nat /\ Chunks # 0 /\ Cap \in Nat /\ Cap # 0
  /\ End \in Frames /\ Error \in Frames /\ Granted \in Frames
  /\ Frames \subseteq Nat /\ Off \notin Frames /\ Receiving \notin Frames
  /\ Off # Receiving
  /\ Terminal \subseteq Frames
  /\ End # Error /\ End # Granted /\ Error # Granted
  /\ \A f \in Frames : IsChunk(f) => f \notin Terminal
  /\ \A f \in Frames \ Terminal : f \in 0 .. Chunks
  /\ \A f \in 0 .. Chunks : f \in Frames \ Terminal
BY SizesAssumption DEF End, Error, Granted, Frames, Terminal, IsChunk, Off, Receiving

(* Which values are numbered in the order of the answer. *)
LEMMA PlainFacts ==
  /\ \A f \in Frames \ Terminal : Plain(f) /\ f \in 0 .. Chunks
  /\ Plain(End) /\ ~Plain(Error) /\ ~Plain(Granted) /\ ~Plain(Off)
  /\ ~Plain(Receiving) /\ ~Plain(-1)
  /\ \A f : Plain(f) => f \in Frames /\ f \in Nat
BY SizesAssumption
   DEF Plain, End, Error, Granted, Frames, Terminal, Off, Receiving

(* try_send either appends or leaves the channel alone, and the channel    *)
(* stays within its capacity.                                              *)
LEMMA OfferType ==
  ASSUME NEW S, NEW q \in Seq(S), NEW f \in S, Len(q) <= Cap
  PROVE  Offer(q, f) \in Seq(S) /\ Len(Offer(q, f)) <= Cap
BY SizesAssumption DEF Offer

(* Receiving takes the oldest frame. *)
LEMMA TailType ==
  ASSUME NEW S, NEW q \in Seq(S), q # <<>>
  PROVE  /\ Head(q) \in S /\ Tail(q) \in Seq(S) /\ Head(q) = q[1]
         /\ Len(q) \in Nat /\ Len(q) >= 1 /\ Len(Tail(q)) = Len(q) - 1
         /\ \A i \in 1 .. Len(Tail(q)) : Tail(q)[i] = q[i + 1] /\ i + 1 \in 1 .. Len(q)
OBVIOUS

-----------------------------------------------------------------------------
(* Type correctness *)

(* The values of the variables, by name. *)
Channels == {f \in [Requests -> Seq(Frames)] : \A r \in Requests : Len(f[r]) <= Cap}
Places   == {"idle", "send", "recv", "closing", "yielded", "done"}
Outcomes == {"none", "ok", "error", "timeout", "cancelled"}
Tasks    == Off .. Granted
Counts   == -1 .. Error
Parts    == Seq(1 .. Chunks)
Reports  == SUBSET (1 .. Chunks)

Types ==
  /\ kind \in [Requests -> Kinds] /\ kind \in Mixes
  /\ tunnel \in {"up", "failed", "down"}
  /\ pending \in SUBSET Requests
  /\ chan \in Channels /\ bridge \in Channels
  /\ task \in [Requests -> Tasks] /\ node \in [Requests -> Counts]
  /\ pc \in [Requests -> Places] /\ body \in [Requests -> Parts]
  /\ outcome \in [Requests -> Outcomes] /\ fired \in [Requests -> BOOLEAN]
  /\ calls \in [Requests -> Nat] /\ metered \in [Requests -> Reports]

(* The two ways to state the types agree. *)
LEMMA TypesAgree == TypeOK <=> Types
BY SizesAssumption
   DEF TypeOK, Types, Channels, Places, Outcomes, Tasks, Counts, Parts, Reports

(* A channel of one request changes within its capacity. *)
LEMMA ChannelUpdate ==
  ASSUME NEW c \in Channels, NEW r \in Requests,
         NEW q \in Seq(Frames), Len(q) <= Cap
  PROVE  [c EXCEPT ![r] = q] \in Channels
BY DEF Channels

(* Reading a channel. *)
LEMMA ChannelApply ==
  ASSUME NEW c \in Channels, NEW r \in Requests
  PROVE  /\ c[r] \in Seq(Frames) /\ Len(c[r]) \in Nat /\ Len(c[r]) <= Cap
         /\ DOMAIN c = Requests
BY DEF Channels

(* Appending where there is room. *)
LEMMA ChannelAppend ==
  ASSUME NEW c \in Channels, NEW r \in Requests, NEW f \in Frames, Len(c[r]) < Cap
  PROVE  [c EXCEPT ![r] = Append(@, f)] \in Channels
<1>1. c[r] \in Seq(Frames) /\ Len(c[r]) \in Nat /\ Cap \in Nat
  BY ChannelApply, FrameFacts
<1>2. Append(c[r], f) \in Seq(Frames) /\ Len(Append(c[r], f)) <= Cap
  BY <1>1
<1>3. QED
  BY <1>2, ChannelUpdate

(* Offering. *)
LEMMA ChannelOffer ==
  ASSUME NEW c \in Channels, NEW r \in Requests, NEW f \in Frames
  PROVE  [c EXCEPT ![r] = Offer(@, f)] \in Channels
BY ChannelApply, OfferType, ChannelUpdate

(* Receiving. *)
LEMMA ChannelTail ==
  ASSUME NEW c \in Channels, NEW r \in Requests, c[r] # <<>>
  PROVE  Head(c[r]) \in Frames /\ [c EXCEPT ![r] = Tail(@)] \in Channels
<1>1. c[r] \in Seq(Frames) /\ Len(c[r]) <= Cap /\ Cap \in Nat
  BY ChannelApply, FrameFacts
<1>2. Head(c[r]) \in Frames /\ Tail(c[r]) \in Seq(Frames) /\ Len(Tail(c[r])) <= Cap
  BY <1>1, TailType
<1>3. QED
  BY <1>2, ChannelUpdate

(* A body grows by a chunk. *)
LEMMA BodyUpdate ==
  ASSUME NEW b \in [Requests -> Parts], NEW r \in Requests, NEW f
  PROVE  [b EXCEPT ![r] = IF IsChunk(f) THEN Append(@, f) ELSE @] \in [Requests -> Parts]
<1>1. IsChunk(f) => Append(b[r], f) \in Parts
  BY DEF Parts, IsChunk
<1>2. QED
  BY <1>1

(* on_complete keeps its types. *)
LEMMA FireType ==
  ASSUME Types, NEW r \in Requests, NEW seen, Fire(r, seen)
  PROVE  /\ fired' \in [Requests -> BOOLEAN] /\ calls' \in [Requests -> Nat]
         /\ metered' \in [Requests -> Reports]
<1>1. UsageInEvents(seen) \in Reports
  BY SizesAssumption DEF UsageInEvents, Reports
<1>2. fired' \in [Requests -> BOOLEAN]
  BY DEF Types, Fire
<1>3. calls' \in [Requests -> Nat]
  BY DEF Types, Fire
<1>4. metered' = metered \/ metered' = [metered EXCEPT ![r] = UsageInEvents(seen)]
  BY Zenon DEF Fire
<1>5. metered' \in [Requests -> Reports]
  BY <1>1, <1>4 DEF Types
<1>6. QED
  BY <1>2, <1>3, <1>5

(* The end of a handler keeps its types. *)
LEMMA AnswerType ==
  ASSUME Types, NEW r \in Requests, NEW how \in Outcomes, Answer(r, how)
  PROVE  /\ pc' \in [Requests -> Places] /\ outcome' \in [Requests -> Outcomes]
         /\ pending' \in SUBSET Requests /\ calls' \in [Requests -> Nat]
         /\ metered' \in [Requests -> Reports]
<1> DEFINE chat == how = "ok" /\ kind[r] = "collect"
<1>1. (IF chat THEN UsageInBody(body[r]) ELSE {}) \in Reports
  BY DEF UsageInBody, Reports
<1>2. metered' = [metered EXCEPT ![r] = IF chat THEN UsageInBody(body[r]) ELSE {}]
  BY DEF Answer, Meter
<1>3. calls' \in [Requests -> Nat]
  BY DEF Answer, Meter, Types
<1>4. metered' \in [Requests -> Reports]
  BY <1>1, <1>2 DEF Types
<1>5. QED
  BY <1>3, <1>4 DEF Types, Answer, Places

(* Every step keeps the types. *)
LEMMA TypeStep == Types /\ [Next]_vars => Types'
<1> SUFFICES ASSUME Types, [Next]_vars PROVE Types'
  OBVIOUS
<1> USE DEF Types
<1>1. ASSUME NEW r \in Requests, Register(r) PROVE Types'
  BY <1>1 DEF Register, Places
<1>2. ASSUME NEW r \in Requests, SendRequest(r) PROVE Types'
  <2>1. Receiving \in Tasks /\ Off \in Tasks /\ 0 \in Counts /\ -1 \in Counts
    BY FrameFacts DEF Tasks, Counts, Receiving, Off, Granted, Error
  <2>2. QED
    BY <1>2, <2>1 DEF SendRequest, Places, Outcomes
<1>3. ASSUME NEW r \in Requests, NEW f \in Frames, NodeFrame(r, f) PROVE Types'
  <2>1. (IF f \in Terminal THEN Error ELSE f + 1) \in Counts
    <3>1. Error \in Counts
      BY FrameFacts DEF Counts, Error
    <3>2. f \notin Terminal => f + 1 \in Counts
      BY FrameFacts DEF Counts, Error
    <3>3. QED
      BY <3>1, <3>2
  <2>2. node' \in [Requests -> Counts]
    BY <1>3, <2>1 DEF NodeFrame
  <2>3. chan' \in Channels /\ pending' \in SUBSET Requests
    BY <1>3, ChannelOffer DEF NodeFrame, Route
  <2>4. QED
    BY <1>3, <2>2, <2>3 DEF NodeFrame
<1>4. CASE FailAllPending
  <2>1. ASSUME NEW r \in Requests
        PROVE  /\ Offer(chan[r], Error) \in Seq(Frames) /\ chan[r] \in Seq(Frames)
               /\ Len(Offer(chan[r], Error)) <= Cap /\ Len(chan[r]) <= Cap
    BY FrameFacts, ChannelApply, OfferType
  <2>2. chan' \in Channels
    BY <1>4, <2>1 DEF FailAllPending, Channels
  <2>3. QED
    BY <1>4, <2>2 DEF FailAllPending
<1>5. ASSUME NEW r \in Requests, Collect(r) PROVE Types'
  <2>1. AtEnd(r) \in Outcomes
    <3>1. kind[r] \in {"collect", "fetch", "activate"}
      BY <1>5 DEF Collect, Kinds, Streaming
    <3>2. QED
      BY <3>1, FrameFacts DEF AtEnd, FetchedList, ActivationAt, Outcomes
  <2>2. CASE chan[r] # <<>>
    <3> DEFINE f == Head(chan[r])
    <3>1. /\ chan' = [chan EXCEPT ![r] = Tail(@)]
          /\ body' = [body EXCEPT ![r] = IF IsChunk(f) THEN Append(@, f) ELSE @]
          /\ UNCHANGED <<kind, tunnel, bridge, task, node, fired>>
          /\ \/ \E how \in Outcomes : Answer(r, how)
             \/ UNCHANGED <<pc, outcome, pending, calls, metered>>
      <4>1. "error" \in Outcomes /\ ActivationAt(f) \in Outcomes
        BY DEF Outcomes, ActivationAt
      <4>2. QED
        BY <1>5, <2>1, <2>2, <4>1 DEF Collect
    <3>2. chan' \in Channels /\ body' \in [Requests -> Parts]
      BY <2>2, <3>1, ChannelTail, BodyUpdate
    <3>3. /\ pc' \in [Requests -> Places] /\ outcome' \in [Requests -> Outcomes]
          /\ pending' \in SUBSET Requests /\ calls' \in [Requests -> Nat]
          /\ metered' \in [Requests -> Reports]
      <4>1. CASE \E how \in Outcomes : Answer(r, how)
        BY <4>1, AnswerType
      <4>2. CASE UNCHANGED <<pc, outcome, pending, calls, metered>>
        BY <4>2
      <4>3. QED
        BY <3>1, <4>1, <4>2
    <3>4. QED
      BY <3>1, <3>2, <3>3
  <2>3. CASE chan[r] = <<>>
    <3>1. Answer(r, AtEnd(r)) /\ UNCHANGED <<kind, tunnel, chan, body, bridge, task, node, fired>>
      BY <1>5, <2>3 DEF Collect
    <3>2. /\ pc' \in [Requests -> Places] /\ outcome' \in [Requests -> Outcomes]
          /\ pending' \in SUBSET Requests /\ calls' \in [Requests -> Nat]
          /\ metered' \in [Requests -> Reports]
      BY <2>1, <3>1, AnswerType
    <3>3. QED
      BY <3>1, <3>2
  <2>4. QED
    BY <2>2, <2>3
<1>6. ASSUME NEW r \in Requests, CollectTimeout(r) PROVE Types'
  <2>1. "timeout" \in Outcomes
    BY DEF Outcomes
  <2>2. Answer(r, "timeout")
        /\ UNCHANGED <<kind, tunnel, chan, bridge, task, node, body, fired>>
    BY <1>6 DEF CollectTimeout
  <2>3. /\ pc' \in [Requests -> Places] /\ outcome' \in [Requests -> Outcomes]
        /\ pending' \in SUBSET Requests /\ calls' \in [Requests -> Nat]
        /\ metered' \in [Requests -> Reports]
    BY <2>1, <2>2, AnswerType
  <2>4. QED
    BY <2>2, <2>3
<1>7. ASSUME NEW r \in Requests, BridgeRecv(r) PROVE Types'
  <2>1. Off \in Tasks /\ Frames \subseteq Tasks
    BY FrameFacts DEF Tasks, Frames, Off, Granted
  <2>2. CASE chan[r] # <<>>
    <3>1. Head(chan[r]) \in Tasks /\ [chan EXCEPT ![r] = Tail(@)] \in Channels
      BY <2>1, <2>2, ChannelTail
    <3>2. QED
      BY <1>7, <2>2, <3>1 DEF BridgeRecv
  <2>3. CASE chan[r] = <<>>
    BY <1>7, <2>1, <2>3 DEF BridgeRecv
  <2>4. QED
    BY <2>2, <2>3
<1>8. ASSUME NEW r \in Requests, BridgeSend(r) PROVE Types'
  <2>1. Off \in Tasks /\ Receiving \in Tasks
    BY FrameFacts DEF Tasks, Off, Receiving, Granted
  <2>2. CASE bridge' = bridge
    BY <1>8, <2>1, <2>2 DEF BridgeSend
  <2>3. CASE bridge' # bridge
    <3>1. [bridge EXCEPT ![r] = Append(@, task[r])] \in Channels
      BY <1>8, <2>3, ChannelAppend DEF BridgeSend
    <3>2. QED
      BY <1>8, <2>1, <2>3, <3>1 DEF BridgeSend
  <2>4. QED
    BY <2>2, <2>3
<1>9. ASSUME NEW r \in Requests, StreamFrame(r) PROVE Types'
  <2> DEFINE f == Head(bridge[r])
  <2>1. bridge' \in Channels /\ body' \in [Requests -> Parts]
    BY <1>9, ChannelTail, BodyUpdate DEF StreamFrame
  <2>2. pc' \in [Requests -> Places] /\ outcome' \in [Requests -> Outcomes]
    BY <1>9 DEF StreamFrame, Places, Outcomes
  <2>3. /\ fired' \in [Requests -> BOOLEAN] /\ calls' \in [Requests -> Nat]
        /\ metered' \in [Requests -> Reports]
    <3>1. CASE f = End
      BY <1>9, <3>1, FireType DEF StreamFrame, Fires
    <3>2. CASE f # End
      BY <1>9, <3>2 DEF StreamFrame, Fires
    <3>3. QED
      BY <3>1, <3>2
  <2>4. QED
    BY <1>9, <2>1, <2>2, <2>3 DEF StreamFrame
<1>10. ASSUME NEW r \in Requests, StreamCut(r) PROVE Types'
  BY <1>10 DEF StreamCut, Places, Outcomes
<1>11. ASSUME NEW r \in Requests, StreamTimeout(r) PROVE Types'
  BY <1>11 DEF StreamTimeout, Places, Outcomes
<1>12. ASSUME NEW r \in Requests, StreamEnd(r) PROVE Types'
  <2>1. /\ fired' \in [Requests -> BOOLEAN] /\ calls' \in [Requests -> Nat]
        /\ metered' \in [Requests -> Reports]
    BY <1>12, FireType DEF StreamEnd
  <2>2. QED
    BY <1>12, <2>1 DEF StreamEnd, Places
<1>13. ASSUME NEW r \in Requests, Cancel(r) PROVE Types'
  <2>1. /\ fired' \in [Requests -> BOOLEAN] /\ calls' \in [Requests -> Nat]
        /\ metered' \in [Requests -> Reports] /\ pending' \in SUBSET Requests
    <3>1. CASE r \in Streaming /\ pc[r] # "send"
      BY <1>13, <3>1, FireType DEF Cancel
    <3>2. CASE ~(r \in Streaming /\ pc[r] # "send")
      BY <1>13, <3>2 DEF Cancel
    <3>3. QED
      BY <3>1, <3>2
  <2>2. QED
    BY <1>13, <2>1 DEF Cancel, Places, Outcomes
<1>14. CASE DropWriter \/ UNCHANGED vars
  BY <1>14 DEF DropWriter, vars
<1>15. QED
  BY <1>1, <1>2, <1>3, <1>4, <1>5, <1>6, <1>7, <1>8, <1>9, <1>10, <1>11, <1>12,
     <1>13, <1>14 DEF Next, AllDone

(* The initial state has the types. *)
LEMMA TypeInit == Init => Types
<1>1. Off \in Tasks /\ -1 \in Counts /\ <<>> \in Seq(Frames) /\ <<>> \in Parts
  BY FrameFacts DEF Tasks, Counts, Parts, Off, Granted, Error
<1>2. Len(<<>>) <= Cap
  BY FrameFacts
<1>3. QED
  BY <1>1, <1>2, SizesAssumption DEF Init, Types, Channels, Places, Outcomes, Reports

(* The types hold in every state. *)
LEMMA TypesInvariance == Spec => []Types
BY TypeInit, TypeStep, PTL DEF Spec

(* Every variable keeps its type, and no channel ever holds more than its  *)
(* capacity, whatever the node sends and however slowly the client reads.  *)
THEOREM TypeCorrect == Spec => []TypeOK
BY TypesInvariance, TypesAgree, PTL

-----------------------------------------------------------------------------
(* The invariant, request by request *)

(* A step does not touch request x. *)
Same(x) ==
  /\ chan'[x] = chan[x] /\ bridge'[x] = bridge[x] /\ task'[x] = task[x]
  /\ node'[x] = node[x] /\ pc'[x] = pc[x] /\ body'[x] = body[x]
  /\ fired'[x] = fired[x] /\ calls'[x] = calls[x] /\ metered'[x] = metered[x]
  /\ x \in pending' <=> x \in pending

(* What the invariant says of one request. *)
RequestInv(x) == Control(x) /\ Completion(x) /\ Order(x) /\ Metered(x)

(* What is due depends on the kind and the body of the request alone. *)
LEMMA DueSame ==
  ASSUME NEW r \in Requests, kind' = kind, body'[r] = body[r]
  PROVE  Due(r)' = Due(r) /\ (r \in Streaming' <=> r \in Streaming)
BY DEF Due, Streaming

(* It stays true of a request that a step does not touch. *)
LEMMA SameKeeps ==
  ASSUME NEW x \in Requests, kind' = kind, Same(x), RequestInv(x)
  PROVE  RequestInv(x)'
<1>1. Streaming' = Streaming
  BY DEF Streaming
<1>2. Control(x)'
  BY <1>1 DEF Same, RequestInv, Control, Bridging
<1>3. Completion(x)'
  BY <1>1 DEF Same, RequestInv, Completion
<1>4. Order(x)'
  BY DEF Same, RequestInv, Order, InOrder, NoKey
<1>5. Metered(x)'
  BY DueSame DEF Same, RequestInv, Metered
<1>6. QED
  BY <1>2, <1>3, <1>4, <1>5 DEF RequestInv

(* The steps of one request. *)
RequestStep(r) ==
  \/ Register(r) \/ SendRequest(r)
  \/ \E f \in Frames : NodeFrame(r, f)
  \/ Collect(r) \/ CollectTimeout(r)
  \/ BridgeRecv(r) \/ BridgeSend(r)
  \/ StreamFrame(r) \/ StreamCut(r) \/ StreamTimeout(r)
  \/ StreamEnd(r) \/ Cancel(r)

(* They touch no other one, and no step changes what a request is. *)
LEMMA OthersSame ==
  ASSUME Types, NEW r \in Requests, RequestStep(r), NEW x \in Requests, x # r
  PROVE  Same(x) /\ kind' = kind
<1> USE DEF Same, Types
<1>1. DOMAIN chan = Requests /\ DOMAIN bridge = Requests
  BY DEF Channels
<1>2. CASE Register(r)
  BY <1>2 DEF Register
<1>3. CASE SendRequest(r)
  BY <1>3 DEF SendRequest
<1>4. ASSUME NEW f \in Frames, NodeFrame(r, f) PROVE Same(x) /\ kind' = kind
  BY <1>1, <1>4 DEF NodeFrame, Route
<1>5. CASE Collect(r)
  BY <1>1, <1>5 DEF Collect, Answer, Meter
<1>6. CASE CollectTimeout(r)
  BY <1>6 DEF CollectTimeout, Answer, Meter
<1>7. CASE BridgeRecv(r)
  BY <1>1, <1>7 DEF BridgeRecv
<1>8. CASE BridgeSend(r)
  BY <1>1, <1>8 DEF BridgeSend
<1>9. CASE StreamFrame(r)
  BY <1>1, <1>9 DEF StreamFrame, Fire
<1>10. CASE StreamCut(r)
  BY <1>10 DEF StreamCut
<1>11. CASE StreamTimeout(r)
  BY <1>11 DEF StreamTimeout
<1>12. CASE StreamEnd(r)
  BY <1>12 DEF StreamEnd, Fire
<1>13. CASE Cancel(r)
  BY <1>13 DEF Cancel, Fire
<1>14. QED
  BY <1>2, <1>3, <1>4, <1>5, <1>6, <1>7, <1>8, <1>9, <1>10, <1>11, <1>12, <1>13
     DEF RequestStep

-----------------------------------------------------------------------------
(* Frames in order *)

(* What is known of the values of one request. *)
LEMMA RequestTypes ==
  ASSUME Types, NEW r \in Requests
  PROVE  /\ chan[r] \in Seq(Frames) /\ Len(chan[r]) \in Nat /\ Len(chan[r]) <= Cap
         /\ bridge[r] \in Seq(Frames) /\ Len(bridge[r]) \in Nat /\ Len(bridge[r]) <= Cap
         /\ body[r] \in Seq(1 .. Chunks) /\ Len(body[r]) \in Nat
         /\ task[r] \in Int /\ node[r] \in Int
         /\ pc[r] \in Places /\ kind[r] \in Kinds
         /\ DOMAIN chan = Requests /\ DOMAIN bridge = Requests
<1>1. /\ chan[r] \in Seq(Frames) /\ Len(chan[r]) \in Nat /\ Len(chan[r]) <= Cap
      /\ bridge[r] \in Seq(Frames) /\ Len(bridge[r]) \in Nat /\ Len(bridge[r]) <= Cap
      /\ DOMAIN chan = Requests /\ DOMAIN bridge = Requests
  BY ChannelApply DEF Types
<1>2. body[r] \in Seq(1 .. Chunks) /\ Len(body[r]) \in Nat
  BY DEF Types, Parts
<1>3. task[r] \in Int /\ node[r] \in Int
  BY FrameFacts DEF Types, Tasks, Counts, Off, Granted, Error
<1>4. QED
  BY <1>1, <1>2, <1>3 DEF Types

(* A step that moves no frame of r and does not return it to its loop.     *)
LEMMA OrderFrame ==
  ASSUME Types, NEW r \in Requests, Order(r), kind' = kind,
         chan'[r] = chan[r], bridge'[r] = bridge[r], body'[r] = body[r],
         task'[r] = task[r],
         node'[r] = node[r] \/ r \notin pending',
         r \in pending' => r \in pending,
         pc'[r] \in {"idle", "send", "recv"} => pc[r] \in {"idle", "send", "recv"}
  PROVE  Order(r)'
BY DEF Order, InOrder, NoKey

(* An end of the loop leaves nothing to order. *)
LEMMA OrderDone ==
  ASSUME Types, NEW r \in Requests, Order(r), kind' = kind,
         body'[r] = body[r], NoKey(r) => NoKey(r)',
         pc'[r] \notin {"idle", "send", "recv"}
  PROVE  Order(r)'
BY DEF Order

(* A body that holds the chunks below b is given frame b. *)
LEMMA BodyGrows ==
  ASSUME NEW s \in Seq(1 .. Chunks), \A i \in 1 .. Len(s) : s[i] = i,
         NEW b \in {0, Len(s) + 1}, b = 0 => s = <<>>, b \in 0 .. Chunks,
         NEW t, t = IF IsChunk(b) THEN Append(s, b) ELSE s
  PROVE  Len(t) + 1 = b + 1 /\ \A i \in 1 .. Len(t) : t[i] = i
<1>1. CASE b = 0
  BY <1>1 DEF IsChunk
<1>2. CASE b # 0
  <2>1. IsChunk(b) /\ b = Len(s) + 1 /\ b \in 1 .. Chunks /\ Len(s) \in Nat
    BY <1>2, FrameFacts DEF IsChunk
  <2>2. t = Append(s, b)
    BY <2>1
  <2>3. QED
    BY <2>1, <2>2
<1>3. QED
  BY <1>1, <1>2

(* Receiving from, and appending to, frames in order. *)
LEMMA NumberedTail ==
  ASSUME NEW S, NEW q \in Seq(S), q # <<>>, NEW b \in Int, Numbered(q, b)
  PROVE  Numbered(Tail(q), b + 1) /\ (Plain(Head(q)) => Head(q) = b)
<1>1. /\ Head(q) = q[1] /\ Len(q) \in Nat /\ Len(q) >= 1 /\ 1 \in 1 .. Len(q)
      /\ \A i \in 1 .. Len(Tail(q)) : Tail(q)[i] = q[i + 1] /\ i + 1 \in 1 .. Len(q)
  BY TailType
<1>2. Plain(q[1]) => q[1] = b
  <2>1. Plain(q[1]) => q[1] = b + 1 - 1
    BY <1>1 DEF Numbered
  <2>2. QED
    BY <2>1
<1>3. ASSUME NEW i \in 1 .. Len(Tail(q)), Plain(Tail(q)[i])
      PROVE  Tail(q)[i] = (b + 1) + i - 1
  <2>1. q[i + 1] = b + (i + 1) - 1 /\ i \in Int
    BY <1>1, <1>3 DEF Numbered
  <2>2. QED
    BY <1>1, <2>1
<1>4. QED
  BY <1>1, <1>2, <1>3 DEF Numbered

(* A frame that is appended has the number after the last one. *)
LEMMA NumberedAppend ==
  ASSUME NEW S, NEW q \in Seq(S), NEW f \in S, NEW b \in Int, Numbered(q, b),
         Plain(f) => f = b + Len(q)
  PROVE  Numbered(Append(q, f), b)
<1>1. Len(q) \in Nat /\ Len(Append(q, f)) = Len(q) + 1
  OBVIOUS
<1>2. ASSUME NEW i \in 1 .. Len(Append(q, f)), Plain(Append(q, f)[i])
      PROVE  Append(q, f)[i] = b + i - 1
  <2>1. CASE i \in 1 .. Len(q)
    <3>1. Append(q, f)[i] = q[i]
      BY <2>1
    <3>2. QED
      BY <1>2, <2>1, <3>1 DEF Numbered
  <2>2. CASE i = Len(q) + 1
    <3>1. Append(q, f)[i] = f
      BY <2>2
    <3>2. f = b + Len(q)
      BY <1>2, <3>1
    <3>3. QED
      BY <1>1, <2>2, <3>1, <3>2
  <2>3. QED
    BY <1>1, <2>1, <2>2
<1>3. QED
  BY <1>2 DEF Numbered

(* Without frames there is nothing to order. *)
LEMMA NumberedEmpty == \A b : Numbered(<<>>, b)
BY DEF Numbered

(* No key among the frames of a channel. *)
LEMMA KeylessTail ==
  ASSUME NEW S, NEW q \in Seq(S), q # <<>>, \A i \in 1 .. Len(q) : q[i] # Granted
  PROVE  Head(q) # Granted /\ \A i \in 1 .. Len(Tail(q)) : Tail(q)[i] # Granted
BY TailType

(* Nor after a frame that is none. *)
LEMMA KeylessAppend ==
  ASSUME NEW S, NEW q \in Seq(S), NEW f \in S, f # Granted,
         \A i \in 1 .. Len(q) : q[i] # Granted
  PROVE  \A i \in 1 .. Len(Append(q, f)) : Append(q, f)[i] # Granted
OBVIOUS

(* The oldest frame of the channel goes to a handler that collects. *)
LEMMA CollectOrder ==
  ASSUME Types, NEW r \in Requests, RequestInv(r), Collect(r)
  PROVE  Order(r)'
<1> DEFINE f == Head(chan[r])
           q == chan[r]
<1>1. kind' = kind /\ bridge'[r] = bridge[r] /\ task'[r] = task[r] /\ node'[r] = node[r]
  BY DEF Collect
<1>2. Control(r) /\ Order(r) /\ pc[r] = "recv"
  BY DEF RequestInv, Collect
<1>3. task[r] = Off /\ bridge[r] = <<>>
  BY <1>2 DEF Control, Collect
<1>4. CASE q = <<>>
  <2>1. chan'[r] = chan[r] /\ body'[r] = body[r] /\ pc'[r] = "done"
    BY <1>4 DEF Collect, Answer, Types
  <2>2. NoKey(r) => NoKey(r)'
    BY <1>1, <2>1 DEF NoKey
  <2>3. QED
    BY <1>1, <1>2, <2>1, <2>2, OrderDone
<1>5. CASE q # <<>>
  <2>1. /\ q \in Seq(Frames) /\ body[r] \in Seq(1 .. Chunks) /\ Len(body[r]) \in Nat
    BY RequestTypes
  <2>2. /\ f \in Frames /\ f = q[1] /\ Len(q) \in Nat /\ Len(q) >= 1
        /\ Len(Tail(q)) = Len(q) - 1
        /\ \A i \in 1 .. Len(Tail(q)) : Tail(q)[i] = q[i + 1] /\ i + 1 \in 1 .. Len(q)
    BY <1>5, <2>1, TailType
  <2>3. /\ chan'[r] = Tail(q)
        /\ body'[r] = IF IsChunk(f) THEN Append(body[r], f) ELSE body[r]
    BY <1>5, RequestTypes DEF Collect, Types
  <2>4. NoKey(r) => NoKey(r)'
    BY <1>1, <2>2, <2>3 DEF NoKey
  <2>5. CASE f \in Terminal
    <3>1. pc'[r] = "done"
      BY <1>5, <2>5 DEF Collect, Answer, Types
    <3>2. body'[r] = body[r]
      BY <2>2, <2>3, <2>5, FrameFacts
    <3>3. QED
      BY <1>1, <1>2, <2>4, <3>1, <3>2, OrderDone
  <2>6. CASE f \notin Terminal
    <3>1. pc'[r] = "recv" /\ pending' = pending
      BY <1>2, <1>5, <2>6, FrameFacts DEF Collect, Terminal
    <3>2. PICK b \in {0, Len(body[r]) + 1} : (b = 0 => body[r] = <<>>) /\ InOrder(r, b)
      BY <1>2 DEF Order
    <3>3. b \in Nat
      BY <2>1
    <3>4. f \in 0 .. Chunks /\ Plain(f)
      BY <2>2, <2>6, PlainFacts
    <3>a. /\ Numbered(q, b)
          /\ r \in pending /\ Plain(node[r]) => node[r] = b + Len(q)
      BY <1>3, <3>2, <3>3, FrameFacts DEF InOrder
    <3>b. Numbered(Tail(q), b + 1)
      BY <1>5, <2>1, <3>3, <3>a, NumberedTail
    <3>5. f = b
      BY <1>5, <2>1, <3>3, <3>4, <3>a, NumberedTail
    <3>6. /\ Len(body'[r]) + 1 = b + 1
          /\ \A i \in 1 .. Len(body'[r]) : body'[r][i] = i
      BY <1>2, <2>1, <2>3, <3>2, <3>4, <3>5, BodyGrows DEF Order
    <3>7. InOrder(r, b + 1)'
      <4>1. Numbered(chan'[r], b + 1)
        BY <2>3, <3>b
      <4>2. r \in pending' /\ Plain(node'[r]) => node'[r] = (b + 1) + Len(chan'[r])
        <5>1. b + Len(q) = (b + 1) + Len(chan'[r])
          BY <2>2, <2>3, <3>3
        <5>2. QED
          BY <1>1, <3>1, <3>a, <5>1
      <4>3. task'[r] \notin Frames /\ ~Plain(task'[r]) /\ bridge'[r] = <<>>
        BY <1>1, <1>3, FrameFacts, PlainFacts
      <4>4. (b + 1) + Len(<<>>) = b + 1
        BY <3>3
      <4>5. QED
        BY <4>1, <4>2, <4>3, <4>4, NumberedEmpty DEF InOrder
    <3>8. \E c \in {0, Len(body'[r]) + 1} : (c = 0 => body'[r] = <<>>) /\ InOrder(r, c)'
      BY <3>3, <3>6, <3>7
    <3>9. QED
      BY <1>1, <1>2, <2>4, <3>6, <3>8 DEF Order
  <2>7. QED
    BY <2>5, <2>6
<1>6. QED
  BY <1>4, <1>5

(* The oldest frame of the bridge goes to the body of a stream. *)
LEMMA StreamOrder ==
  ASSUME Types, NEW r \in Requests, RequestInv(r), StreamFrame(r)
  PROVE  Order(r)'
<1> DEFINE q == bridge[r]
           f == Head(q)
<1>1. /\ kind' = kind /\ chan'[r] = chan[r] /\ task'[r] = task[r]
      /\ node'[r] = node[r] /\ pending' = pending
  BY DEF StreamFrame
<1>2. Order(r) /\ pc[r] = "recv" /\ kind[r] # "activate" /\ q # <<>>
  BY DEF RequestInv, StreamFrame, Streaming
<1>3. /\ q \in Seq(Frames) /\ body[r] \in Seq(1 .. Chunks) /\ Len(body[r]) \in Nat
      /\ Len(chan[r]) \in Nat
  BY RequestTypes
<1>4. f \in Frames /\ Len(q) \in Nat /\ Len(Tail(q)) = Len(q) - 1
  BY <1>2, <1>3, TailType
<1>5. /\ bridge'[r] = Tail(q)
      /\ body'[r] = IF IsChunk(f) THEN Append(body[r], f) ELSE body[r]
      /\ pc'[r] = CASE f = End -> "closing" [] f = Error -> "yielded" [] OTHER -> pc[r]
  BY RequestTypes DEF StreamFrame, Types
<1>6. NoKey(r) /\ NoKey(r)' /\ f # Granted
  <2>1. NoKey(r)
    BY <1>2 DEF Order
  <2>2. f # Granted /\ \A i \in 1 .. Len(Tail(q)) : Tail(q)[i] # Granted
    BY <1>2, <1>3, <2>1, KeylessTail DEF NoKey
  <2>3. QED
    BY <1>1, <1>5, <2>1, <2>2 DEF NoKey
<1>7. CASE f \in Terminal
  <2>1. pc'[r] \in {"closing", "yielded"}
    BY <1>5, <1>6, <1>7 DEF Terminal
  <2>2. body'[r] = body[r]
    BY <1>4, <1>5, <1>7, FrameFacts
  <2>3. QED
    BY <1>1, <1>2, <1>6, <2>1, <2>2, OrderDone
<1>8. CASE f \notin Terminal
  <2>1. f \in 0 .. Chunks /\ Plain(f)
    BY <1>4, <1>8, PlainFacts
  <2>2. PICK b \in {0, Len(body[r]) + 1} : (b = 0 => body[r] = <<>>) /\ InOrder(r, b)
    BY <1>2 DEF Order
  <2>3. b \in Nat
    BY <1>3
  <2>4. Numbered(q, b)
    BY <2>2 DEF InOrder
  <2>5. f = b /\ Numbered(Tail(q), b + 1)
    BY <1>2, <1>3, <2>1, <2>3, <2>4, NumberedTail
  <2>6. /\ Len(body'[r]) + 1 = b + 1
        /\ \A i \in 1 .. Len(body'[r]) : body'[r][i] = i
    BY <1>2, <1>3, <1>5, <2>1, <2>2, <2>5, BodyGrows DEF Order
  <2>7. InOrder(r, b + 1)'
    <3>1. (b + 1) + Len(bridge'[r]) = b + Len(q)
      BY <1>4, <1>5, <2>3
    <3>2. QED
      BY <1>1, <1>5, <2>2, <2>5, <3>1 DEF InOrder
  <2>8. \E c \in {0, Len(body'[r]) + 1} : (c = 0 => body'[r] = <<>>) /\ InOrder(r, c)'
    BY <2>3, <2>6, <2>7
  <2>9. QED
    BY <1>1, <1>6, <2>6, <2>8 DEF Order
<1>9. QED
  BY <1>7, <1>8

(* The bridge task takes the oldest frame of the channel in hand. *)
LEMMA RecvOrder ==
  ASSUME Types, NEW r \in Requests, RequestInv(r), BridgeRecv(r)
  PROVE  Order(r)'
<1> DEFINE q == chan[r]
<1>1. /\ kind' = kind /\ bridge' = bridge /\ node' = node /\ pending' = pending
      /\ body' = body /\ pc' = pc /\ task[r] = Receiving
  BY DEF BridgeRecv
<1>2. Order(r)
  BY DEF RequestInv
<1>a. DOMAIN task = Requests /\ DOMAIN chan = Requests
  BY RequestTypes DEF Types
<1>b. q \in Seq(Frames) /\ Len(q) \in Nat /\ Len(bridge[r]) \in Nat /\ Len(body[r]) \in Nat
  BY RequestTypes
<1>3. CASE q = <<>>
  <2>1. chan' = chan /\ task'[r] = Off
    BY <1>3, <1>a DEF BridgeRecv
  <2>2. /\ task[r] \notin Frames /\ task'[r] \notin Frames
        /\ ~Plain(task[r]) /\ ~Plain(task'[r]) /\ task'[r] # Granted
    BY <1>1, <2>1, FrameFacts, PlainFacts
  <2>3. NoKey(r) => NoKey(r)'
    BY <1>1, <2>1, <2>2 DEF NoKey
  <2>4. \A b : InOrder(r, b) => InOrder(r, b)'
    BY <1>1, <2>1, <2>2 DEF InOrder
  <2>5. QED
    BY <1>1, <1>2, <2>1, <2>3, <2>4 DEF Order
<1>4. CASE q # <<>>
  <2>1. chan'[r] = Tail(q) /\ task'[r] = Head(q)
    BY <1>4, <1>a DEF BridgeRecv
  <2>2. Head(q) \in Frames /\ Len(Tail(q)) = Len(q) - 1 /\ task[r] \notin Frames
    BY <1>1, <1>4, <1>b, TailType, FrameFacts
  <2>3. NoKey(r) => NoKey(r)'
    <3>1. SUFFICES ASSUME NoKey(r) PROVE NoKey(r)'
      OBVIOUS
    <3>2. Head(q) # Granted /\ \A i \in 1 .. Len(Tail(q)) : Tail(q)[i] # Granted
      BY <1>4, <1>b, <3>1, KeylessTail DEF NoKey
    <3>3. QED
      BY <1>1, <2>1, <3>1, <3>2 DEF NoKey
  <2>4. ASSUME NEW b \in Nat, InOrder(r, b)
        PROVE  InOrder(r, b)'
    <3> DEFINE h == b + Len(bridge[r])
    <3>1. h \in Nat /\ (h + 1) + Len(Tail(q)) = h + Len(q)
      <4>1. h \in Nat
        BY <1>b
      <4>2. \A x, y \in Nat : (x + 1) + (y - 1) = x + y
        OBVIOUS
      <4> HIDE DEF h
      <4>3. (h + 1) + (Len(q) - 1) = h + Len(q)
        BY <1>b, <4>1, <4>2
      <4>4. QED
        BY <2>2, <4>1, <4>3
    <3>2. Numbered(q, h) /\ (r \in pending /\ Plain(node[r]) => node[r] = h + Len(q))
      BY <2>2, <2>4 DEF InOrder
    <3>3. Numbered(Tail(q), h + 1) /\ (Plain(Head(q)) => Head(q) = h)
      BY <1>4, <1>b, <3>1, <3>2, NumberedTail
    <3>4. Numbered(bridge[r], b)
      BY <2>4 DEF InOrder
    <3>5. QED
      BY <1>1, <2>1, <2>2, <3>1, <3>2, <3>3, <3>4 DEF InOrder
  <2>5. \A b \in {0, Len(body[r]) + 1} : b \in Nat
    BY <1>b
  <2>6. QED
    BY <1>1, <1>2, <2>3, <2>4, <2>5 DEF Order
<1>5. QED
  BY <1>3, <1>4

(* It passes the frame in hand on to the body. *)
LEMMA SendOrder ==
  ASSUME Types, NEW r \in Requests, RequestInv(r), BridgeSend(r)
  PROVE  Order(r)'
<1> DEFINE q == bridge[r]
           f == task[r]
<1>1. /\ kind' = kind /\ chan' = chan /\ node' = node /\ body' = body /\ pc' = pc
      /\ f \in Frames
  BY DEF BridgeSend
<1>2. Order(r)
  BY DEF RequestInv
<1>a. DOMAIN task = Requests /\ DOMAIN bridge = Requests
  BY RequestTypes DEF Types
<1>b. q \in Seq(Frames) /\ Len(q) \in Nat /\ Len(chan[r]) \in Nat /\ Len(body[r]) \in Nat
  BY RequestTypes
<1>c. \A v \in {Off, Receiving} : v \notin Frames /\ ~Plain(v) /\ v # Granted
  BY FrameFacts, PlainFacts
<1>3. CASE pc[r] = "done"
  <2>1. bridge' = bridge /\ task'[r] = Off
    BY <1>3, <1>a DEF BridgeSend
  <2>2. NoKey(r) => NoKey(r)'
    BY <1>1, <1>c, <2>1 DEF NoKey
  <2>3. QED
    BY <1>1, <1>2, <1>3, <2>2, OrderDone
<1>4. CASE pc[r] # "done"
  <2>1. bridge'[r] = Append(q, f) /\ task'[r] = Receiving /\ pending' = pending
    BY <1>4, <1>a DEF BridgeSend
  <2>2. Len(Append(q, f)) = Len(q) + 1
    BY <1>b
  <2>3. NoKey(r) => NoKey(r)'
    <3>1. SUFFICES ASSUME NoKey(r) PROVE NoKey(r)'
      OBVIOUS
    <3>2. \A i \in 1 .. Len(Append(q, f)) : Append(q, f)[i] # Granted
      BY <1>1, <1>b, <3>1, KeylessAppend DEF NoKey
    <3>3. QED
      BY <1>1, <1>c, <2>1, <3>1, <3>2 DEF NoKey
  <2>4. ASSUME NEW b \in Nat, InOrder(r, b)
        PROVE  InOrder(r, b)'
    <3> DEFINE h == b + Len(q)
    <3>1. h \in Nat /\ b + Len(Append(q, f)) = h + 1
      BY <1>b, <2>2
    <3>2. /\ Numbered(q, b) /\ (Plain(f) => f = h) /\ Numbered(chan[r], h + 1)
          /\ r \in pending /\ Plain(node[r]) => node[r] = (h + 1) + Len(chan[r])
      BY <1>1, <2>4 DEF InOrder
    <3>3. Numbered(Append(q, f), b)
      BY <1>1, <1>b, <3>2, NumberedAppend
    <3>4. QED
      BY <1>1, <1>c, <2>1, <3>1, <3>2, <3>3 DEF InOrder
  <2>5. \A b \in {0, Len(body[r]) + 1} : b \in Nat
    BY <1>b
  <2>6. QED
    BY <1>1, <1>2, <2>3, <2>4, <2>5 DEF Order
<1>5. QED
  BY <1>3, <1>4

(* A frame arrives in order, or removes the entry; a terminal one does so  *)
(* in any case.                                                            *)
LEMMA NodeOrder ==
  ASSUME Types, NEW r \in Requests, RequestInv(r), NEW f \in Frames, NodeFrame(r, f)
  PROVE  Order(r)'
<1> DEFINE q == chan[r]
<1>1. /\ kind' = kind /\ bridge' = bridge /\ task' = task /\ body' = body /\ pc' = pc
      /\ node[r] \in 0 .. End /\ Plain(node[r])
      /\ f = Error \/ f = (IF kind[r] = "activate" THEN Granted ELSE node[r])
  BY DEF NodeFrame, Plain
<1>2. Order(r)
  BY DEF RequestInv
<1>3. CASE r \notin pending
  <2>1. chan' = chan /\ pending' = pending
    BY <1>3 DEF NodeFrame, Route
  <2>2. QED
    BY <1>1, <1>2, <1>3, <2>1, OrderFrame
<1>4. CASE r \in pending
  <2>a. DOMAIN chan = Requests /\ DOMAIN node = Requests
    BY RequestTypes DEF Types
  <2>b. /\ q \in Seq(Frames) /\ Len(q) \in Nat /\ Len(bridge[r]) \in Nat
        /\ Len(body[r]) \in Nat /\ Cap \in Nat
    BY RequestTypes, FrameFacts
  <2>1. /\ chan'[r] = IF Len(q) < Cap THEN Append(q, f) ELSE q
        /\ r \in pending' <=> f \notin Terminal /\ Len(q) < Cap
        /\ node'[r] = IF f \in Terminal THEN Error ELSE f + 1
    BY <1>4, <2>a, <2>b DEF NodeFrame, Route, Offer
  <2>2. kind[r] # "activate" => f # Granted
    BY <1>1, FrameFacts, PlainFacts
  <2>3. kind[r] # "activate" => NoKey(r)'
    <3>1. SUFFICES ASSUME kind[r] # "activate" PROVE NoKey(r)'
      OBVIOUS
    <3>2. NoKey(r)
      BY <1>2, <3>1 DEF Order
    <3>3. \A i \in 1 .. Len(Append(q, f)) : Append(q, f)[i] # Granted
      BY <2>2, <2>b, <3>1, <3>2, KeylessAppend DEF NoKey
    <3>4. QED
      BY <1>1, <2>1, <3>2, <3>3 DEF NoKey
  <2>4. ASSUME NEW b \in Nat, InOrder(r, b)
        PROVE  InOrder(r, b)'
    <3> DEFINE h == b + Len(bridge[r])
               e == IF task[r] \in Frames THEN h + 1 ELSE h
    <3>1. h \in Nat /\ e \in Nat
      BY <2>b
    <3>2. /\ Numbered(bridge[r], b) /\ (Plain(task[r]) => task[r] = h)
          /\ Numbered(q, e) /\ node[r] = e + Len(q)
      BY <1>1, <1>4, <2>4 DEF InOrder
    <3> HIDE DEF e
    <3>3. Plain(f) => f = e + Len(q)
      BY <1>1, <3>2, PlainFacts
    <3>4. Numbered(Append(q, f), e)
      BY <2>b, <3>1, <3>2, <3>3, NumberedAppend
    <3>5. Numbered(chan'[r], e)
      BY <2>1, <3>2, <3>4
    <3>6. r \in pending' => node'[r] = e + Len(chan'[r])
      <4>1. SUFFICES ASSUME r \in pending' PROVE node'[r] = e + Len(chan'[r])
        OBVIOUS
      <4>2. chan'[r] = Append(q, f) /\ node'[r] = f + 1 /\ Plain(f)
        BY <2>1, <4>1, PlainFacts
      <4>3. Len(Append(q, f)) = Len(q) + 1
        BY <2>b
      <4>4. f = e + Len(q)
        BY <3>3, <4>2
      <4>5. f + 1 = e + (Len(q) + 1)
        BY <2>b, <3>1, <4>4
      <4>6. QED
        BY <4>2, <4>3, <4>5
    <3>7. QED
      BY <1>1, <3>2, <3>5, <3>6 DEF InOrder, e
  <2>5. \A b \in {0, Len(body[r]) + 1} : b \in Nat
    BY <2>b
  <2>6. QED
    BY <1>1, <1>2, <2>3, <2>4, <2>5 DEF Order
<1>5. QED
  BY <1>3, <1>4

(* fail_all_pending appends an error to the channels of the entries that   *)
(* it removes.                                                             *)
LEMMA FailOrder ==
  ASSUME Types, NEW r \in Requests, RequestInv(r), FailAllPending
  PROVE  Order(r)'
<1> DEFINE q == chan[r]
<1>1. /\ kind' = kind /\ bridge' = bridge /\ task' = task /\ body' = body /\ pc' = pc
      /\ node' = node /\ r \notin pending'
      /\ chan'[r] \in {q, Append(q, Error)}
  BY DEF FailAllPending, Offer
<1>2. Order(r)
  BY DEF RequestInv
<1>3. /\ q \in Seq(Frames) /\ Len(q) \in Nat /\ Len(bridge[r]) \in Nat
      /\ Len(body[r]) \in Nat
  BY RequestTypes
<1>4. NoKey(r) => NoKey(r)'
  <2>1. SUFFICES ASSUME NoKey(r) PROVE NoKey(r)'
    OBVIOUS
  <2>2. \A i \in 1 .. Len(Append(q, Error)) : Append(q, Error)[i] # Granted
    BY <1>3, <2>1, FrameFacts, KeylessAppend DEF NoKey
  <2>3. QED
    BY <1>1, <2>1, <2>2 DEF NoKey
<1>5. ASSUME NEW b \in Nat, InOrder(r, b)
      PROVE  InOrder(r, b)'
  <2> DEFINE h == b + Len(bridge[r])
             e == IF task[r] \in Frames THEN h + 1 ELSE h
  <2>1. e \in Int
    BY <1>3
  <2>2. Numbered(bridge[r], b) /\ (Plain(task[r]) => task[r] = h) /\ Numbered(q, e)
    BY <1>5 DEF InOrder
  <2> HIDE DEF e
  <2>3. Numbered(Append(q, Error), e)
    BY <1>3, <2>1, <2>2, NumberedAppend, FrameFacts, PlainFacts
  <2>4. Numbered(chan'[r], e)
    BY <1>1, <2>2, <2>3
  <2>5. QED
    BY <1>1, <2>2, <2>4 DEF InOrder, e
<1>6. \A b \in {0, Len(body[r]) + 1} : b \in Nat
  BY <1>3
<1>7. QED
  BY <1>1, <1>2, <1>4, <1>5, <1>6 DEF Order

(* A request that is registered or sent has no frames under way. *)
LEMMA StartOrder ==
  ASSUME Types, NEW r \in Requests, RequestInv(r), Register(r) \/ SendRequest(r)
  PROVE  Order(r)'
<1>1. /\ kind' = kind /\ bridge' = bridge /\ body' = body /\ chan' = chan
      /\ pc[r] \in {"idle", "send"}
  BY DEF Register, SendRequest
<1>2. /\ Order(r) /\ Control(r) /\ task[r] = Off /\ node[r] = -1
      /\ bridge[r] = <<>> /\ body[r] = <<>>
  BY <1>1 DEF RequestInv, Control
<1>3. task'[r] \in {Off, Receiving} /\ node'[r] \in {-1, 0}
  BY <1>2 DEF Register, SendRequest, Types
<1>4. \A v \in {Off, Receiving} : v \notin Frames /\ ~Plain(v) /\ v # Granted
  BY FrameFacts, PlainFacts
<1>5. NoKey(r) => NoKey(r)'
  BY <1>1, <1>3, <1>4 DEF NoKey
<1>6. CASE r \in pending'
  <2>1. chan[r] = <<>>
    BY <1>2, <1>6 DEF Register, SendRequest, Control
  <2>2. InOrder(r, 0)'
    <3>1. Plain(node'[r]) => node'[r] = 0
      BY <1>3, PlainFacts
    <3>2. /\ Numbered(bridge'[r], 0) /\ Numbered(chan'[r], 0)
          /\ Len(bridge'[r]) = 0 /\ Len(chan'[r]) = 0
      BY <1>1, <1>2, <2>1, NumberedEmpty
    <3>3. QED
      BY <1>3, <1>4, <3>1, <3>2 DEF InOrder
  <2>3. QED
    BY <1>1, <1>2, <1>5, <2>2 DEF Order
<1>7. CASE r \notin pending'
  <2>1. \A b : InOrder(r, b) => InOrder(r, b)'
    BY <1>1, <1>2, <1>3, <1>4, <1>7 DEF InOrder
  <2>2. QED
    BY <1>1, <1>2, <1>5, <2>1 DEF Order
<1>8. QED
  BY <1>6, <1>7

-----------------------------------------------------------------------------
(* The step *)

(* What is read from a body that holds the chunks in order is what is due. *)
LEMMA UsageIsDue ==
  ASSUME Types, NEW r \in Requests, Order(r)
  PROVE  /\ r \in Streaming => UsageInEvents(body[r]) = Due(r)
         /\ r \notin Streaming => UsageInBody(body[r]) = Due(r)
         /\ UsageInEvents(<<>>) = {}
         /\ Due(r) \subseteq 1 .. Len(body[r])
<1>1. body[r] \in Seq(1 .. Chunks) /\ Len(body[r]) \in Nat /\ Chunks \in Nat
  BY RequestTypes, FrameFacts
<1>2. DOMAIN body[r] = 1 .. Len(body[r])
  BY <1>1
<1>3. \A j \in 1 .. Len(body[r]) : body[r][j] = j
  BY DEF Order
<1>4. UsageInEvents(body[r]) = Receipts \cap 1 .. Len(body[r])
  BY <1>2, <1>3 DEF UsageInEvents
<1>5. UsageInEvents(<<>>) = {}
  BY DEF UsageInEvents
<1>6. Due(r) \subseteq 1 .. Len(body[r])
  BY <1>1 DEF Due
<1>7. QED
  BY <1>4, <1>5, <1>6 DEF Due, UsageInBody

(* What fire does to its own stream. *)
LEMMA FireEffect ==
  ASSUME Types, NEW r \in Requests, NEW seen, Fire(r, seen), Completion(r),
         r \in Streaming
  PROVE  /\ fired'[r] = TRUE /\ calls'[r] = 1
         /\ fired[r] => metered'[r] = metered[r]
         /\ ~fired[r] => metered'[r] = UsageInEvents(seen)
<1>1. fired[r] \in BOOLEAN /\ calls[r] = IF fired[r] THEN 1 ELSE 0
  BY DEF Types, Completion
<1>2. CASE fired[r]
  BY <1>1, <1>2 DEF Fire
<1>3. CASE ~fired[r]
  BY <1>1, <1>3 DEF Fire, Types
<1>4. QED
  BY <1>2, <1>3

(* What the end of a handler does to its own request. *)
LEMMA AnswerEffect ==
  ASSUME Types, NEW r \in Requests, NEW how, Answer(r, how), Completion(r),
         r \notin Streaming, pc[r] = "recv"
  PROVE  /\ pc'[r] = "done" /\ r \notin pending' /\ calls'[r] \in {0, 1}
         /\ calls'[r] = 0 => metered'[r] = {}
         /\ calls'[r] # 0 => metered'[r] = UsageInBody(body[r]) /\ how = "ok"
<1>1. calls[r] = 0
  BY DEF Completion
<1>2. pc'[r] = "done" /\ r \notin pending'
  BY DEF Answer, Types
<1> DEFINE chat == how = "ok" /\ kind[r] = "collect"
<1>3. /\ calls'[r] = IF chat THEN 1 ELSE 0
      /\ metered'[r] = IF chat THEN UsageInBody(body[r]) ELSE {}
  BY <1>1 DEF Answer, Meter, Types
<1>4. QED
  BY <1>2, <1>3

(* Every step of a request keeps what the invariant says of it. *)
LEMMA OwnStep ==
  ASSUME Types, NEW r \in Requests, RequestInv(r), RequestStep(r)
  PROVE  RequestInv(r)'
<1>a. Control(r) /\ Completion(r) /\ Order(r) /\ Metered(r)
  BY DEF RequestInv
<1>b. ASSUME kind' = kind PROVE Streaming' = Streaming
  BY <1>b DEF Streaming
<1>c. Off # Receiving /\ Off \notin Frames /\ Receiving \notin Frames
  BY FrameFacts
<1>1. CASE Register(r)
  <2>1. /\ kind' = kind /\ chan' = chan /\ bridge' = bridge /\ task' = task
        /\ node' = node /\ body' = body /\ fired' = fired /\ calls' = calls
        /\ metered' = metered /\ pc[r] = "idle" /\ pc'[r] = "send"
    BY <1>1 DEF Register, Types
  <2>2. Order(r)'
    BY <1>1, StartOrder
  <2>3. Control(r)' /\ Completion(r)' /\ Metered(r)'
    BY <1>a, <1>b, <2>1, DueSame DEF Control, Completion, Metered, Bridging
  <2>4. QED
    BY <2>2, <2>3 DEF RequestInv
<1>2. CASE SendRequest(r)
  <2>1. /\ kind' = kind /\ chan' = chan /\ bridge' = bridge
        /\ body' = body /\ fired' = fired /\ calls' = calls
        /\ metered' = metered /\ pc[r] = "send"
        /\ \/ /\ pc'[r] = "done" /\ r \notin pending' /\ task' = task /\ node' = node
           \/ /\ pc'[r] = "recv" /\ pending' = pending
              /\ task'[r] = IF r \in Streaming THEN Receiving ELSE Off
    BY <1>2 DEF SendRequest, Types
  <2>2. Order(r)'
    BY <1>2, StartOrder
  <2>3. Control(r)'
    BY <1>a, <1>b, <1>c, <2>1 DEF Control, Bridging
  <2>4. Completion(r)' /\ Metered(r)'
    BY <1>a, <1>b, <2>1, DueSame DEF Control, Completion, Metered
  <2>5. QED
    BY <2>2, <2>3, <2>4 DEF RequestInv
<1>3. ASSUME NEW f \in Frames, NodeFrame(r, f) PROVE RequestInv(r)'
  <2>1. /\ kind' = kind /\ bridge' = bridge /\ task' = task /\ pc' = pc
        /\ body' = body /\ fired' = fired /\ calls' = calls /\ metered' = metered
        /\ node[r] \in 0 .. End /\ (r \in pending' => r \in pending)
    BY <1>3 DEF NodeFrame, Route
  <2>2. node[r] # -1
    BY <2>1, FrameFacts
  <2>a. pc[r] \notin {"idle", "send"}
    BY <1>a, <2>2 DEF Control
  <2>3. Order(r)'
    BY <1>3, NodeOrder
  <2>4. Control(r)' /\ Completion(r)' /\ Metered(r)'
    BY <1>a, <1>b, <2>1, <2>2, <2>a, DueSame DEF Control, Completion, Metered, Bridging
  <2>5. QED
    BY <2>3, <2>4 DEF RequestInv
<1>4. CASE Collect(r)
  <2>1. /\ kind' = kind /\ bridge' = bridge /\ task' = task /\ node' = node
        /\ fired' = fired /\ pc[r] = "recv" /\ r \notin Streaming
    BY <1>4 DEF Collect
  <2>2. Order(r)'
    BY <1>4, CollectOrder
  <2>3. \/ /\ \E how : Answer(r, how)
           /\ body' = body
        \/ UNCHANGED <<pc, outcome, pending, calls, metered>>
    <3>1. CASE chan[r] = <<>>
      BY <1>4, <3>1 DEF Collect
    <3>2. CASE chan[r] # <<>>
      <4>1. Head(chan[r]) \in Frames
        BY <3>2, ChannelTail DEF Types
      <4>2. CASE Head(chan[r]) \in Terminal
        <5>1. ~IsChunk(Head(chan[r]))
          BY <4>1, <4>2, FrameFacts
        <5>2. body' = body
          BY <1>4, <3>2, <5>1 DEF Collect, Types
        <5>3. QED
          BY <1>4, <3>2, <4>2, <5>2 DEF Collect
      <4>3. CASE Head(chan[r]) \notin Terminal
        BY <1>4, <3>2, <4>3 DEF Collect, Terminal
      <4>4. QED
        BY <4>2, <4>3
    <3>3. QED
      BY <3>1, <3>2
  <2>4. CASE UNCHANGED <<pc, outcome, pending, calls, metered>>
    <3>1. Control(r)' /\ Completion(r)'
      BY <1>a, <1>b, <2>1, <2>4 DEF Control, Completion, Bridging
    <3>a. Metered(r)'
      BY <1>a, <2>1, <2>4 DEF Metered
    <3>2. QED
      BY <2>2, <3>1, <3>a DEF RequestInv
  <2>5. CASE (\E how : Answer(r, how)) /\ body' = body
    <3>1. /\ pc'[r] = "done" /\ r \notin pending' /\ calls'[r] \in {0, 1}
          /\ metered'[r] \in {{}, UsageInBody(body[r])}
      BY <1>a, <2>1, <2>5, AnswerEffect
    <3>2. Control(r)' /\ Completion(r)'
      BY <1>a, <1>b, <2>1, <3>1 DEF Control, Completion, Bridging
    <3>3. Metered(r)'
      BY <1>a, <2>1, <2>5, <3>1, UsageIsDue, DueSame DEF Metered
    <3>4. QED
      BY <2>2, <3>2, <3>3 DEF RequestInv
  <2>6. QED
    BY <2>3, <2>4, <2>5
<1>5. CASE CollectTimeout(r)
  <2>1. /\ kind' = kind /\ bridge' = bridge /\ task' = task /\ node' = node
        /\ fired' = fired /\ chan' = chan /\ body' = body
        /\ pc[r] = "recv" /\ r \notin Streaming /\ Answer(r, "timeout")
    BY <1>5 DEF CollectTimeout
  <2>2. /\ pc'[r] = "done" /\ r \notin pending' /\ calls'[r] \in {0, 1}
        /\ metered'[r] \in {{}, UsageInBody(body[r])}
    BY <1>a, <2>1, AnswerEffect
  <2>3. Order(r)'
    BY <1>a, <2>1, <2>2, OrderFrame
  <2>4. Control(r)' /\ Completion(r)'
    BY <1>a, <1>b, <2>1, <2>2 DEF Control, Completion, Bridging
  <2>5. Metered(r)'
    BY <1>a, <2>1, <2>2, UsageIsDue, DueSame DEF Metered
  <2>6. QED
    BY <2>3, <2>4, <2>5 DEF RequestInv
<1>6. CASE BridgeRecv(r)
  <2>1. /\ kind' = kind /\ bridge' = bridge /\ node' = node /\ pc' = pc
        /\ body' = body /\ fired' = fired /\ calls' = calls /\ metered' = metered
        /\ pending' = pending /\ task[r] = Receiving
    BY <1>6 DEF BridgeRecv
  <2>2. \/ r \notin pending
        \/ task'[r] # Off
    <3>1. CASE chan[r] = <<>>
      BY <1>6, <3>1 DEF BridgeRecv
    <3>2. CASE chan[r] # <<>>
      <4>1. Head(chan[r]) \in Frames
        BY <3>2, ChannelTail DEF Types
      <4>2. task'[r] = Head(chan[r])
        BY <1>6, <3>2 DEF BridgeRecv, Types
      <4>3. QED
        BY <1>c, <4>1, <4>2
    <3>3. QED
      BY <3>1, <3>2
  <2>3. r \in Streaming /\ pc[r] \notin {"idle", "send"}
    BY <1>a, <1>c, <2>1 DEF Control
  <2>4. Order(r)'
    BY <1>6, RecvOrder
  <2>5. Control(r)'
    BY <1>a, <1>b, <2>1, <2>2, <2>3 DEF Control, Bridging
  <2>6. Completion(r)' /\ Metered(r)'
    BY <1>a, <1>b, <1>c, <2>1, DueSame DEF Completion, Metered
  <2>7. QED
    BY <2>4, <2>5, <2>6 DEF RequestInv
<1>7. CASE BridgeSend(r)
  <2>1. /\ kind' = kind /\ chan' = chan /\ node' = node /\ pc' = pc
        /\ body' = body /\ fired' = fired /\ calls' = calls /\ metered' = metered
        /\ task[r] \in Frames
        /\ \/ pc[r] # "done" /\ task'[r] = Receiving /\ pending' = pending
           \/ pc[r] = "done" /\ task'[r] = Off /\ r \notin pending'
    BY <1>7 DEF BridgeSend, Types
  <2>2. r \in Streaming /\ pc[r] \notin {"idle", "send"} /\ task[r] # Off
    BY <1>a, <1>c, <2>1 DEF Control
  <2>3. Order(r)'
    BY <1>7, SendOrder
  <2>4. Control(r)'
    BY <1>a, <1>b, <1>c, <2>1, <2>2 DEF Control, Bridging
  <2>5. Completion(r)' /\ Metered(r)'
    BY <1>a, <1>b, <2>1, <2>2, DueSame DEF Completion, Metered
  <2>6. QED
    BY <2>3, <2>4, <2>5 DEF RequestInv
<1>8. CASE StreamFrame(r)
  <2> DEFINE f == Head(bridge[r])
  <2>1. /\ kind' = kind /\ chan' = chan /\ task' = task /\ node' = node
        /\ pending' = pending /\ pc[r] = "recv" /\ r \in Streaming /\ bridge[r] # <<>>
        /\ pc'[r] = CASE f = End -> "closing" [] f = Error -> "yielded" [] OTHER -> "recv"
    BY <1>8 DEF StreamFrame, Types
  <2>2. Order(r)'
    BY <1>8, StreamOrder
  <2>3. pc'[r] \in {"closing", "yielded", "recv"}
    BY <2>1
  <2>4. Control(r)'
    BY <1>a, <1>b, <2>1, <2>3 DEF Control, Bridging
  <2>5. CASE f # End
    <3>1. fired' = fired /\ calls' = calls /\ metered' = metered
      BY <1>8, <2>5 DEF StreamFrame, Fires
    <3>2. Completion(r)' /\ Metered(r)'
      BY <1>a, <1>b, <2>1, <2>3, <3>1 DEF Completion, Metered
    <3>3. QED
      BY <2>2, <2>4, <3>2 DEF RequestInv
  <2>6. CASE f = End
    <3>1. Fire(r, body[r])
      BY <1>8, <2>6 DEF StreamFrame, Fires
    <3>2. /\ fired'[r] = TRUE /\ calls'[r] = 1
          /\ metered'[r] \in {metered[r], UsageInEvents(body[r])}
      BY <1>a, <2>1, <3>1, FireEffect
    <3>3. ~IsChunk(End)
      BY FrameFacts DEF Terminal
    <3>4. body'[r] = body[r] /\ pc'[r] = "closing"
      <4>1. body'[r] = IF IsChunk(f) THEN Append(body[r], f) ELSE body[r]
        BY <1>8 DEF StreamFrame, Types
      <4>2. pc'[r] = "closing"
        BY <2>1, <2>6, FrameFacts
      <4>3. QED
        BY <2>6, <3>3, <4>1, <4>2
    <3>5. Metered(r)'
      BY <1>a, <2>1, <3>2, <3>4, UsageIsDue, DueSame DEF Metered
    <3>6. Completion(r)'
      BY <1>b, <2>1, <3>2, <3>4 DEF Completion
    <3>7. QED
      BY <2>2, <2>4, <3>5, <3>6 DEF RequestInv
  <2>7. QED
    BY <2>5, <2>6
<1>9. CASE StreamCut(r) \/ StreamTimeout(r)
  <2>1. /\ kind' = kind /\ chan' = chan /\ bridge' = bridge /\ task' = task
        /\ node' = node /\ body' = body /\ fired' = fired /\ calls' = calls
        /\ metered' = metered /\ pending' = pending
        /\ pc[r] = "recv" /\ r \in Streaming /\ pc'[r] \in {"closing", "yielded"}
    BY <1>9 DEF StreamCut, StreamTimeout, Types
  <2>2. Order(r)'
    BY <1>a, <2>1, OrderFrame
  <2>3. Control(r)' /\ Completion(r)' /\ Metered(r)'
    BY <1>a, <1>b, <2>1, DueSame DEF Control, Completion, Metered, Bridging
  <2>4. QED
    BY <2>2, <2>3 DEF RequestInv
<1>10. CASE StreamEnd(r)
  <2>1. /\ kind' = kind /\ chan' = chan /\ bridge' = bridge /\ task' = task
        /\ node' = node /\ body' = body /\ pending' = pending
        /\ pc[r] \in {"closing", "yielded"} /\ pc'[r] = "done" /\ Fire(r, body[r])
    BY <1>10 DEF StreamEnd, Types
  <2>2. r \in Streaming
    BY <1>a, <2>1 DEF Control
  <2>3. /\ fired'[r] = TRUE /\ calls'[r] = 1
        /\ metered'[r] \in {metered[r], UsageInEvents(body[r])}
    BY <1>a, <2>1, <2>2, FireEffect
  <2>4. Order(r)'
    BY <1>a, <2>1, OrderFrame
  <2>5. Control(r)' /\ Completion(r)'
    BY <1>a, <1>b, <2>1, <2>2, <2>3 DEF Control, Completion, Bridging
  <2>6. Metered(r)'
    BY <1>a, <2>1, <2>2, <2>3, UsageIsDue, DueSame DEF Metered
  <2>7. QED
    BY <2>4, <2>5, <2>6 DEF RequestInv
<1>11. CASE Cancel(r)
  <2>1. /\ kind' = kind /\ chan' = chan /\ bridge' = bridge /\ task' = task
        /\ node' = node /\ body' = body
        /\ pc[r] \in {"send", "recv", "yielded"} /\ pc'[r] = "done"
    BY <1>11 DEF Cancel, Types
  <2>2. r \in pending' => r \in pending
    BY <1>11 DEF Cancel
  <2>3. Order(r)'
    BY <1>a, <2>1, <2>2, OrderFrame
  <2>4. CASE r \in Streaming /\ pc[r] # "send"
    <3>1. Fire(r, <<>>) /\ pending' = pending
      BY <1>11, <2>4 DEF Cancel
    <3>2. UsageInEvents(<<>>) = {}
      BY <1>a, UsageIsDue
    <3>3. fired'[r] = TRUE /\ calls'[r] = 1 /\ metered'[r] \in {metered[r], {}}
      BY <1>a, <2>4, <3>1, <3>2, FireEffect
    <3>4. Control(r)' /\ Completion(r)' /\ Metered(r)'
      BY <1>a, <1>b, <2>1, <2>4, <3>1, <3>3, DueSame
         DEF Control, Completion, Metered, Bridging
    <3>5. QED
      BY <2>3, <3>4 DEF RequestInv
  <2>5. CASE ~(r \in Streaming /\ pc[r] # "send")
    <3>1. fired' = fired /\ calls' = calls /\ metered' = metered /\ r \notin pending'
      BY <1>11, <2>5 DEF Cancel
    <3>2. Control(r)' /\ Metered(r)'
      BY <1>a, <1>b, <2>1, <2>5, <3>1, DueSame DEF Control, Metered, Bridging
    <3>3. Completion(r)'
      BY <1>a, <1>b, <2>1, <2>5, <3>1 DEF Control, Completion
    <3>4. QED
      BY <2>3, <3>2, <3>3 DEF RequestInv
  <2>6. QED
    BY <2>4, <2>5
<1>12. QED
  BY <1>1, <1>2, <1>3, <1>4, <1>5, <1>6, <1>7, <1>8, <1>9, <1>10, <1>11
     DEF RequestStep

(* Every step keeps the invariant. *)
LEMMA ForwardStep == Types /\ ForwardInv /\ [Next]_vars => ForwardInv'
<1> SUFFICES ASSUME Types, ForwardInv, [Next]_vars, NEW x \in Requests
             PROVE  RequestInv(x)'
  BY DEF ForwardInv, RequestInv
<1>a. RequestInv(x)
  BY DEF ForwardInv, RequestInv
<1>1. ASSUME NEW r \in Requests, RequestStep(r)
      PROVE  RequestInv(x)'
  <2>1. CASE x = r
    BY <1>1, <1>a, <2>1, OwnStep
  <2>2. CASE x # r
    BY <1>1, <1>a, <2>2, OthersSame, SameKeeps
  <2>3. QED
    BY <2>1, <2>2
<1>2. CASE FailAllPending
  <2>1. /\ kind' = kind /\ bridge' = bridge /\ task' = task /\ node' = node
        /\ pc' = pc /\ body' = body /\ fired' = fired /\ calls' = calls
        /\ metered' = metered /\ x \notin pending'
        /\ x \notin pending => chan'[x] = chan[x]
    BY <1>2 DEF FailAllPending
  <2>2. Streaming' = Streaming
    BY <2>1 DEF Streaming
  <2>3. Order(x)'
    BY <1>2, <1>a, FailOrder
  <2>4. Control(x)' /\ Completion(x)' /\ Metered(x)'
    BY <1>a, <2>1, <2>2, DueSame DEF RequestInv, Control, Completion, Metered, Bridging
  <2>5. QED
    BY <2>3, <2>4 DEF RequestInv
<1>3. CASE DropWriter \/ UNCHANGED vars
  <2>1. Same(x) /\ kind' = kind
    BY <1>3 DEF DropWriter, vars, Same
  <2>2. QED
    BY <1>a, <2>1, SameKeeps
<1>4. QED
  BY <1>1, <1>2, <1>3 DEF Next, RequestStep, AllDone

(* At the start no request has anything. *)
LEMMA ForwardInit == Init => ForwardInv
<1> SUFFICES ASSUME Init, NEW r \in Requests PROVE RequestInv(r)
  BY DEF ForwardInv, RequestInv
<1>1. /\ pending = {} /\ chan[r] = <<>> /\ bridge[r] = <<>> /\ task[r] = Off
      /\ node[r] = -1 /\ pc[r] = "idle" /\ body[r] = <<>> /\ fired[r] = FALSE
      /\ calls[r] = 0 /\ metered[r] = {}
  BY DEF Init
<1>2. Control(r) /\ Completion(r) /\ Metered(r)
  BY <1>1 DEF Control, Completion, Metered
<1>3. InOrder(r, 0)
  BY <1>1, FrameFacts, PlainFacts, NumberedEmpty DEF InOrder
<1>4. NoKey(r)
  BY <1>1, FrameFacts DEF NoKey
<1>5. QED
  BY <1>1, <1>2, <1>3, <1>4 DEF RequestInv, Order

(* The invariant holds in every state. *)
LEMMA ForwardInvariance == Spec => []ForwardInv
BY ForwardInit, ForwardStep, TypesInvariance, PTL DEF Spec

-----------------------------------------------------------------------------
(* What clients may rely on *)

(* The client of every request has received a prefix of what the node      *)
(* sent, without gap, repetition or reordering, for channels of every      *)
(* capacity and whatever was dropped because one was full.                 *)
THEOREM PrefixDelivered == Spec => []BodyIsPrefix
<1>1. Types /\ ForwardInv => BodyIsPrefix
  <2> SUFFICES ASSUME Types, ForwardInv, NEW r \in Requests
               PROVE  body[r] = [i \in 1 .. Len(body[r]) |-> i]
    BY DEF BodyIsPrefix
  <2>1. body[r] \in Seq(1 .. Chunks)
    BY RequestTypes
  <2>2. \A i \in 1 .. Len(body[r]) : body[r][i] = i
    BY DEF ForwardInv, Order
  <2>3. QED
    BY <2>1, <2>2
<1>2. QED
  BY <1>1, TypesInvariance, ForwardInvariance, PTL

(* After the failure of the pending requests only those register that the  *)
(* node is never asked for.                                                *)
LEMMA UnaskedStep ==
  Types /\ ForwardInv /\ Unasked /\ [Next]_vars => Unasked'
<1> SUFFICES ASSUME Types, ForwardInv, Unasked, [Next]_vars PROVE Unasked'
  OBVIOUS
<1> USE DEF Unasked, Types
<1>1. ASSUME pending' \subseteq pending, node' = node, tunnel' = tunnel
      PROVE  Unasked'
  BY <1>1
<1>2. ASSUME NEW r \in Requests, Register(r) PROVE Unasked'
  <2>1. node[r] = -1
    BY <1>2 DEF Register, ForwardInv, Control
  <2>2. QED
    BY <1>2, <2>1 DEF Register
<1>3. ASSUME NEW r \in Requests, SendRequest(r) PROVE Unasked'
  BY <1>3 DEF SendRequest
<1>4. ASSUME NEW r \in Requests, NEW f \in Frames, NodeFrame(r, f) PROVE Unasked'
  BY <1>4 DEF NodeFrame
<1>5. ASSUME NEW r \in Requests, Collect(r) \/ CollectTimeout(r) PROVE Unasked'
  BY <1>1, <1>5 DEF Collect, CollectTimeout, Answer
<1>6. ASSUME NEW r \in Requests, BridgeRecv(r) \/ BridgeSend(r) PROVE Unasked'
  BY <1>1, <1>6 DEF BridgeRecv, BridgeSend
<1>7. ASSUME NEW r \in Requests,
             \/ StreamFrame(r) \/ StreamCut(r) \/ StreamTimeout(r)
             \/ StreamEnd(r) \/ Cancel(r)
      PROVE  Unasked'
  BY <1>1, <1>7 DEF StreamFrame, StreamCut, StreamTimeout, StreamEnd, Cancel
<1>8. CASE FailAllPending
  BY <1>8 DEF FailAllPending
<1>9. CASE DropWriter
  BY <1>9 DEF DropWriter
<1>10. CASE UNCHANGED vars
  BY <1>10 DEF vars
<1>11. QED
  BY <1>2, <1>3, <1>4, <1>5, <1>6, <1>7, <1>8, <1>9, <1>10 DEF Next, AllDone

(* However requests, frames, time-outs, clients that leave and the end of  *)
(* the tunnel interleave, a handler or a bridge task holds every entry of  *)
(* the pending map, and an entry that is there after the pending requests  *)
(* were failed is of a request the node was never asked for.               *)
THEOREM PendingOwned == Spec => []PendingHasOwner
<1>1. Types /\ ForwardInv /\ Unasked => PendingHasOwner
  <2> SUFFICES ASSUME Types, ForwardInv, Unasked, NEW r \in pending
               PROVE  pc[r] \in {"send", "recv"} \/ Bridging(r)
    BY DEF PendingHasOwner, Unasked
  <2>1. r \in Requests /\ pc[r] \in Places
    BY DEF Types
  <2>2. Control(r)
    BY <2>1 DEF ForwardInv
  <2>3. QED
    BY <2>1, <2>2 DEF Control, Places
<1>2. Init => Unasked
  BY DEF Init, Unasked
<1>3. QED
  BY <1>1, <1>2, UnaskedStep, TypesInvariance, ForwardInvariance, PTL DEF Spec

(* The completion of a stream runs exactly once, and the usage step of a   *)
(* collected answer at most once.                                          *)
THEOREM CompletedOnce == Spec => []CompletesOnce
<1>1. Types /\ ForwardInv => CompletesOnce
  <2> SUFFICES ASSUME Types, ForwardInv, NEW r \in Requests
               PROVE  /\ calls[r] <= 1
                      /\ (r \in Streaming /\ pc[r] = "done" /\ (Bridging(r) \/ node[r] >= 0))
                           => calls[r] = 1
    BY DEF CompletesOnce
  <2>1. Completion(r)
    BY DEF ForwardInv
  <2>2. calls[r] <= 1
    BY <2>1 DEF Completion
  <2>3. node[r] = -1 => ~(node[r] >= 0)
    OBVIOUS
  <2>4. QED
    BY <2>1, <2>2, <2>3 DEF Completion, Bridging
<1>2. QED
  BY <1>1, TypesInvariance, ForwardInvariance, PTL

-----------------------------------------------------------------------------
(* The verdict *)

(* The verdict of a request comes with the end of its loop, and a success  *)
(* is metered when its bill is closed.                                     *)
LEMMA OwnEnded ==
  ASSUME Types, NEW r \in Requests, RequestInv(r), Ended(r), RequestStep(r)
  PROVE  Ended(r)'
<1>a. Control(r) /\ Completion(r) /\ Order(r)
  BY DEF RequestInv
<1>b. pc[r] \in {"idle", "send", "recv"} => calls[r] = 0 /\ outcome[r] = "none"
  BY <1>a DEF Ended, Control, Completion, Types
<1>c. ASSUME kind' = kind, body'[r] = body[r] PROVE Due(r)' = Due(r)
  BY <1>c, DueSame
<1> USE DEF Ended, Types
<1>1. CASE Register(r)
  BY <1>1, <1>b DEF Register
<1>2. CASE SendRequest(r)
  BY <1>2, <1>b DEF SendRequest
<1>3. ASSUME NEW f \in Frames, NodeFrame(r, f) PROVE Ended(r)'
  BY <1>3, <1>c DEF NodeFrame
<1>4. ASSUME NEW how \in Outcomes \ {"none", "cancelled"}, Answer(r, how), kind' = kind,
             body'[r] = body[r], pc[r] = "recv", r \notin Streaming
      PROVE  Ended(r)'
  <2>1. pc'[r] = "done" /\ outcome'[r] = how
    BY <1>4 DEF Answer
  <2>2. calls'[r] # 0 => metered'[r] = UsageInBody(body[r])
    BY <1>4, <1>a, AnswerEffect
  <2>3. UsageInBody(body[r]) = Due(r)'
    BY <1>4, <1>a, <1>c, UsageIsDue
  <2>4. QED
    BY <1>4, <2>1, <2>2, <2>3
<1>5. CASE Collect(r)
  <2>1. pc[r] = "recv" /\ r \notin Streaming /\ kind' = kind
    BY <1>5 DEF Collect
  <2>2. kind[r] \in {"collect", "fetch", "activate"}
    BY <2>1 DEF Kinds, Streaming
  <2>3. /\ AtEnd(r) \in Outcomes \ {"none", "cancelled"}
        /\ "error" \in Outcomes \ {"none", "cancelled"}
        /\ \A f : ActivationAt(f) \in Outcomes \ {"none", "cancelled"}
    BY <2>2 DEF AtEnd, FetchedList, ActivationAt, Outcomes
  <2>4. CASE chan[r] = <<>>
    BY <1>4, <1>5, <2>1, <2>3, <2>4 DEF Collect
  <2>5. CASE chan[r] # <<>>
    <3>1. Head(chan[r]) \in Frames
      BY <2>5, ChannelTail
    <3>2. CASE Head(chan[r]) \in Terminal
      <4>1. body'[r] = body[r]
        BY <1>5, <2>5, <3>1, <3>2, FrameFacts DEF Collect
      <4>2. \E how \in Outcomes \ {"none", "cancelled"} : Answer(r, how)
        BY <1>5, <2>3, <2>5, <3>2 DEF Collect, Terminal
      <4>3. QED
        BY <1>4, <2>1, <4>1, <4>2
    <3>3. CASE Head(chan[r]) \notin Terminal
      <4>1. UNCHANGED <<pc, outcome, calls>>
        BY <1>5, <2>5, <3>3 DEF Collect, Terminal
      <4>2. QED
        BY <1>b, <2>1, <4>1
    <3>4. QED
      BY <3>2, <3>3
  <2>6. QED
    BY <2>4, <2>5
<1>6. CASE CollectTimeout(r)
  BY <1>4, <1>6 DEF CollectTimeout, Outcomes
<1>7. CASE BridgeRecv(r) \/ BridgeSend(r)
  BY <1>7, <1>c DEF BridgeRecv, BridgeSend
<1>d. ASSUME Fire(r, body[r]), r \in Streaming, kind' = kind, body'[r] = body[r],
             ~fired[r]
      PROVE  metered'[r] = Due(r)'
  BY <1>a, <1>c, <1>d, FireEffect, UsageIsDue
<1>8. CASE StreamFrame(r)
  <2> DEFINE f == Head(bridge[r])
  <2>1. /\ pc[r] = "recv" /\ r \in Streaming /\ kind' = kind
        /\ pc'[r] = CASE f = End -> "closing" [] f = Error -> "yielded" [] OTHER -> pc[r]
        /\ outcome'[r] = CASE f = End -> "ok" [] f = Error -> "error" [] OTHER -> outcome[r]
    BY <1>8 DEF StreamFrame
  <2>2. CASE f = End
    <3>0. ~IsChunk(End)
      BY FrameFacts DEF Terminal
    <3>1. body'[r] = body[r] /\ Fire(r, body[r])
      BY <1>8, <2>2, <3>0 DEF StreamFrame, Fires
    <3>2. ~fired[r]
      BY <1>a, <2>1 DEF Completion
    <3>3. metered'[r] = Due(r)'
      BY <1>d, <2>1, <3>1, <3>2
    <3>4. QED
      BY <2>1, <2>2, <3>3
  <2>3. CASE f # End
    <3>1. calls' = calls
      BY <1>8, <2>3 DEF StreamFrame, Fires
    <3>2. QED
      BY <1>b, <2>1, <2>3, <3>1
  <2>4. QED
    BY <2>2, <2>3
<1>9. CASE StreamCut(r) \/ StreamTimeout(r)
  BY <1>9, <1>b DEF StreamCut, StreamTimeout
<1>10. CASE StreamEnd(r)
  <2>1. /\ kind' = kind /\ body' = body /\ outcome' = outcome /\ pc'[r] = "done"
        /\ pc[r] \in {"closing", "yielded"} /\ Fire(r, body[r])
    BY <1>10 DEF StreamEnd
  <2>2. r \in Streaming
    BY <1>a, <2>1 DEF Control
  <2>3. CASE fired[r]
    <3>1. calls' = calls /\ metered' = metered
      BY <2>1, <2>3 DEF Fire
    <3>2. QED
      BY <1>c, <2>1, <3>1
  <2>4. CASE ~fired[r]
    <3>1. metered'[r] = Due(r)'
      BY <1>d, <2>1, <2>2, <2>4
    <3>2. QED
      BY <2>1, <3>1
  <2>5. QED
    BY <2>3, <2>4
<1>11. CASE Cancel(r)
  <2>1. /\ pc'[r] = "done" /\ pc[r] \in {"send", "recv", "yielded"}
        /\ outcome'[r] = IF outcome[r] = "none" THEN "cancelled" ELSE outcome[r]
    BY <1>11 DEF Cancel
  <2>2. outcome[r] # "ok"
    BY <1>b, <2>1
  <2>3. QED
    BY <2>1, <2>2
<1>12. QED
  BY <1>1, <1>2, <1>3, <1>5, <1>6, <1>7, <1>8, <1>9, <1>10, <1>11 DEF RequestStep

(* A request's step gives no verdict to another one. *)
LEMMA OthersVerdict ==
  ASSUME Types, NEW r \in Requests, RequestStep(r), NEW x \in Requests, x # r
  PROVE  outcome'[x] = outcome[x]
<1>1. outcome' = outcome \/ \E v : outcome' = [outcome EXCEPT ![r] = v]
  BY DEF RequestStep, Register, SendRequest, NodeFrame, Collect, CollectTimeout,
         Answer, BridgeRecv, BridgeSend, StreamFrame, StreamCut, StreamTimeout,
         StreamEnd, Cancel
<1>2. QED
  BY <1>1 DEF Types

(* Verdicts, program counters and bills agree in every state. *)
LEMMA EndedInvariance == Spec => []EndedInv
<1>1. Init => EndedInv
  BY DEF Init, EndedInv, Ended
<1>2. Types /\ ForwardInv /\ EndedInv /\ [Next]_vars => EndedInv'
  <2> SUFFICES ASSUME Types, ForwardInv, EndedInv, [Next]_vars, NEW x \in Requests
               PROVE  Ended(x)'
    BY DEF EndedInv
  <2>a. Ended(x) /\ RequestInv(x)
    BY DEF EndedInv, ForwardInv, RequestInv
  <2>1. ASSUME NEW r \in Requests, RequestStep(r) PROVE Ended(x)'
    <3>1. CASE x = r
      BY <2>1, <2>a, <3>1, OwnEnded
    <3>2. CASE x # r
      <4>1. /\ outcome'[x] = outcome[x] /\ pc'[x] = pc[x] /\ calls'[x] = calls[x]
            /\ metered'[x] = metered[x] /\ body'[x] = body[x] /\ kind' = kind
        BY <2>1, <3>2, OthersVerdict, OthersSame DEF Same
      <4>2. QED
        BY <2>a, <4>1, DueSame DEF Ended
    <3>3. QED
      BY <3>1, <3>2
  <2>2. CASE FailAllPending \/ DropWriter \/ UNCHANGED vars
    BY <2>2, <2>a, DueSame DEF FailAllPending, DropWriter, vars, Ended
  <2>3. QED
    BY <2>1, <2>2 DEF Next, RequestStep, AllDone
<1>3. QED
  BY <1>1, <1>2, TypesInvariance, ForwardInvariance, PTL DEF Spec

(* For every set of requests, wherever the reports lie and however answers *)
(* end: a client is metered for what is due for the chunks it was given,   *)
(* all of it or, if it left or failed, nothing; a success for all of it.   *)
THEOREM MeteredIsDue == Spec => []MeteredWasDelivered
<1>1. ForwardInv /\ EndedInv => MeteredWasDelivered
  BY DEF ForwardInv, EndedInv, Metered, Ended, MeteredWasDelivered
<1>2. QED
  BY <1>1, ForwardInvariance, EndedInvariance, PTL

-----------------------------------------------------------------------------
(* Forward implements Answers *)

(* The bill of r is closed, for chunks that were given. *)
Closes(r) ==
  /\ calls[r] = 0 /\ calls'[r] # 0 /\ metered'[r] \subseteq 1 .. Len(body[r])
  /\ outcome'[r] = "cancelled" => metered'[r] = {}

(* It is left alone. *)
SameBill(r) == (calls'[r] = 0 <=> calls[r] = 0) /\ metered'[r] = metered[r]

(* What a step may do to the answer of its request: nothing, one more      *)
(* chunk, the verdict, or the bill.                                        *)
Stays(r) ==
  body'[r] = body[r] /\ outcome'[r] = outcome[r] /\ SameBill(r)

Grows(r) ==
  /\ outcome[r] = "none" /\ outcome'[r] = outcome[r] /\ SameBill(r)
  /\ Len(body[r]) < Chunks /\ body'[r] = Append(body[r], Len(body[r]) + 1)

Concludes(r) ==
  /\ outcome[r] = "none" /\ outcome'[r] \in Promise!Verdicts
  /\ body'[r] = body[r] /\ (SameBill(r) \/ Closes(r))

SettlesLater(r) ==
  /\ outcome[r] # "none" /\ outcome'[r] = outcome[r]
  /\ body'[r] = body[r] /\ Closes(r)

(* A step that does one of these to its request, and nothing to the        *)
(* others, is a step of Answers or leaves it alone.                        *)
LEMMA Pointwise ==
  ASSUME Types, Types', NEW r \in Requests, RequestStep(r),
         Stays(r) \/ Grows(r) \/ Concludes(r) \/ SettlesLater(r)
  PROVE  Promise!Next \/ UNCHANGED Promise!vars
<1>1. body' = [body EXCEPT ![r] = body'[r]]
  BY OthersSame DEF Same, Types
<1>2. outcome' = [outcome EXCEPT ![r] = outcome'[r]]
  BY OthersVerdict DEF Types
<1>3. metered' = [metered EXCEPT ![r] = metered'[r]]
  BY OthersSame DEF Same, Types
<1>a. \A x \in Requests : x # r => calls'[x] = calls[x]
  BY OthersSame DEF Same
<1>4. DOMAIN body = Requests /\ DOMAIN outcome = Requests /\ DOMAIN metered = Requests
  BY DEF Types
<1>5. /\ body'[r] = body[r] => body' = body
      /\ outcome'[r] = outcome[r] => outcome' = outcome
      /\ metered'[r] = metered[r] => metered' = metered
  <2>1. /\ body = [x \in Requests |-> body[x]] /\ outcome = [x \in Requests |-> outcome[x]]
        /\ metered = [x \in Requests |-> metered[x]]
    BY DEF Types
  <2>2. QED
    BY <1>1, <1>2, <1>3, <2>1
<1>b. SameBill(r) => Closed' = Closed /\ metered' = metered
  BY <1>5, <1>a DEF SameBill, Closed
<1>6. CASE Stays(r)
  BY <1>5, <1>6, <1>b DEF Stays, Promise!vars
<1>7. CASE Grows(r)
  <2>1. body' = [body EXCEPT ![r] = Append(@, Len(@) + 1)]
    BY <1>1, <1>4, <1>7 DEF Grows
  <2>2. Promise!Deliver(r)
    BY <1>5, <1>7, <1>b, <2>1 DEF Grows, Promise!Deliver
  <2>3. QED
    BY <2>2 DEF Promise!Next
<1>8. ASSUME Closes(r) PROVE Promise!Settle(r, outcome'[r])
  <2>1. ~Closed[r] /\ DOMAIN Closed = Requests
    BY <1>8 DEF Closes, Closed
  <2>2. Closed' = [Closed EXCEPT ![r] = TRUE]
    BY <1>8, <1>a DEF Closes, Closed
  <2>3. metered'[r] \in SUBSET (1 .. Len(body[r]))
    BY <1>8 DEF Closes
  <2>4. QED
    BY <1>3, <1>8, <2>1, <2>2, <2>3 DEF Closes, Promise!Settle
<1>9. CASE Concludes(r)
  <2>1. Promise!Conclude(r, outcome'[r])
    BY <1>2, <1>5, <1>8, <1>9, <1>b DEF Concludes, Promise!Conclude
  <2>2. QED
    BY <1>9, <2>1 DEF Concludes, Promise!Next
<1>10. CASE SettlesLater(r)
  <2>1. Promise!SettleLater(r)
    BY <1>5, <1>8, <1>10 DEF SettlesLater, Promise!SettleLater
  <2>2. QED
    BY <2>1 DEF Promise!Next
<1>11. QED
  BY <1>6, <1>7, <1>9, <1>10

(* A body that is still in order after it was given a chunk was given the  *)
(* next one.                                                               *)
LEMMA ChunkGrows ==
  ASSUME Types, Types', NEW r \in Requests, Order(r)', NEW f, IsChunk(f),
         body'[r] = Append(body[r], f)
  PROVE  Len(body[r]) < Chunks /\ f = Len(body[r]) + 1
<1>1. /\ body[r] \in Seq(1 .. Chunks) /\ Len(body[r]) \in Nat
      /\ f \in 1 .. Chunks /\ Chunks \in Nat
  BY RequestTypes, FrameFacts DEF IsChunk
<1>2. Len(body'[r]) = Len(body[r]) + 1 /\ body'[r][Len(body[r]) + 1] = f
  BY <1>1
<1>3. \A i \in 1 .. Len(body'[r]) : body'[r][i] = i
  BY DEF Order
<1>4. f = Len(body[r]) + 1
  BY <1>1, <1>2, <1>3
<1>5. QED
  BY <1>1, <1>4

(* The end of a handler is a verdict, and a bill if it was a completion    *)
(* that carries its usage.                                                 *)
LEMMA AnswerConcludes ==
  ASSUME Types, NEW r \in Requests, RequestInv(r), Ended(r),
         pc[r] = "recv", r \notin Streaming, body'[r] = body[r],
         NEW how \in Outcomes \ {"none", "cancelled"}, Answer(r, how)
  PROVE  Concludes(r)
<1>1. outcome[r] = "none" /\ outcome'[r] = how /\ how \in Promise!Verdicts
  BY DEF Ended, Answer, Types, Outcomes, Promise!Verdicts
<1>2. calls[r] = 0 /\ metered[r] = {}
  BY DEF RequestInv, Completion, Metered
<1>3. /\ calls'[r] = 0 => metered'[r] = {}
      /\ calls'[r] # 0 => metered'[r] = UsageInBody(body[r])
  BY AnswerEffect DEF RequestInv
<1>4. UsageInBody(body[r]) \subseteq 1 .. Len(body[r])
  BY UsageIsDue DEF RequestInv
<1>5. CASE calls'[r] = 0
  BY <1>1, <1>2, <1>3, <1>5 DEF Concludes, SameBill
<1>6. CASE calls'[r] # 0
  BY <1>1, <1>2, <1>3, <1>4, <1>6 DEF Concludes, Closes
<1>7. QED
  BY <1>5, <1>6

(* fire closes the bill of a stream, or finds it closed. *)
LEMMA FireCloses ==
  ASSUME Types, NEW r \in Requests, RequestInv(r), r \in Streaming, NEW seen,
         Fire(r, seen),
         (seen = body[r] /\ outcome'[r] # "cancelled") \/ seen = <<>>
  PROVE  SameBill(r) \/ Closes(r)
<1>1. fired[r] \in BOOLEAN /\ calls[r] = IF fired[r] THEN 1 ELSE 0
  BY DEF Types, RequestInv, Completion
<1>2. CASE fired[r]
  BY <1>2 DEF Fire, SameBill
<1>3. CASE ~fired[r]
  <2>1. calls[r] = 0 /\ calls'[r] = 1 /\ metered'[r] = UsageInEvents(seen)
    BY <1>1, <1>3, FireEffect DEF RequestInv
  <2>2. /\ UsageInEvents(<<>>) = {}
        /\ UsageInEvents(body[r]) \subseteq 1 .. Len(body[r])
    BY UsageIsDue DEF RequestInv
  <2>3. QED
    BY <2>1, <2>2 DEF Closes
<1>4. QED
  BY <1>2, <1>3

(* Every step of a request does one of the four things to its answer. *)
LEMMA OwnAnswer ==
  ASSUME Types, Types', NEW r \in Requests, RequestInv(r), RequestInv(r)',
         Ended(r), RequestStep(r)
  PROVE  Stays(r) \/ Grows(r) \/ Concludes(r) \/ SettlesLater(r)
<1>a. ASSUME calls' = calls, metered' = metered PROVE SameBill(r)
  BY <1>a DEF SameBill
<1>b. Order(r)'
  BY DEF RequestInv
<1>1. CASE \/ Register(r) \/ BridgeRecv(r) \/ BridgeSend(r)
           \/ \E f \in Frames : NodeFrame(r, f)
  <2>1. /\ body' = body /\ outcome' = outcome
        /\ calls' = calls /\ metered' = metered
    BY <1>1 DEF Register, BridgeRecv, BridgeSend, NodeFrame
  <2>2. QED
    BY <1>a, <2>1 DEF Stays
<1>2. CASE SendRequest(r)
  <2>1. /\ body' = body /\ calls' = calls /\ metered' = metered /\ pc[r] = "send"
        /\ \/ outcome' = outcome
           \/ outcome'[r] = "error"
    BY <1>2 DEF SendRequest, Types
  <2>2. outcome[r] = "none"
    BY <2>1 DEF Ended
  <2>3. QED
    BY <1>a, <2>1, <2>2 DEF Stays, Concludes, Promise!Verdicts
<1>3. CASE Collect(r)
  <2>1. pc[r] = "recv" /\ r \notin Streaming /\ outcome[r] = "none"
    BY <1>3 DEF Collect, Ended
  <2>2. kind[r] \in {"collect", "fetch", "activate"}
    BY <2>1 DEF Kinds, Streaming, Types
  <2>3. /\ AtEnd(r) \in Outcomes \ {"none", "cancelled"}
        /\ "error" \in Outcomes \ {"none", "cancelled"}
        /\ \A f : ActivationAt(f) \in Outcomes \ {"none", "cancelled"}
    BY <2>2 DEF AtEnd, FetchedList, ActivationAt, Outcomes
  <2>4. ASSUME NEW how \in Outcomes \ {"none", "cancelled"}, Answer(r, how),
               body'[r] = body[r]
        PROVE  Concludes(r)
    BY <2>1, <2>4, AnswerConcludes
  <2>5. CASE chan[r] = <<>>
    <3>1. Answer(r, AtEnd(r)) /\ body' = body
      BY <1>3, <2>5 DEF Collect
    <3>2. QED
      BY <2>3, <2>4, <3>1
  <2>6. CASE chan[r] # <<>>
    <3> DEFINE f == Head(chan[r])
    <3>1. f \in Frames
      BY <2>6, ChannelTail DEF Types
    <3>2. body'[r] = IF IsChunk(f) THEN Append(body[r], f) ELSE body[r]
      BY <1>3, <2>6 DEF Collect, Types
    <3>3. CASE f \in Terminal
      <4>1. body'[r] = body[r]
        BY <3>1, <3>2, <3>3, FrameFacts
      <4>2. \E how \in Outcomes \ {"none", "cancelled"} : Answer(r, how)
        BY <1>3, <2>3, <2>6, <3>3 DEF Collect, Terminal
      <4>3. QED
        BY <2>4, <4>1, <4>2
    <3>4. CASE f \notin Terminal
      <4>1. outcome' = outcome /\ calls' = calls /\ metered' = metered
        BY <1>3, <2>6, <3>4 DEF Collect, Terminal
      <4>2. IsChunk(f) => Len(body[r]) < Chunks /\ f = Len(body[r]) + 1
        BY <1>b, <3>2, ChunkGrows
      <4>3. QED
        BY <1>a, <2>1, <3>2, <4>1, <4>2 DEF Stays, Grows
    <3>5. QED
      BY <3>3, <3>4
  <2>7. QED
    BY <2>5, <2>6
<1>4. CASE CollectTimeout(r)
  <2>1. "timeout" \in Outcomes \ {"none", "cancelled"}
    BY DEF Outcomes
  <2>2. QED
    BY <1>4, <2>1, AnswerConcludes DEF CollectTimeout
<1>5. CASE StreamFrame(r)
  <2> DEFINE f == Head(bridge[r])
  <2>1. /\ r \in Streaming /\ outcome[r] = "none" /\ bridge[r] # <<>>
        /\ body'[r] = IF IsChunk(f) THEN Append(body[r], f) ELSE body[r]
        /\ outcome'[r] = CASE f = End -> "ok" [] f = Error -> "error" [] OTHER -> "none"
        /\ IF f = End THEN Fire(r, body[r]) ELSE UNCHANGED <<fired, calls, metered>>
    BY <1>5 DEF StreamFrame, Fires, Types, Ended
  <2>2. ~IsChunk(End) /\ ~IsChunk(Error) /\ End # Error
    BY FrameFacts DEF Terminal
  <2>3. CASE f = End
    <3>1. body'[r] = body[r] /\ outcome'[r] = "ok" /\ Fire(r, body[r])
      BY <2>1, <2>2, <2>3
    <3>2. SameBill(r) \/ Closes(r)
      BY <2>1, <3>1, FireCloses
    <3>3. QED
      BY <2>1, <3>1, <3>2 DEF Concludes, Promise!Verdicts
  <2>4. CASE f = Error
    <3>1. /\ body'[r] = body[r] /\ outcome'[r] = "error"
          /\ calls' = calls /\ metered' = metered
      BY <2>1, <2>2, <2>4
    <3>2. QED
      BY <1>a, <2>1, <3>1 DEF Concludes, Promise!Verdicts
  <2>5. CASE f # End /\ f # Error
    <3>1. outcome'[r] = outcome[r] /\ calls' = calls /\ metered' = metered
      BY <2>1, <2>5
    <3>2. IsChunk(f) => Len(body[r]) < Chunks /\ f = Len(body[r]) + 1
      BY <1>b, <2>1, ChunkGrows
    <3>3. QED
      BY <1>a, <2>1, <3>1, <3>2 DEF Stays, Grows
  <2>6. QED
    BY <2>3, <2>4, <2>5
<1>6. CASE StreamCut(r) \/ StreamTimeout(r)
  <2>1. /\ body' = body /\ calls' = calls /\ metered' = metered
        /\ outcome[r] = "none" /\ outcome'[r] \in {"ok", "timeout"}
    BY <1>6 DEF StreamCut, StreamTimeout, Types, Ended
  <2>2. QED
    BY <1>a, <2>1 DEF Concludes, Promise!Verdicts
<1>7. CASE StreamEnd(r)
  <2>1. /\ body' = body /\ outcome' = outcome /\ Fire(r, body[r])
        /\ pc[r] \in {"closing", "yielded"}
    BY <1>7 DEF StreamEnd
  <2>2. r \in Streaming /\ outcome[r] \notin {"none", "cancelled"}
    BY <2>1 DEF RequestInv, Control, Ended
  <2>3. SameBill(r) \/ Closes(r)
    BY <2>1, <2>2, FireCloses
  <2>4. QED
    BY <2>1, <2>2, <2>3 DEF Stays, SettlesLater
<1>8. CASE Cancel(r)
  <2>1. /\ body' = body
        /\ outcome'[r] = IF outcome[r] = "none" THEN "cancelled" ELSE outcome[r]
    BY <1>8 DEF Cancel, Types
  <2>2. SameBill(r) \/ Closes(r)
    <3>1. CASE r \in Streaming /\ pc[r] # "send"
      <4>1. Fire(r, <<>>)
        BY <1>8, <3>1 DEF Cancel
      <4>2. QED
        BY <3>1, <4>1, FireCloses
    <3>2. CASE ~(r \in Streaming /\ pc[r] # "send")
      BY <1>8, <1>a, <3>2 DEF Cancel
    <3>3. QED
      BY <3>1, <3>2
  <2>3. QED
    BY <2>1, <2>2 DEF Stays, Concludes, SettlesLater, Promise!Verdicts
<1>9. QED
  BY <1>1, <1>2, <1>3, <1>4, <1>5, <1>6, <1>7, <1>8 DEF RequestStep

(* Every step is a step of Answers, or leaves it alone. *)
LEMMA PromiseStep ==
  (Types /\ Types' /\ ForwardInv /\ ForwardInv' /\ EndedInv /\ [Next]_vars)
  => [Promise!Next]_(Promise!vars)
<1> SUFFICES ASSUME Types, Types', ForwardInv, ForwardInv', EndedInv, [Next]_vars
             PROVE  Promise!Next \/ UNCHANGED Promise!vars
  OBVIOUS
<1>1. ASSUME NEW r \in Requests, RequestStep(r)
      PROVE  Promise!Next \/ UNCHANGED Promise!vars
  <2>1. RequestInv(r) /\ RequestInv(r)' /\ Ended(r)
    BY DEF ForwardInv, RequestInv, EndedInv
  <2>2. Stays(r) \/ Grows(r) \/ Concludes(r) \/ SettlesLater(r)
    BY <1>1, <2>1, OwnAnswer
  <2>3. QED
    BY <1>1, <2>2, Pointwise
<1>2. CASE FailAllPending \/ DropWriter \/ UNCHANGED vars
  <2>1. body' = body /\ outcome' = outcome /\ calls' = calls /\ metered' = metered
    BY <1>2 DEF FailAllPending, DropWriter, vars
  <2>2. QED
    BY <2>1 DEF Closed, Promise!vars
<1>3. QED
  BY <1>1, <1>2 DEF Next, RequestStep, AllDone

(* Forward implements Answers: for any requests, channels and chunks, each *)
(* client is given the node's chunks in order and then one verdict that    *)
(* nothing follows, and is billed at most once, for chunks it was given    *)
(* and for none if it left.                                                *)
THEOREM AnswersImplemented == Spec => ImplementsAnswers
<1>1. Init => Promise!Init
  BY DEF Init, Promise!Init, Closed
<1>2. QED
  BY <1>1, PromiseStep, TypesInvariance, ForwardInvariance, EndedInvariance, PTL
     DEF Spec, ImplementsAnswers, Promise!Spec

=============================================================================

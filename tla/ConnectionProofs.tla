--------------------------- MODULE ConnectionProofs ---------------------------
(***************************************************************************)
(* Theorems about the negotiations of Connection, for every set of         *)
(* devices, every route and every bound on sends and faults.               *)
(***************************************************************************)
EXTENDS Connection, TLAPS

USE RoutesAssumption, ConnectionBounds

-----------------------------------------------------------------------------
(* What holds of every call, whatever is lost or reloaded. *)

IsCandidate(s) == s.kind = "ice-candidate"

\* The number of a description is that of a call; n is how many calls there are.
Known(d, n) == d.by <= n

CallOK(c) ==
    /\ c \in Call
    /\ c.sig = "stable" <=> c.pend = NoDesc
    /\ ~c.remoteDescriptionSet => \A m \in DOMAIN c.ops : c.ops[m].op # "addCandidate"
    /\ \A m \in DOMAIN c.pendingCandidates : IsCandidate(c.pendingCandidates[m])

\* A call describes only itself, and holds descriptions of calls there are.
Own(c, k, n) ==
    /\ c.cur.local # NoDesc => c.cur.local.by = k
    /\ c.sig = "have-local-offer" => c.pend.by = k
    /\ \A m \in DOMAIN c.ops :
          /\ c.ops[m].op = "setLocal" => c.ops[m].desc.kind # "none" /\ c.ops[m].desc.by = k
          /\ c.ops[m].op = "setRemote" => c.ops[m].desc.kind # "none" /\ Known(c.ops[m].desc, n)
    /\ Known(c.pend, n) /\ Known(c.cur.remote, n)

\* A call that listens makes no offer, so it cannot be rejected; one that is gone
\* does nothing more.
Lives(c) ==
    /\ c.initiator => c.page # c.peer
    /\ c.state = "connecting" => c.subscribed
    /\ c.state \in {"open", "gone"} => ~c.subscribed
    /\ c.state = "gone" => c.ops = <<>>
    /\ ~c.initiator => c.state # "rejected"
    /\ ~c.initiator => \A m \in DOMAIN c.ops :
          /\ c.ops[m].op # "createOffer"
          /\ c.ops[m].op = "setLocal" => c.ops[m].desc.kind # "offer"

Good(c, k, n) == CallOK(c) /\ Own(c, k, n) /\ Lives(c)

\* A signal that is no candidate is a description.
GoodSignal(s, n) ==
    /\ s \in Signal
    /\ ~IsCandidate(s) => s.kind # "none" /\ Known(s, n)

WireOK ==
    /\ wire \in [Pair -> Seq(Signal)]
    /\ \A p \in Pair : \A m \in DOMAIN wire[p] : GoodSignal(wire[p][m], Len(calls))

General ==
    /\ calls \in Seq(Call) /\ faults \in Nat /\ WireOK
    /\ \A k \in DOMAIN calls : Good(calls[k], k, Len(calls))

-----------------------------------------------------------------------------
(* The operations of a peer connection, field by field: call c becomes d.  *)

SameCall(c, d) ==
    /\ d.page = c.page /\ d.peer = c.peer /\ d.initiator = c.initiator
    /\ d.subscribed = c.subscribed /\ d.undisturbed = c.undisturbed
SameDescriptions(c, d) == d.sig = c.sig /\ d.pend = c.pend /\ d.cur = c.cur
SameCandidates(c, d) ==
    /\ d.remoteDescriptionSet = c.remoteDescriptionSet
    /\ d.pendingCandidates = c.pendingCandidates /\ d.added = c.added

Drained(c, d, rest, then) ==
    \/ /\ c.pendingCandidates # <<>> /\ d.pendingCandidates = Tail(c.pendingCandidates)
       /\ d.ops = Append(rest, [op |-> "addCandidate", of |-> Head(c.pendingCandidates).of,
                                then |-> then])
    \/ /\ c.pendingCandidates = <<>> /\ d.pendingCandidates = <<>>
       /\ then = "offer" /\ d.ops = Append(rest, [op |-> "createAnswer"])
    \/ /\ c.pendingCandidates = <<>> /\ d.pendingCandidates = <<>>
       /\ then # "offer" /\ d.ops = rest

OfferCreated(k, c, d, sent) ==
    /\ Head(c.ops).op = "createOffer"
    /\ d.ops = Append(Tail(c.ops), [op |-> "setLocal", desc |-> OfferOf(k)])
    /\ SameDescriptions(c, d) /\ SameCandidates(c, d) /\ d.state = c.state /\ sent = <<>>

AnswerCreated(k, c, d, sent) ==
    /\ Head(c.ops).op = "createAnswer"
    /\ \/ /\ c.sig = "have-remote-offer"
          /\ d.ops = Append(Tail(c.ops), [op |-> "setLocal", desc |-> AnswerOf(k, c.pend)])
       \/ c.sig # "have-remote-offer" /\ d.ops = Tail(c.ops)
    /\ SameDescriptions(c, d) /\ SameCandidates(c, d) /\ d.state = c.state /\ sent = <<>>

OfferSet(c, d, sent) ==
    /\ Head(c.ops).op = "setLocal" /\ Head(c.ops).desc.kind = "offer"
    /\ \/ /\ c.sig = "stable" /\ d.sig = "have-local-offer" /\ d.pend = Head(c.ops).desc
          /\ d.cur = c.cur /\ d.state = c.state
          /\ sent = <<Head(c.ops).desc, Candidate(Head(c.ops).desc)>>
       \/ /\ c.sig # "stable" /\ SameDescriptions(c, d) /\ d.state = "rejected" /\ sent = <<>>
    /\ d.ops = Tail(c.ops) /\ SameCandidates(c, d)

AnswerSet(c, d, sent) ==
    /\ Head(c.ops).op = "setLocal" /\ Head(c.ops).desc.kind # "offer"
    /\ \/ /\ c.sig = "have-remote-offer" /\ Head(c.ops).desc.to = c.pend.by
          /\ d.sig = "stable" /\ d.pend = NoDesc
          /\ d.cur.local = Head(c.ops).desc /\ d.cur.remote = c.pend
          /\ sent = <<Head(c.ops).desc, Candidate(Head(c.ops).desc)>>
       \/ /\ ~(c.sig = "have-remote-offer" /\ Head(c.ops).desc.to = c.pend.by)
          /\ SameDescriptions(c, d) /\ sent = <<>>
    /\ d.ops = Tail(c.ops) /\ SameCandidates(c, d) /\ d.state = c.state

OfferTaken(c, d, sent) ==
    /\ Head(c.ops).op = "setRemote" /\ Head(c.ops).desc.kind = "offer"
    /\ d.remoteDescriptionSet /\ d.sig = "have-remote-offer" /\ d.pend = Head(c.ops).desc
    /\ d.cur = c.cur /\ Drained(c, d, Tail(c.ops), "offer")
    /\ d.added = c.added /\ d.state = c.state /\ sent = <<>>

AnswerTaken(c, d, sent) ==
    /\ Head(c.ops).op = "setRemote" /\ Head(c.ops).desc.kind # "offer"
    /\ \/ /\ c.sig = "have-local-offer" /\ d.remoteDescriptionSet
          /\ d.sig = "stable" /\ d.pend = NoDesc
          /\ d.cur.local = c.pend /\ d.cur.remote = Head(c.ops).desc
          /\ Drained(c, d, Tail(c.ops), "answer")
       \/ /\ c.sig # "have-local-offer" /\ SameDescriptions(c, d)
          /\ d.remoteDescriptionSet = c.remoteDescriptionSet
          /\ d.pendingCandidates = c.pendingCandidates /\ d.ops = Tail(c.ops)
    /\ d.added = c.added /\ d.state = c.state /\ sent = <<>>

CandidateAdded(c, d, sent) ==
    /\ Head(c.ops).op = "addCandidate"
    /\ \/ /\ Head(c.ops).of \in RemoteDescriptions(c) /\ d.added = c.added \cup {Head(c.ops).of}
       \/ /\ Head(c.ops).of \notin RemoteDescriptions(c) /\ d.added = c.added
    /\ \/ /\ Head(c.ops).then # "done" /\ Drained(c, d, Tail(c.ops), Head(c.ops).then)
       \/ /\ Head(c.ops).then = "done" \/ Head(c.ops).of \notin RemoteDescriptions(c)
          /\ d.ops = Tail(c.ops) /\ d.pendingCandidates = c.pendingCandidates
    /\ d.remoteDescriptionSet = c.remoteDescriptionSet
    /\ SameDescriptions(c, d) /\ d.state = c.state /\ sent = <<>>

Settling(k, c, d, sent) ==
    /\ c.ops # <<>> /\ d \in Call /\ SameCall(c, d)
    /\ \/ OfferCreated(k, c, d, sent) \/ AnswerCreated(k, c, d, sent)
       \/ OfferSet(c, d, sent) \/ AnswerSet(c, d, sent)
       \/ OfferTaken(c, d, sent) \/ AnswerTaken(c, d, sent) \/ CandidateAdded(c, d, sent)

-----------------------------------------------------------------------------
(* Records and sequences. *)

LEMMA OperationTypes ==
    /\ [op |-> "createOffer"] \in Operation /\ [op |-> "createAnswer"] \in Operation
    /\ \A d \in Description : [op |-> "setLocal", desc |-> d] \in Operation
    /\ \A d \in Description : [op |-> "setRemote", desc |-> d] \in Operation
    /\ \A d \in Description, then \in {"done", "offer", "answer"} :
          [op |-> "addCandidate", of |-> d, then |-> then] \in Operation
<1>1. [op |-> "createOffer"] \in Operation /\ [op |-> "createAnswer"] \in Operation
  BY DEF Operation
<1>2. \A d \in Description : [op |-> "setLocal", desc |-> d] \in Operation
  BY DEF Operation
<1>3. \A d \in Description : [op |-> "setRemote", desc |-> d] \in Operation
  BY DEF Operation
<1>4. \A d \in Description, then \in {"done", "offer", "answer"} :
          [op |-> "addCandidate", of |-> d, then |-> then] \in Operation
  BY DEF Operation
<1> QED BY <1>1, <1>2, <1>3, <1>4

LEMMA OperationFields ==
    ASSUME NEW o \in Operation
    PROVE  /\ o.op \in {"createOffer", "createAnswer", "setLocal", "setRemote", "addCandidate"}
           /\ o.op \in {"setLocal", "setRemote"} => o.desc \in Description
           /\ o.op = "addCandidate" => o.of \in Description /\ o.then \in {"done", "offer", "answer"}
<1>1. CASE o \in [op : {"createOffer", "createAnswer"}]
  BY <1>1
<1>2. CASE o \in [op : {"setLocal", "setRemote"}, desc : Description]
  BY <1>2
<1>3. CASE o \in [op : {"addCandidate"}, of : Description, then : {"done", "offer", "answer"}]
  BY <1>3
<1> QED BY <1>1, <1>2, <1>3 DEF Operation

LEMMA DescriptionTypes ==
    /\ NoDesc \in Description /\ NoDesc.kind = "none" /\ NoDesc.by = 0 /\ NoDesc.to = 0
    /\ \A k \in Nat : /\ OfferOf(k) \in Description /\ OfferOf(k).kind = "offer"
                      /\ OfferOf(k).by = k /\ OfferOf(k) # NoDesc
    /\ \A k \in Nat, d \in Description :
          /\ AnswerOf(k, d) \in Description /\ AnswerOf(k, d).kind = "answer"
          /\ AnswerOf(k, d).by = k /\ AnswerOf(k, d).to = d.by
    /\ \A d \in Description : d.by \in Nat /\ d.to \in Nat /\ d.kind \in {"none", "offer", "answer"}
<1>1. NoDesc \in Description /\ NoDesc.kind = "none" /\ NoDesc.by = 0 /\ NoDesc.to = 0
  BY DEF NoDesc, Description
<1>2. \A k \in Nat : /\ OfferOf(k) \in Description /\ OfferOf(k).kind = "offer"
                     /\ OfferOf(k).by = k /\ OfferOf(k) # NoDesc
  BY DEF OfferOf, Description, NoDesc
<1>3. \A d \in Description : d.by \in Nat /\ d.to \in Nat /\ d.kind \in {"none", "offer", "answer"}
  BY DEF Description
<1>4. \A k \in Nat, d \in Description :
          /\ AnswerOf(k, d) \in Description /\ AnswerOf(k, d).kind = "answer"
          /\ AnswerOf(k, d).by = k /\ AnswerOf(k, d).to = d.by
  BY <1>3 DEF AnswerOf, Description
<1> QED BY <1>1, <1>2, <1>3, <1>4

LEMMA SignalTypes ==
    /\ \A d \in Description : /\ d \in Signal /\ ~IsCandidate(d)
                              /\ Candidate(d) \in Signal /\ IsCandidate(Candidate(d)) /\ Candidate(d).of = d
    /\ \A s \in Signal : /\ IsCandidate(s) => s.of \in Description
                         /\ ~IsCandidate(s) => s \in Description
<1>1. \A d \in Description : d \in Signal /\ ~IsCandidate(d)
  BY DescriptionTypes DEF Signal, IsCandidate
<1>2. \A d \in Description : Candidate(d) \in Signal /\ IsCandidate(Candidate(d)) /\ Candidate(d).of = d
  BY DEF Signal, IsCandidate, Candidate
<1>3. ASSUME NEW s \in Signal
      PROVE  (IsCandidate(s) => s.of \in Description) /\ (~IsCandidate(s) => s \in Description)
  BY <1>1 DEF Signal, IsCandidate
<1> QED BY <1>1, <1>2, <1>3

LEMMA CallFields ==
    ASSUME NEW c \in Call
    PROVE  /\ c.page \in Device /\ c.peer \in Device /\ c.initiator \in BOOLEAN
           /\ c.state \in {"connecting", "open", "rejected", "gone"} /\ c.subscribed \in BOOLEAN
           /\ c.remoteDescriptionSet \in BOOLEAN
           /\ c.pendingCandidates \in Seq(Signal) /\ c.ops \in Seq(Operation)
           /\ c.sig \in {"stable", "have-local-offer", "have-remote-offer"} /\ c.pend \in Description
           /\ c.cur \in [local : Description, remote : Description]
           /\ c.cur.local \in Description /\ c.cur.remote \in Description
           /\ c.added \in SUBSET Description /\ c.undisturbed \in BOOLEAN
  BY DEF Call

\* The first element of a sequence and the rest.
LEMMA Rest ==
    ASSUME NEW S, NEW q \in Seq(S), q # <<>>
    PROVE  /\ 1 \in DOMAIN q /\ Head(q) = q[1] /\ Head(q) \in S /\ Tail(q) \in Seq(S)
           /\ \A m \in DOMAIN Tail(q) : m \in Nat \ {0} /\ m + 1 \in DOMAIN q /\ Tail(q)[m] = q[m + 1]
           /\ \A m \in DOMAIN q : m \in Nat \ {0} /\ (m # 1 => m - 1 \in DOMAIN Tail(q) /\ Tail(q)[m - 1] = q[m])
  OBVIOUS

LEMMA Put ==
    ASSUME NEW S, NEW q \in Seq(S), NEW x \in S, NEW r, r = Append(q, x)
    PROVE  /\ r \in Seq(S) /\ r # <<>>
           /\ DOMAIN r = DOMAIN q \cup {Len(q) + 1} /\ r[Len(q) + 1] = x
           /\ \A m \in DOMAIN q : m <= Len(q) /\ r[m] = q[m]
           /\ Head(r) = IF q = <<>> THEN x ELSE Head(q)
  OBVIOUS

-----------------------------------------------------------------------------
(* Each step of a peer connection is one of the operations above. *)

LEMMA EnqueueIs ==
    ASSUME NEW c \in Call, NEW o \in Operation, NEW d, d = Enqueue(c, o)
    PROVE  /\ d \in Call /\ SameCall(c, d) /\ SameDescriptions(c, d) /\ SameCandidates(c, d)
           /\ d.state = c.state /\ d.ops = Append(c.ops, o)
<1>1. Append(c.ops, o) \in Seq(Operation)
  BY CallFields
<1> QED BY <1>1 DEF Enqueue, Call, SameCall, SameDescriptions, SameCandidates

LEMMA PoppedIs ==
    ASSUME NEW k \in DOMAIN calls, calls[k] \in Call, calls[k].ops # <<>>, NEW d, d = Popped(k)
    PROVE  /\ d \in Call /\ SameCall(calls[k], d) /\ SameDescriptions(calls[k], d)
           /\ SameCandidates(calls[k], d)
           /\ d.state = calls[k].state /\ d.ops = Tail(calls[k].ops)
<1>1. Tail(calls[k].ops) \in Seq(Operation)
  BY CallFields
<1> QED BY <1>1 DEF Popped, Call, SameCall, SameDescriptions, SameCandidates

LEMMA DrainIs ==
    ASSUME NEW c \in Call, NEW then \in {"done", "offer", "answer"},
           \A m \in DOMAIN c.pendingCandidates : IsCandidate(c.pendingCandidates[m]),
           NEW d, d = DrainPendingCandidates(c, then)
    PROVE  /\ d \in Call /\ SameCall(c, d) /\ SameDescriptions(c, d)
           /\ d.remoteDescriptionSet = c.remoteDescriptionSet /\ d.added = c.added
           /\ d.state = c.state /\ Drained(c, d, c.ops, then)
<1>1. CASE c.pendingCandidates # <<>>
  <2>1. PICK s : s = Head(c.pendingCandidates)
    OBVIOUS
  <2>2. s \in Signal /\ IsCandidate(s) /\ Tail(c.pendingCandidates) \in Seq(Signal)
    BY <1>1, <2>1, CallFields, Rest
  <2>3. PICK o \in Operation : o = [op |-> "addCandidate", of |-> s.of, then |-> then]
    BY <2>2, SignalTypes, OperationTypes
  <2>4. PICK e : e = [c EXCEPT !.pendingCandidates = Tail(@)]
    OBVIOUS
  <2>5. /\ e \in Call /\ SameCall(c, e) /\ SameDescriptions(c, e) /\ e.state = c.state
        /\ e.remoteDescriptionSet = c.remoteDescriptionSet /\ e.added = c.added
        /\ e.pendingCandidates = Tail(c.pendingCandidates) /\ e.ops = c.ops
    BY <2>2, <2>4 DEF Call, SameCall, SameDescriptions
  <2>6. d = Enqueue(e, o)
    BY <1>1, <2>1, <2>3, <2>4 DEF DrainPendingCandidates, AddCandidate
  <2>7. /\ d \in Call /\ SameCall(e, d) /\ SameDescriptions(e, d) /\ SameCandidates(e, d)
        /\ d.state = e.state /\ d.ops = Append(e.ops, o)
    BY <2>5, <2>6, EnqueueIs
  <2> QED BY <1>1, <2>1, <2>3, <2>5, <2>7 DEF SameCall, SameDescriptions, SameCandidates, Drained
<1>2. CASE c.pendingCandidates = <<>> /\ then = "offer"
  <2>1. PICK o \in Operation : o = [op |-> "createAnswer"]
    BY OperationTypes
  <2>2. d = Enqueue(c, o)
    BY <1>2, <2>1 DEF DrainPendingCandidates
  <2>3. /\ d \in Call /\ SameCall(c, d) /\ SameDescriptions(c, d) /\ SameCandidates(c, d)
        /\ d.state = c.state /\ d.ops = Append(c.ops, o)
    BY <2>2, EnqueueIs
  <2> QED BY <1>2, <2>1, <2>3 DEF SameCandidates, Drained
<1>3. CASE c.pendingCandidates = <<>> /\ then # "offer"
  BY <1>3 DEF DrainPendingCandidates, Drained, SameCall, SameDescriptions
<1> QED BY <1>1, <1>2, <1>3

LEMMA CreateOfferIs ==
    ASSUME General, NEW k \in DOMAIN calls, CreateOffer(k)
    PROVE  \E d, sent : Settling(k, calls[k], d, sent) /\ Settles(k, d, sent)
<1> DEFINE c == calls[k]
<1>1. c \in Call /\ c.ops # <<>> /\ Head(c.ops).op = "createOffer" /\ k \in Nat
  BY DEF CreateOffer, FirstIs, General, Good, CallOK
<1>2. PICK p : p = Popped(k)
  OBVIOUS
<1>3. /\ p \in Call /\ SameCall(c, p) /\ SameDescriptions(c, p) /\ SameCandidates(c, p)
      /\ p.state = c.state /\ p.ops = Tail(c.ops)
  BY <1>1, <1>2, PoppedIs
<1>4. PICK o \in Operation : o = [op |-> "setLocal", desc |-> OfferOf(k)]
  BY <1>1, OperationTypes, DescriptionTypes
<1>5. PICK d : d = Enqueue(p, o)
  OBVIOUS
<1>6. /\ d \in Call /\ SameCall(p, d) /\ SameDescriptions(p, d) /\ SameCandidates(p, d)
      /\ d.state = p.state /\ d.ops = Append(p.ops, o)
  BY <1>3, <1>5, EnqueueIs
<1>7. Settles(k, d, <<>>)
  BY <1>2, <1>4, <1>5 DEF CreateOffer
<1>8. OfferCreated(k, c, d, <<>>) /\ SameCall(c, d)
  BY <1>1, <1>3, <1>4, <1>6 DEF OfferCreated, SameCall, SameDescriptions, SameCandidates
<1> QED BY <1>1, <1>6, <1>7, <1>8 DEF Settling

LEMMA CreateAnswerIs ==
    ASSUME General, NEW k \in DOMAIN calls, CreateAnswer(k)
    PROVE  \E d, sent : Settling(k, calls[k], d, sent) /\ Settles(k, d, sent)
<1> DEFINE c == calls[k]
<1>1. c \in Call /\ c.ops # <<>> /\ Head(c.ops).op = "createAnswer" /\ k \in Nat
  BY DEF CreateAnswer, FirstIs, General, Good, CallOK
<1>2. PICK p : p = Popped(k)
  OBVIOUS
<1>3. /\ p \in Call /\ SameCall(c, p) /\ SameDescriptions(c, p) /\ SameCandidates(c, p)
      /\ p.state = c.state /\ p.ops = Tail(c.ops)
  BY <1>1, <1>2, PoppedIs
<1>4. CASE c.sig = "have-remote-offer"
  <2>1. PICK o \in Operation : o = [op |-> "setLocal", desc |-> AnswerOf(k, c.pend)]
    BY <1>1, OperationTypes, DescriptionTypes, CallFields
  <2>2. PICK d : d = Enqueue(p, o)
    OBVIOUS
  <2>3. /\ d \in Call /\ SameCall(p, d) /\ SameDescriptions(p, d) /\ SameCandidates(p, d)
        /\ d.state = p.state /\ d.ops = Append(p.ops, o)
    BY <1>3, <2>2, EnqueueIs
  <2>4. Settles(k, d, <<>>)
    BY <1>2, <1>4, <2>1, <2>2 DEF CreateAnswer
  <2>5. AnswerCreated(k, c, d, <<>>) /\ SameCall(c, d)
    BY <1>1, <1>3, <1>4, <2>1, <2>3 DEF AnswerCreated, SameCall, SameDescriptions, SameCandidates
  <2> QED BY <1>1, <2>3, <2>4, <2>5 DEF Settling
<1>5. CASE c.sig # "have-remote-offer"
  <2>1. Settles(k, p, <<>>)
    BY <1>2, <1>5 DEF CreateAnswer
  <2>2. AnswerCreated(k, c, p, <<>>)
    BY <1>1, <1>3, <1>5 DEF AnswerCreated
  <2> QED BY <1>1, <1>3, <2>1, <2>2 DEF Settling
<1> QED BY <1>4, <1>5

LEMMA RejectedIs ==
    ASSUME NEW c \in Call, NEW d, d = Rejected(c, TRUE)
    PROVE  /\ d \in Call /\ SameCall(c, d) /\ SameDescriptions(c, d) /\ SameCandidates(c, d)
           /\ d.state = "rejected" /\ d.ops = c.ops
  BY DEF Rejected, Call, SameCall, SameDescriptions, SameCandidates

LEMMA LocalOfferIs ==
    ASSUME NEW c \in Call, NEW desc \in Description, NEW d, d = LocalOffer(c, desc)
    PROVE  /\ d \in Call /\ SameCall(c, d) /\ SameCandidates(c, d)
           /\ d.state = c.state /\ d.ops = c.ops
           /\ d.sig = "have-local-offer" /\ d.pend = desc /\ d.cur = c.cur
  BY DEF LocalOffer, Call, SameCall, SameCandidates

LEMMA LocalAnswerIs ==
    ASSUME NEW c \in Call, NEW desc \in Description, NEW d, d = LocalAnswer(c, desc)
    PROVE  /\ d \in Call /\ SameCall(c, d) /\ SameCandidates(c, d)
           /\ d.state = c.state /\ d.ops = c.ops
           /\ d.sig = "stable" /\ d.pend = NoDesc /\ d.cur.local = desc /\ d.cur.remote = c.pend
<1>1. [local |-> desc, remote |-> c.pend] \in [local : Description, remote : Description]
  BY CallFields
<1>2. NoDesc \in Description
  BY DescriptionTypes
<1> QED BY <1>1, <1>2 DEF LocalAnswer, Call, SameCall, SameCandidates

LEMMA SetLocalDescriptionIs ==
    ASSUME General, NEW k \in DOMAIN calls, SetLocalDescription(k)
    PROVE  \E d, sent : Settling(k, calls[k], d, sent) /\ Settles(k, d, sent)
<1> DEFINE c == calls[k]
<1>1. c \in Call /\ c.ops # <<>> /\ Head(c.ops).op = "setLocal" /\ k \in Nat
  BY DEF SetLocalDescription, FirstIs, General, Good, CallOK
<1>2. PICK p : p = Popped(k)
  OBVIOUS
<1>3. /\ p \in Call /\ SameCall(c, p) /\ SameDescriptions(c, p) /\ SameCandidates(c, p)
      /\ p.state = c.state /\ p.ops = Tail(c.ops)
  BY <1>1, <1>2, PoppedIs
<1>4. PICK desc : desc = Head(c.ops).desc
  OBVIOUS
<1>5. desc \in Description
  BY <1>1, <1>4, CallFields, Rest, OperationFields
<1>6. p.sig = c.sig /\ p.pend = c.pend /\ p.cur = c.cur
  BY <1>3 DEF SameDescriptions
<1>7. CASE desc.kind = "offer" /\ c.sig = "stable"
  <2>1. PICK d : d = LocalOffer(p, desc)
    OBVIOUS
  <2>2. /\ d \in Call /\ SameCall(p, d) /\ SameCandidates(p, d)
        /\ d.state = p.state /\ d.ops = p.ops
        /\ d.sig = "have-local-offer" /\ d.pend = desc /\ d.cur = p.cur
    BY <1>3, <1>5, <2>1, LocalOfferIs
  <2>3. Settles(k, d, <<desc, Candidate(desc)>>)
    BY <1>2, <1>4, <1>6, <1>7, <2>1 DEF SetLocalDescription
  <2>4. OfferSet(c, d, <<desc, Candidate(desc)>>) /\ SameCall(c, d)
    BY <1>1, <1>3, <1>4, <1>6, <1>7, <2>2 DEF OfferSet, SameCall, SameCandidates
  <2> QED BY <1>1, <2>2, <2>3, <2>4 DEF Settling
<1>8. CASE desc.kind = "offer" /\ c.sig # "stable"
  <2>1. PICK d : d = Rejected(p, TRUE)
    OBVIOUS
  <2>2. /\ d \in Call /\ SameCall(p, d) /\ SameDescriptions(p, d) /\ SameCandidates(p, d)
        /\ d.state = "rejected" /\ d.ops = p.ops
    BY <1>3, <2>1, RejectedIs
  <2>3. Settles(k, d, <<>>)
    BY <1>2, <1>4, <1>6, <1>8, <2>1 DEF SetLocalDescription
  <2>4. OfferSet(c, d, <<>>) /\ SameCall(c, d)
    BY <1>1, <1>3, <1>4, <1>8, <2>2 DEF OfferSet, SameCall, SameCandidates, SameDescriptions
  <2> QED BY <1>1, <2>2, <2>3, <2>4 DEF Settling
<1>9. CASE desc.kind # "offer" /\ c.sig = "have-remote-offer" /\ desc.to = c.pend.by
  <2>1. PICK d : d = LocalAnswer(p, desc)
    OBVIOUS
  <2>2. /\ d \in Call /\ SameCall(p, d) /\ SameCandidates(p, d)
        /\ d.state = p.state /\ d.ops = p.ops
        /\ d.sig = "stable" /\ d.pend = NoDesc /\ d.cur.local = desc /\ d.cur.remote = p.pend
    BY <1>3, <1>5, <2>1, LocalAnswerIs
  <2>3. Settles(k, d, <<desc, Candidate(desc)>>)
    BY <1>2, <1>4, <1>6, <1>9, <2>1 DEF SetLocalDescription
  <2>4. AnswerSet(c, d, <<desc, Candidate(desc)>>) /\ SameCall(c, d)
    BY <1>1, <1>3, <1>4, <1>6, <1>9, <2>2 DEF AnswerSet, SameCall, SameCandidates
  <2> QED BY <1>1, <2>2, <2>3, <2>4 DEF Settling
<1>10. CASE desc.kind # "offer" /\ ~(c.sig = "have-remote-offer" /\ desc.to = c.pend.by)
  <2>1. Settles(k, p, <<>>)
    BY <1>2, <1>4, <1>6, <1>10 DEF SetLocalDescription, Rejected
  <2>2. AnswerSet(c, p, <<>>)
    BY <1>1, <1>3, <1>4, <1>10 DEF AnswerSet
  <2> QED BY <1>1, <1>3, <2>1, <2>2 DEF Settling
<1> QED BY <1>7, <1>8, <1>9, <1>10

\* A call that knows its remote description.
KnownOf(e) == [e EXCEPT !.remoteDescriptionSet = TRUE]

LEMMA RemoteOfferIs ==
    ASSUME NEW c \in Call, NEW desc \in Description, NEW d, d = KnownOf(RemoteOffer(c, desc))
    PROVE  /\ d \in Call /\ SameCall(c, d) /\ d.remoteDescriptionSet
           /\ d.pendingCandidates = c.pendingCandidates /\ d.added = c.added
           /\ d.state = c.state /\ d.ops = c.ops
           /\ d.sig = "have-remote-offer" /\ d.pend = desc /\ d.cur = c.cur
  BY DEF KnownOf, RemoteOffer, Call, SameCall

LEMMA RemoteAnswerIs ==
    ASSUME NEW c \in Call, NEW desc \in Description, NEW d, d = KnownOf(RemoteAnswer(c, desc))
    PROVE  /\ d \in Call /\ SameCall(c, d) /\ d.remoteDescriptionSet
           /\ d.pendingCandidates = c.pendingCandidates /\ d.added = c.added
           /\ d.state = c.state /\ d.ops = c.ops
           /\ d.sig = "stable" /\ d.pend = NoDesc /\ d.cur.local = c.pend /\ d.cur.remote = desc
<1>1. [local |-> c.pend, remote |-> desc] \in [local : Description, remote : Description]
  BY CallFields
<1>2. NoDesc \in Description
  BY DescriptionTypes
<1> QED BY <1>1, <1>2 DEF KnownOf, RemoteAnswer, Call, SameCall

LEMMA SetRemoteDescriptionIs ==
    ASSUME General, NEW k \in DOMAIN calls, SetRemoteDescription(k)
    PROVE  \E d, sent : Settling(k, calls[k], d, sent) /\ Settles(k, d, sent)
<1> DEFINE c == calls[k]
<1>1. /\ c \in Call /\ c.ops # <<>> /\ Head(c.ops).op = "setRemote" /\ k \in Nat
      /\ \A m \in DOMAIN c.pendingCandidates : IsCandidate(c.pendingCandidates[m])
  BY DEF SetRemoteDescription, FirstIs, General, Good, CallOK
<1>2. PICK p : p = Popped(k)
  OBVIOUS
<1>3. /\ p \in Call /\ SameCall(c, p) /\ SameDescriptions(c, p) /\ SameCandidates(c, p)
      /\ p.state = c.state /\ p.ops = Tail(c.ops)
  BY <1>1, <1>2, PoppedIs
<1>4. PICK desc : desc = Head(c.ops).desc
  OBVIOUS
<1>5. desc \in Description
  BY <1>1, <1>4, CallFields, Rest, OperationFields
<1>6. p.sig = c.sig /\ p.pend = c.pend /\ p.cur = c.cur /\ p.pendingCandidates = c.pendingCandidates
  BY <1>3 DEF SameDescriptions, SameCandidates
<1>7. CASE desc.kind = "offer"
  <2>1. PICK e : e = KnownOf(RemoteOffer(p, desc))
    OBVIOUS
  <2>2. /\ e \in Call /\ SameCall(p, e) /\ e.remoteDescriptionSet
        /\ e.pendingCandidates = p.pendingCandidates /\ e.added = p.added
        /\ e.state = p.state /\ e.ops = p.ops
        /\ e.sig = "have-remote-offer" /\ e.pend = desc /\ e.cur = p.cur
    BY <1>3, <1>5, <2>1, RemoteOfferIs
  <2>3. PICK d : d = DrainPendingCandidates(e, "offer")
    OBVIOUS
  <2>4. /\ d \in Call /\ SameCall(e, d) /\ SameDescriptions(e, d)
        /\ d.remoteDescriptionSet = e.remoteDescriptionSet /\ d.added = e.added
        /\ d.state = e.state /\ Drained(e, d, e.ops, "offer")
    BY <1>1, <1>6, <2>2, <2>3, DrainIs
  <2>5. Settles(k, d, <<>>)
    BY <1>2, <1>4, <1>7, <2>1, <2>3 DEF SetRemoteDescription, KnownOf
  <2>6. Drained(c, d, Tail(c.ops), "offer")
    BY <1>3, <1>6, <2>2, <2>4 DEF Drained
  <2>7. OfferTaken(c, d, <<>>) /\ SameCall(c, d)
    BY <1>1, <1>3, <1>4, <1>6, <1>7, <2>2, <2>4, <2>6
       DEF OfferTaken, SameCall, SameDescriptions, SameCandidates
  <2> QED BY <1>1, <2>4, <2>5, <2>7 DEF Settling
<1>8. CASE desc.kind # "offer" /\ c.sig = "have-local-offer"
  <2>1. PICK e : e = KnownOf(RemoteAnswer(p, desc))
    OBVIOUS
  <2>2. /\ e \in Call /\ SameCall(p, e) /\ e.remoteDescriptionSet
        /\ e.pendingCandidates = p.pendingCandidates /\ e.added = p.added
        /\ e.state = p.state /\ e.ops = p.ops
        /\ e.sig = "stable" /\ e.pend = NoDesc /\ e.cur.local = p.pend /\ e.cur.remote = desc
    BY <1>3, <1>5, <2>1, RemoteAnswerIs
  <2>3. PICK d : d = DrainPendingCandidates(e, "answer")
    OBVIOUS
  <2>4. /\ d \in Call /\ SameCall(e, d) /\ SameDescriptions(e, d)
        /\ d.remoteDescriptionSet = e.remoteDescriptionSet /\ d.added = e.added
        /\ d.state = e.state /\ Drained(e, d, e.ops, "answer")
    <3>1. e \in Call /\ \A m \in DOMAIN e.pendingCandidates : IsCandidate(e.pendingCandidates[m])
      BY <1>1, <1>6, <2>2
    <3> QED BY <2>3, <3>1, DrainIs
  <2>5. Settles(k, d, <<>>)
    <3>1. Popped(k).sig = "have-local-offer" /\ Head(calls[k].ops).desc.kind # "offer"
      BY <1>2, <1>4, <1>6, <1>8
    <3>2. Settles(k, DrainPendingCandidates(KnownOf(RemoteAnswer(Popped(k), Head(calls[k].ops).desc)),
                                            "answer"), <<>>)
      BY <3>1 DEF SetRemoteDescription, KnownOf
    <3> QED BY <1>2, <1>4, <2>1, <2>3, <3>2
  <2>6. Drained(c, d, Tail(c.ops), "answer")
    BY <1>3, <1>6, <2>2, <2>4 DEF Drained
  <2>7. AnswerTaken(c, d, <<>>) /\ SameCall(c, d)
    BY <1>1, <1>3, <1>4, <1>6, <1>8, <2>2, <2>4, <2>6
       DEF AnswerTaken, SameCall, SameDescriptions, SameCandidates
  <2> QED BY <1>1, <2>4, <2>5, <2>7 DEF Settling
<1>9. CASE desc.kind # "offer" /\ c.sig # "have-local-offer"
  <2>1. Settles(k, p, <<>>)
    BY <1>2, <1>4, <1>6, <1>9 DEF SetRemoteDescription, Rejected
  <2>2. AnswerTaken(c, p, <<>>)
    BY <1>1, <1>3, <1>4, <1>9 DEF AnswerTaken, SameCandidates
  <2> QED BY <1>1, <1>3, <2>1, <2>2 DEF Settling
<1> QED BY <1>7, <1>8, <1>9

LEMMA AddIceCandidateIs ==
    ASSUME General, NEW k \in DOMAIN calls, AddIceCandidate(k)
    PROVE  \E d, sent : Settling(k, calls[k], d, sent) /\ Settles(k, d, sent)
<1> DEFINE c == calls[k]
<1>1. /\ c \in Call /\ c.ops # <<>> /\ Head(c.ops).op = "addCandidate" /\ k \in Nat
      /\ \A m \in DOMAIN c.pendingCandidates : IsCandidate(c.pendingCandidates[m])
  BY DEF AddIceCandidate, FirstIs, General, Good, CallOK
<1>2. PICK p : p = Popped(k)
  OBVIOUS
<1>3. /\ p \in Call /\ SameCall(c, p) /\ SameDescriptions(c, p) /\ SameCandidates(c, p)
      /\ p.state = c.state /\ p.ops = Tail(c.ops)
  BY <1>1, <1>2, PoppedIs
<1>4. PICK o : o = Head(c.ops)
  OBVIOUS
<1>5. o.of \in Description /\ o.then \in {"done", "offer", "answer"}
  BY <1>1, <1>4, CallFields, Rest, OperationFields
<1>6. /\ p.sig = c.sig /\ p.pend = c.pend /\ p.cur = c.cur /\ p.pendingCandidates = c.pendingCandidates
      /\ RemoteDescriptions(p) = RemoteDescriptions(c)
  BY <1>3 DEF SameDescriptions, SameCandidates, RemoteDescriptions
\* The handler that drains goes on from e, which is c without the operation.
<1>7. ASSUME NEW e \in Call, SameCall(p, e), SameDescriptions(p, e), e.state = p.state, e.ops = p.ops,
             e.remoteDescriptionSet = p.remoteDescriptionSet,
             e.pendingCandidates = p.pendingCandidates,
             \/ o.of \in RemoteDescriptions(c) /\ e.added = c.added \cup {o.of}
             \/ o.of \notin RemoteDescriptions(c) /\ e.added = c.added,
             NEW d, d = IF o.then = "done" THEN e ELSE DrainPendingCandidates(e, o.then)
      PROVE  Settling(k, c, d, <<>>)
  <2>1. SameCall(c, e) /\ SameDescriptions(c, e) /\ e.state = c.state /\ e.ops = Tail(c.ops)
        /\ e.remoteDescriptionSet = c.remoteDescriptionSet /\ e.pendingCandidates = c.pendingCandidates
    BY <1>3, <1>7 DEF SameCall, SameDescriptions, SameCandidates
  <2>2. CASE o.then = "done"
    <3>1. d = e
      BY <1>7, <2>2
    <3>2. CandidateAdded(c, e, <<>>)
      BY <1>1, <1>4, <1>7, <2>1, <2>2 DEF CandidateAdded
    <3> QED BY <1>1, <1>7, <2>1, <3>1, <3>2 DEF Settling
  <2>3. CASE o.then # "done"
    <3>1. /\ d \in Call /\ SameCall(e, d) /\ SameDescriptions(e, d)
          /\ d.remoteDescriptionSet = e.remoteDescriptionSet /\ d.added = e.added
          /\ d.state = e.state /\ Drained(e, d, e.ops, o.then)
      BY <1>1, <1>5, <1>6, <1>7, <2>3, DrainIs
    <3>2. Drained(c, d, Tail(c.ops), o.then)
      BY <2>1, <3>1 DEF Drained
    <3>3. SameCall(c, d) /\ SameDescriptions(c, d) /\ d.state = c.state
          /\ d.remoteDescriptionSet = c.remoteDescriptionSet
      BY <2>1, <3>1 DEF SameCall, SameDescriptions
    <3>4. CandidateAdded(c, d, <<>>)
      BY <1>1, <1>4, <1>7, <2>3, <3>1, <3>2, <3>3 DEF CandidateAdded
    <3> QED BY <1>1, <3>1, <3>3, <3>4 DEF Settling
  <2> QED BY <2>2, <2>3
<1>8. CASE o.of \in RemoteDescriptions(c)
  <2>1. PICK e : e = [p EXCEPT !.added = @ \cup {o.of}]
    OBVIOUS
  <2>2. /\ e \in Call /\ SameCall(p, e) /\ SameDescriptions(p, e) /\ e.state = p.state /\ e.ops = p.ops
        /\ e.remoteDescriptionSet = p.remoteDescriptionSet /\ e.pendingCandidates = p.pendingCandidates
        /\ e.added = p.added \cup {o.of}
    BY <1>3, <1>5, <2>1 DEF Call, SameCall, SameDescriptions
  <2>3. p.added = c.added
    BY <1>3 DEF SameCandidates
  <2>4. PICK d : d = IF o.then = "done" THEN e ELSE DrainPendingCandidates(e, o.then)
    OBVIOUS
  <2>5. Settles(k, d, <<>>)
    BY <1>2, <1>4, <1>6, <1>8, <2>1, <2>4 DEF AddIceCandidate
  <2> QED BY <1>7, <1>8, <2>2, <2>3, <2>4, <2>5
<1>9. CASE o.of \notin RemoteDescriptions(c)
  <2>1. p.added = c.added /\ SameCall(p, p) /\ SameDescriptions(p, p)
    BY <1>3 DEF SameCandidates, SameCall, SameDescriptions
  <2>2. PICK d : d = IF o.then = "done" THEN p ELSE DrainPendingCandidates(p, o.then)
    OBVIOUS
  <2>3. Settles(k, d, <<>>) \/ Settles(k, p, <<>>)
    BY <1>2, <1>4, <1>6, <1>9, <2>2 DEF AddIceCandidate, Rejected
  <2>4. Settling(k, c, d, <<>>)
    BY <1>3, <1>7, <1>9, <2>1, <2>2
  <2>5. CandidateAdded(c, p, <<>>)
    BY <1>1, <1>3, <1>4, <1>9, <2>1 DEF CandidateAdded, SameCandidates
  <2>6. Settling(k, c, p, <<>>)
    BY <1>1, <1>3, <2>5 DEF Settling
  <2> QED BY <2>3, <2>4, <2>6
<1> QED BY <1>8, <1>9

LEMMA PcStepIs ==
    ASSUME General, NEW k \in DOMAIN calls, PcStep(k)
    PROVE  \E d, sent : Settling(k, calls[k], d, sent) /\ Settles(k, d, sent)
  BY CreateOfferIs, CreateAnswerIs, SetLocalDescriptionIs, SetRemoteDescriptionIs, AddIceCandidateIs
     DEF PcStep

-----------------------------------------------------------------------------
(* What is general stays. *)

\* An operation of d that is not one of c.
NewOp(k, c, d, o) ==
    \/ o.op = "setLocal" /\ o.desc = OfferOf(k) /\ Head(c.ops).op = "createOffer"
    \/ o.op = "setLocal" /\ o.desc = AnswerOf(k, c.pend) /\ Head(c.ops).op = "createAnswer"
    \/ o.op = "createAnswer"
    \/ o.op = "addCandidate" /\ d.remoteDescriptionSet

OldOp(c, o) == \E j \in DOMAIN c.ops : c.ops[j] = o

LEMMA TailOps ==
    ASSUME NEW c \in Call, c.ops # <<>>, NEW m \in DOMAIN Tail(c.ops)
    PROVE  OldOp(c, Tail(c.ops)[m])
<1>1. m + 1 \in DOMAIN c.ops /\ Tail(c.ops)[m] = c.ops[m + 1]
  BY CallFields, Rest
<1> QED BY <1>1 DEF OldOp

LEMMA AppendOps ==
    ASSUME NEW c \in Call, c.ops # <<>>, NEW o \in Operation, NEW r, r = Append(Tail(c.ops), o),
           NEW m \in DOMAIN r
    PROVE  OldOp(c, r[m]) \/ r[m] = o
<1>1. Tail(c.ops) \in Seq(Operation)
  BY CallFields, Rest
<1>2. /\ DOMAIN r = DOMAIN Tail(c.ops) \cup {Len(Tail(c.ops)) + 1} /\ r[Len(Tail(c.ops)) + 1] = o
      /\ \A i \in DOMAIN Tail(c.ops) : r[i] = Tail(c.ops)[i]
  BY <1>1, Put
<1> QED BY <1>2, TailOps

LEMMA DrainedCandidates ==
    ASSUME NEW c, NEW d, NEW rest, NEW then, CallOK(c), Drained(c, d, rest, then)
    PROVE  \A m \in DOMAIN d.pendingCandidates : IsCandidate(d.pendingCandidates[m])
<1>1. c \in Call /\ \A m \in DOMAIN c.pendingCandidates : IsCandidate(c.pendingCandidates[m])
  BY DEF CallOK
<1>2. CASE c.pendingCandidates # <<>>
  <2>1. PICK q \in Seq(Signal) : q = c.pendingCandidates
    BY <1>1, CallFields
  <2>2. \A m \in DOMAIN Tail(q) : m + 1 \in DOMAIN q /\ Tail(q)[m] = q[m + 1]
    BY <1>2, <2>1, Rest
  <2>3. d.pendingCandidates = Tail(q)
    BY <1>2, <2>1 DEF Drained
  <2> QED BY <1>1, <2>1, <2>2, <2>3
<1>3. CASE c.pendingCandidates = <<>>
  <2>1. d.pendingCandidates = c.pendingCandidates
    BY <1>3 DEF Drained
  <2> QED BY <1>1, <2>1
<1> QED BY <1>2, <1>3

LEMMA DrainedOps ==
    ASSUME NEW k, NEW c \in Call, NEW d, NEW then \in {"done", "offer", "answer"}, CallOK(c), c.ops # <<>>,
           Drained(c, d, Tail(c.ops), then), d.remoteDescriptionSet, NEW m \in DOMAIN d.ops
    PROVE  OldOp(c, d.ops[m]) \/ NewOp(k, c, d, d.ops[m])
<1>1. CASE c.pendingCandidates # <<>>
  <2>1. PICK s : s = Head(c.pendingCandidates)
    OBVIOUS
  <2>2. s \in Signal /\ IsCandidate(s)
    BY <1>1, <2>1, CallFields, Rest DEF CallOK
  <2>3. PICK o \in Operation : o = [op |-> "addCandidate", of |-> s.of, then |-> then]
    BY <2>2, SignalTypes, OperationTypes
  <2>4. d.ops = Append(Tail(c.ops), o)
    BY <1>1, <2>1, <2>3 DEF Drained
  <2>5. o.op = "addCandidate"
    BY <2>3
  <2>6. OldOp(c, d.ops[m]) \/ d.ops[m] = o
    BY <2>4, AppendOps
  <2> QED BY <2>5, <2>6 DEF NewOp
<1>2. CASE c.pendingCandidates = <<>> /\ then = "offer"
  <2>1. PICK o \in Operation : o = [op |-> "createAnswer"]
    BY OperationTypes
  <2>2. d.ops = Append(Tail(c.ops), o)
    BY <1>2, <2>1 DEF Drained
  <2>3. o.op = "createAnswer"
    BY <2>1
  <2>4. OldOp(c, d.ops[m]) \/ d.ops[m] = o
    BY <2>2, AppendOps
  <2> QED BY <2>3, <2>4 DEF NewOp
<1>3. CASE c.pendingCandidates = <<>> /\ then # "offer"
  <2>1. d.ops = Tail(c.ops)
    BY <1>3 DEF Drained
  <2> QED BY <2>1, TailOps
<1> QED BY <1>1, <1>2, <1>3

LEMMA FirstOp ==
    ASSUME NEW c \in Call, c.ops # <<>>
    PROVE  /\ OldOp(c, Head(c.ops)) /\ Head(c.ops) \in Operation
           /\ Head(c.ops).op \in {"setLocal", "setRemote"} => Head(c.ops).desc \in Description
           /\ Head(c.ops).op = "addCandidate" =>
                 Head(c.ops).of \in Description /\ Head(c.ops).then \in {"done", "offer", "answer"}
<1>1. 1 \in DOMAIN c.ops /\ Head(c.ops) = c.ops[1] /\ Head(c.ops) \in Operation
  BY CallFields, Rest
<1> QED BY <1>1, OperationFields DEF OldOp

LEMMA SettlingOps ==
    ASSUME NEW k \in Nat, NEW c, NEW d, NEW sent, CallOK(c), Settling(k, c, d, sent)
    PROVE  /\ \A m \in DOMAIN d.ops : OldOp(c, d.ops[m]) \/ NewOp(k, c, d, d.ops[m])
           /\ \A i \in DOMAIN d.pendingCandidates : IsCandidate(d.pendingCandidates[i])
<1>1. c \in Call /\ c.ops # <<>> /\ \A i \in DOMAIN c.pendingCandidates : IsCandidate(c.pendingCandidates[i])
  BY DEF CallOK, Settling
<1>2. CASE OfferCreated(k, c, d, sent)
  <2>1. PICK o \in Operation : o = [op |-> "setLocal", desc |-> OfferOf(k)]
    BY OperationTypes, DescriptionTypes
  <2>2. o.op = "setLocal" /\ o.desc = OfferOf(k)
    BY <2>1
  <2>3. d.ops = Append(Tail(c.ops), o) /\ d.pendingCandidates = c.pendingCandidates
    BY <1>2, <2>1 DEF OfferCreated, SameCandidates
  <2> QED BY SMTT(30), <1>1, <1>2, <2>2, <2>3, AppendOps DEF NewOp, OfferCreated
<1>3. CASE AnswerCreated(k, c, d, sent) /\ d.ops # Tail(c.ops)
  <2>1. PICK o \in Operation : o = [op |-> "setLocal", desc |-> AnswerOf(k, c.pend)]
    BY <1>1, OperationTypes, DescriptionTypes, CallFields
  <2>2. o.op = "setLocal" /\ o.desc = AnswerOf(k, c.pend)
    BY <2>1
  <2>3. d.ops = Append(Tail(c.ops), o) /\ d.pendingCandidates = c.pendingCandidates
    BY <1>3, <2>1 DEF AnswerCreated, SameCandidates
  <2>4. \A m \in DOMAIN d.ops : OldOp(c, d.ops[m]) \/ d.ops[m] = o
    BY <1>1, <2>3, AppendOps
  <2>5. Head(c.ops).op = "createAnswer"
    BY <1>3 DEF AnswerCreated
  <2> QED BY <1>1, <2>2, <2>3, <2>4, <2>5 DEF NewOp
<1>4. CASE d.ops = Tail(c.ops) /\ d.pendingCandidates = c.pendingCandidates
  BY <1>1, <1>4, TailOps
<1>5. ASSUME NEW then \in {"done", "offer", "answer"}, Drained(c, d, Tail(c.ops), then), d.remoteDescriptionSet
      PROVE  /\ \A m \in DOMAIN d.ops : OldOp(c, d.ops[m]) \/ NewOp(k, c, d, d.ops[m])
             /\ \A i \in DOMAIN d.pendingCandidates : IsCandidate(d.pendingCandidates[i])
  BY <1>1, <1>5, DrainedOps, DrainedCandidates
<1>6. CASE OfferTaken(c, d, sent)
  BY <1>5, <1>6 DEF OfferTaken
<1>7. CASE AnswerTaken(c, d, sent)
  BY <1>4, <1>5, <1>7 DEF AnswerTaken
<1>8. CASE CandidateAdded(c, d, sent)
  <2>1. d.remoteDescriptionSet
    BY <1>1, <1>8, FirstOp, CallFields DEF CandidateAdded, CallOK, OldOp
  <2>2. Head(c.ops).then \in {"done", "offer", "answer"}
    BY <1>1, <1>8, FirstOp DEF CandidateAdded
  <2> QED BY <1>4, <1>5, <1>8, <2>1, <2>2 DEF CandidateAdded
<1> QED
  BY <1>2, <1>3, <1>4, <1>6, <1>7, <1>8
     DEF Settling, AnswerCreated, OfferSet, AnswerSet, SameCandidates

LEMMA SettlingCallOK ==
    ASSUME NEW k \in Nat, NEW c, NEW d, NEW sent, CallOK(c), Settling(k, c, d, sent)
    PROVE  CallOK(d)
<1>1. /\ c \in Call /\ d \in Call /\ c.ops # <<>> /\ (c.sig = "stable" <=> c.pend = NoDesc)
      /\ ~c.remoteDescriptionSet => \A m \in DOMAIN c.ops : c.ops[m].op # "addCandidate"
  BY DEF CallOK, Settling
<1>2. d.sig = "stable" <=> d.pend = NoDesc
  <2>1. CASE OfferSet(c, d, sent) \/ OfferTaken(c, d, sent)
    <3>1. Head(c.ops).desc.kind = "offer" => Head(c.ops).desc # NoDesc
      BY DescriptionTypes
    <3> QED BY <1>1, <2>1, <3>1 DEF OfferSet, OfferTaken, SameDescriptions
  <2>2. CASE ~(OfferSet(c, d, sent) \/ OfferTaken(c, d, sent))
    BY <1>1, <2>2 DEF Settling, OfferCreated, AnswerCreated, AnswerSet, AnswerTaken, CandidateAdded,
                      SameDescriptions
  <2> QED BY <2>1, <2>2
<1>3. c.remoteDescriptionSet => d.remoteDescriptionSet
  BY <1>1, CallFields DEF Settling, OfferCreated, AnswerCreated, OfferSet, AnswerSet, OfferTaken, AnswerTaken,
                          CandidateAdded, SameCandidates
<1>4. ~d.remoteDescriptionSet => \A m \in DOMAIN d.ops : d.ops[m].op # "addCandidate"
  BY <1>1, <1>3, SettlingOps DEF OldOp, NewOp
<1> QED BY <1>1, <1>2, <1>4, SettlingOps DEF CallOK

LEMMA SettlingOwn ==
    ASSUME NEW n \in Nat, NEW k \in 1..n, NEW c, NEW d, NEW sent, CallOK(c), Own(c, k, n),
           Settling(k, c, d, sent)
    PROVE  Own(d, k, n)
<1>1. c \in Call /\ d \in Call /\ c.ops # <<>> /\ k \in Nat /\ k <= n
  BY DEF CallOK, Settling
<1>2. /\ c.cur.local # NoDesc => c.cur.local.by = k
      /\ c.sig = "have-local-offer" => c.pend.by = k
      /\ Known(c.pend, n) /\ Known(c.cur.remote, n)
  BY DEF Own
<1>3. \A o : OldOp(c, o) =>
          /\ o.op = "setLocal" => o.desc.kind # "none" /\ o.desc.by = k
          /\ o.op = "setRemote" => o.desc.kind # "none" /\ Known(o.desc, n)
  BY DEF Own, OldOp
<1>4. \A m \in DOMAIN d.ops :
          /\ d.ops[m].op = "setLocal" => d.ops[m].desc.kind # "none" /\ d.ops[m].desc.by = k
          /\ d.ops[m].op = "setRemote" => d.ops[m].desc.kind # "none" /\ Known(d.ops[m].desc, n)
  <2> SUFFICES ASSUME NEW m \in DOMAIN d.ops
               PROVE  /\ d.ops[m].op = "setLocal" => d.ops[m].desc.kind # "none" /\ d.ops[m].desc.by = k
                      /\ d.ops[m].op = "setRemote" => d.ops[m].desc.kind # "none" /\ Known(d.ops[m].desc, n)
    OBVIOUS
  <2>1. PICK o : o = d.ops[m]
    OBVIOUS
  <2>2. OldOp(c, o) \/ NewOp(k, c, d, o)
    BY <1>1, <2>1, SettlingOps
  <2>3. OfferOf(k).kind # "none" /\ OfferOf(k).by = k
    BY <1>1, DescriptionTypes
  <2>4. AnswerOf(k, c.pend).kind # "none" /\ AnswerOf(k, c.pend).by = k
    BY <1>1, DescriptionTypes, CallFields
  <2>5. CASE NewOp(k, c, d, o)
    BY <2>1, <2>3, <2>4, <2>5 DEF NewOp
  <2> QED BY <1>3, <2>1, <2>2, <2>5
<1>5. PICK o : o = Head(c.ops)
  OBVIOUS
<1>6. /\ o.op = "setLocal" => o.desc.by = k
      /\ o.op = "setRemote" => Known(o.desc, n)
  BY <1>1, <1>3, <1>5, FirstOp
<1>7. Known(NoDesc, n) /\ k <= n
  BY <1>1, DescriptionTypes DEF Known
<1>8. d.cur.local # NoDesc => d.cur.local.by = k
  BY <1>2, <1>5, <1>6
     DEF Settling, OfferCreated, AnswerCreated, OfferSet, AnswerSet, OfferTaken, AnswerTaken, CandidateAdded,
         SameDescriptions
<1>9. d.sig = "have-local-offer" => d.pend.by = k
  BY <1>2, <1>5, <1>6
     DEF Settling, OfferCreated, AnswerCreated, OfferSet, AnswerSet, OfferTaken, AnswerTaken, CandidateAdded,
         SameDescriptions
<1>10. Known(d.pend, n)
  <2>1. o.op = "setLocal" => Known(o.desc, n)
    BY <1>1, <1>6 DEF Known
  <2> QED
    BY <1>2, <1>5, <1>6, <1>7, <2>1
       DEF Settling, OfferCreated, AnswerCreated, OfferSet, AnswerSet, OfferTaken, AnswerTaken,
           CandidateAdded, SameDescriptions
<1>11. Known(d.cur.remote, n)
  BY <1>2, <1>5, <1>6
     DEF Settling, OfferCreated, AnswerCreated, OfferSet, AnswerSet, OfferTaken, AnswerTaken, CandidateAdded,
         SameDescriptions
<1> QED BY <1>4, <1>8, <1>9, <1>10, <1>11 DEF Own

LEMMA SettlingLives ==
    ASSUME NEW k \in Nat, NEW c, NEW d, NEW sent, CallOK(c), Lives(c), Settling(k, c, d, sent)
    PROVE  Lives(d)
<1>1. c \in Call /\ d \in Call /\ c.ops # <<>> /\ c.state # "gone"
  BY DEF CallOK, Settling, Lives
<1>2. SameCall(c, d)
  BY DEF Settling
<1>3. ~c.initiator => Head(c.ops).op # "createOffer" /\ (Head(c.ops).op = "setLocal" => Head(c.ops).desc.kind # "offer")
  BY <1>1, FirstOp DEF Lives, OldOp
<1>4. d.state # c.state => d.state = "rejected" /\ c.initiator
  <2>1. CASE OfferSet(c, d, sent)
    <3>1. c.initiator
      BY <1>3, <2>1 DEF OfferSet
    <3>2. d.state # c.state => d.state = "rejected"
      BY <2>1 DEF OfferSet
    <3> QED BY <3>1, <3>2
  <2>2. CASE ~OfferSet(c, d, sent)
    BY <2>2 DEF Settling, OfferCreated, AnswerCreated, AnswerSet, OfferTaken, AnswerTaken, CandidateAdded
  <2> QED BY <2>1, <2>2
<1>5. ~c.initiator => \A m \in DOMAIN d.ops :
          /\ d.ops[m].op # "createOffer"
          /\ d.ops[m].op = "setLocal" => d.ops[m].desc.kind # "offer"
  <2> SUFFICES ASSUME ~c.initiator, NEW m \in DOMAIN d.ops
               PROVE  /\ d.ops[m].op # "createOffer"
                      /\ d.ops[m].op = "setLocal" => d.ops[m].desc.kind # "offer"
    OBVIOUS
  <2>1. PICK o : o = d.ops[m]
    OBVIOUS
  <2>2. CASE OldOp(c, o)
    BY <2>1, <2>2 DEF Lives, OldOp
  <2>3. CASE NewOp(k, c, d, o)
    <3>1. AnswerOf(k, c.pend).kind # "offer"
      BY <1>1, DescriptionTypes, CallFields
    <3> QED BY <1>3, <2>1, <2>3, <3>1 DEF NewOp
  <2> QED BY <1>1, <2>1, <2>2, <2>3, SettlingOps
<1> QED BY <1>1, <1>2, <1>4, <1>5 DEF Lives, SameCall

LEMMA SettlingSends ==
    ASSUME NEW n \in Nat, NEW k \in 1..n, NEW c, NEW d, NEW sent, CallOK(c), Own(c, k, n),
           Settling(k, c, d, sent)
    PROVE  sent \in Seq(Signal) /\ \A m \in DOMAIN sent : GoodSignal(sent[m], n)
<1>1. CASE sent = <<>>
  BY <1>1
<1>2. CASE Head(c.ops).op = "setLocal" /\ sent = <<Head(c.ops).desc, Candidate(Head(c.ops).desc)>>
  <2>1. PICK desc : desc = Head(c.ops).desc
    OBVIOUS
  <2>2. desc \in Description /\ desc.kind # "none" /\ desc.by = k
    BY <1>2, <2>1, FirstOp DEF Own, OldOp, CallOK, Settling
  <2>3. desc \in Signal /\ Candidate(desc) \in Signal /\ IsCandidate(Candidate(desc)) /\ Known(desc, n)
    BY <2>2, SignalTypes DEF Known
  <2>4. GoodSignal(desc, n) /\ GoodSignal(Candidate(desc), n)
    BY <2>2, <2>3 DEF GoodSignal
  <2>5. PICK x, y : x = desc /\ y = Candidate(desc)
    OBVIOUS
  <2>6. sent = <<x, y>> /\ x \in Signal /\ y \in Signal
    BY <1>2, <2>1, <2>3, <2>5
  <2>7. DOMAIN sent = {1, 2} /\ sent[1] = x /\ sent[2] = y
    BY <2>6
  <2> QED BY <2>4, <2>5, <2>6, <2>7
<1> QED
  BY <1>1, <1>2 DEF Settling, OfferCreated, AnswerCreated, OfferSet, AnswerSet, OfferTaken, AnswerTaken,
                    CandidateAdded

\* What is known stays known when there are more calls.
LEMMA MoreCalls ==
    ASSUME NEW n \in Nat, NEW m \in Nat, n <= m, NEW c, NEW k, c \in Call, \A i \in DOMAIN c.ops : c.ops[i] \in Operation
    PROVE  Own(c, k, n) => Own(c, k, m)
<1>1. \A d \in Description : Known(d, n) => Known(d, m)
  BY DescriptionTypes DEF Known
<1> QED BY <1>1, CallFields, OperationFields DEF Own

LEMMA MoreGood ==
    ASSUME NEW n \in Nat, NEW m \in Nat, n <= m
    PROVE  /\ \A c, k : Good(c, k, n) => Good(c, k, m)
           /\ \A s : GoodSignal(s, n) => GoodSignal(s, m)
<1>1. ASSUME NEW c, NEW k, Good(c, k, n) PROVE Good(c, k, m)
  <2>1. c \in Call
    BY <1>1 DEF Good, CallOK
  <2>2. \A i \in DOMAIN c.ops : c.ops[i] \in Operation
    BY <2>1, CallFields
  <2>3. Own(c, k, m)
    BY <1>1, <2>1, <2>2, MoreCalls DEF Good
  <2> QED BY <1>1, <2>3 DEF Good
<1>2. ASSUME NEW s, GoodSignal(s, n) PROVE GoodSignal(s, m)
  <2>1. ~IsCandidate(s) => s.by \in Nat
    BY <1>2, SignalTypes, DescriptionTypes DEF GoodSignal
  <2> QED BY <1>2, <2>1 DEF GoodSignal, Known
<1> QED BY <1>1, <1>2

-----------------------------------------------------------------------------
(* Signals, field by field. *)

Takes(c, d, s) ==
    /\ d \in Call /\ SameCall(c, d) /\ SameDescriptions(c, d) /\ d.state = c.state
    /\ d.remoteDescriptionSet = c.remoteDescriptionSet /\ d.added = c.added
    /\ \/ /\ ~IsCandidate(s) /\ d.pendingCandidates = c.pendingCandidates
          /\ d.ops = Append(c.ops, [op |-> "setRemote", desc |-> s])
       \/ /\ IsCandidate(s) /\ c.remoteDescriptionSet /\ d.pendingCandidates = c.pendingCandidates
          /\ d.ops = Append(c.ops, [op |-> "addCandidate", of |-> s.of, then |-> "done"])
       \/ /\ IsCandidate(s) /\ ~c.remoteDescriptionSet /\ d.ops = c.ops
          /\ d.pendingCandidates = Append(c.pendingCandidates, s)

LEMMA HandleSignalIs ==
    ASSUME NEW c \in Call, NEW s \in Signal, NEW d, d = HandleSignal(c, s)
    PROVE  Takes(c, d, s)
<1>1. CASE ~IsCandidate(s)
  <2>1. PICK o \in Operation : o = [op |-> "setRemote", desc |-> s]
    BY <1>1, SignalTypes, OperationTypes
  <2>2. d = Enqueue(c, o)
    BY <1>1, <2>1 DEF HandleSignal, IsCandidate, SetRemote
  <2>3. /\ d \in Call /\ SameCall(c, d) /\ SameDescriptions(c, d) /\ SameCandidates(c, d)
        /\ d.state = c.state /\ d.ops = Append(c.ops, o)
    BY <2>2, EnqueueIs
  <2> QED BY <1>1, <2>1, <2>3 DEF Takes, SameCandidates
<1>2. CASE IsCandidate(s) /\ c.remoteDescriptionSet
  <2>1. PICK o \in Operation : o = [op |-> "addCandidate", of |-> s.of, then |-> "done"]
    BY <1>2, SignalTypes, OperationTypes
  <2>2. d = Enqueue(c, o)
    BY <1>2, <2>1 DEF HandleSignal, IsCandidate, AddCandidate
  <2>3. /\ d \in Call /\ SameCall(c, d) /\ SameDescriptions(c, d) /\ SameCandidates(c, d)
        /\ d.state = c.state /\ d.ops = Append(c.ops, o)
    BY <2>2, EnqueueIs
  <2> QED BY <1>2, <2>1, <2>3 DEF Takes, SameCandidates
<1>3. CASE IsCandidate(s) /\ ~c.remoteDescriptionSet
  <2>1. d = [c EXCEPT !.pendingCandidates = Append(@, s)]
    BY <1>3 DEF HandleSignal, IsCandidate
  <2>2. Append(c.pendingCandidates, s) \in Seq(Signal)
    BY CallFields
  <2>3. /\ d \in Call /\ SameCall(c, d) /\ SameDescriptions(c, d) /\ d.state = c.state
        /\ d.remoteDescriptionSet = c.remoteDescriptionSet /\ d.added = c.added
        /\ d.ops = c.ops /\ d.pendingCandidates = Append(c.pendingCandidates, s)
    BY <2>1, <2>2 DEF Call, SameCall, SameDescriptions
  <2> QED BY <1>3, <2>3 DEF Takes
<1> QED BY <1>1, <1>2, <1>3

\* The operation a signal adds, if it adds one.
Added(s, o) ==
    \/ ~IsCandidate(s) /\ o.op = "setRemote" /\ o.desc = s
    \/ IsCandidate(s) /\ o.op = "addCandidate" /\ o.of = s.of /\ o.then = "done"

LEMMA TakesOps ==
    ASSUME NEW c \in Call, NEW s \in Signal, NEW d, Takes(c, d, s)
    PROVE  /\ \A m \in DOMAIN d.ops : (m \in DOMAIN c.ops /\ d.ops[m] = c.ops[m]) \/ Added(s, d.ops[m])
           /\ \A m \in DOMAIN c.ops : m \in DOMAIN d.ops /\ d.ops[m] = c.ops[m]
           /\ \A m \in DOMAIN d.ops : ~c.remoteDescriptionSet /\ Added(s, d.ops[m]) /\ m \notin DOMAIN c.ops => ~IsCandidate(s)
           /\ c.ops # <<>> => d.ops # <<>> /\ Head(d.ops) = Head(c.ops)
<1>1. c.ops \in Seq(Operation)
  BY CallFields
<1>2. CASE d.ops = c.ops
  BY <1>1, <1>2
<1>3. ASSUME NEW o \in Operation, d.ops = Append(c.ops, o), Added(s, o), ~c.remoteDescriptionSet => ~IsCandidate(s)
      PROVE  /\ \A m \in DOMAIN d.ops : (m \in DOMAIN c.ops /\ d.ops[m] = c.ops[m]) \/ Added(s, d.ops[m])
             /\ \A m \in DOMAIN c.ops : m \in DOMAIN d.ops /\ d.ops[m] = c.ops[m]
             /\ \A m \in DOMAIN d.ops : ~c.remoteDescriptionSet /\ Added(s, d.ops[m]) /\ m \notin DOMAIN c.ops => ~IsCandidate(s)
             /\ c.ops # <<>> => d.ops # <<>> /\ Head(d.ops) = Head(c.ops)
  <2>1. PICK r : r = d.ops
    OBVIOUS
  <2>2. /\ r # <<>> /\ DOMAIN r = DOMAIN c.ops \cup {Len(c.ops) + 1} /\ r[Len(c.ops) + 1] = o
        /\ \A m \in DOMAIN c.ops : r[m] = c.ops[m]
        /\ c.ops # <<>> => Head(r) = Head(c.ops)
    BY <1>1, <1>3, <2>1, Put
  <2> QED BY <1>3, <2>1, <2>2
<1>4. CASE ~IsCandidate(s)
  <2>1. PICK o \in Operation : o = [op |-> "setRemote", desc |-> s]
    BY <1>4, SignalTypes, OperationTypes
  <2>2. Added(s, o) /\ d.ops = Append(c.ops, o)
    BY <1>4, <2>1 DEF Takes, Added
  <2> QED BY <1>3, <1>4, <2>2
<1>5. CASE IsCandidate(s) /\ c.remoteDescriptionSet
  <2>1. PICK o \in Operation : o = [op |-> "addCandidate", of |-> s.of, then |-> "done"]
    BY <1>5, SignalTypes, OperationTypes
  <2>2. Added(s, o) /\ d.ops = Append(c.ops, o)
    BY <1>5, <2>1 DEF Takes, Added
  <2> QED BY <1>3, <1>5, <2>2
<1>6. CASE IsCandidate(s) /\ ~c.remoteDescriptionSet
  BY <1>2, <1>6 DEF Takes
<1> QED BY <1>4, <1>5, <1>6

LEMMA TakesGood ==
    ASSUME NEW n \in Nat, NEW k, NEW c, Good(c, k, n), c.subscribed, NEW s, GoodSignal(s, n), NEW d, Takes(c, d, s)
    PROVE  Good(d, k, n)
<1>1. c \in Call /\ d \in Call /\ s \in Signal /\ SameCall(c, d) /\ SameDescriptions(c, d)
  BY DEF Good, CallOK, GoodSignal, Takes
<1>2. /\ d.state = c.state /\ d.remoteDescriptionSet = c.remoteDescriptionSet
      /\ c.state # "gone"
  BY DEF Takes, Good, Lives
<1>3. \A m \in DOMAIN d.ops : (m \in DOMAIN c.ops /\ d.ops[m] = c.ops[m]) \/ Added(s, d.ops[m])
  BY <1>1, TakesOps
<1>4. CallOK(d)
  <2>1. \A m \in DOMAIN d.pendingCandidates : IsCandidate(d.pendingCandidates[m])
    <3>1. \A m \in DOMAIN c.pendingCandidates : IsCandidate(c.pendingCandidates[m])
      BY DEF Good, CallOK
    <3>2. CASE d.pendingCandidates = c.pendingCandidates
      BY <3>1, <3>2
    <3>3. CASE d.pendingCandidates = Append(c.pendingCandidates, s) /\ IsCandidate(s)
      <4>1. PICK q \in Seq(Signal) : q = c.pendingCandidates
        BY <1>1, CallFields
      <4>2. PICK r : r = d.pendingCandidates
        OBVIOUS
      <4>3. DOMAIN r = DOMAIN q \cup {Len(q) + 1} /\ r[Len(q) + 1] = s /\ \A m \in DOMAIN q : r[m] = q[m]
        BY <1>1, <3>3, <4>1, <4>2, Put
      <4> QED BY <3>1, <3>3, <4>1, <4>2, <4>3
    <3> QED BY <3>2, <3>3 DEF Takes
  <2>2. ~d.remoteDescriptionSet => \A m \in DOMAIN d.ops : d.ops[m].op # "addCandidate"
    <3> SUFFICES ASSUME ~d.remoteDescriptionSet, NEW m \in DOMAIN d.ops PROVE d.ops[m].op # "addCandidate"
      OBVIOUS
    <3>1. CASE m \in DOMAIN c.ops /\ d.ops[m] = c.ops[m]
      BY <1>2, <3>1 DEF Good, CallOK
    <3>2. CASE m \notin DOMAIN c.ops
      <4>1. ~IsCandidate(s)
        BY <1>1, <1>2, <1>3, <3>2, TakesOps
      <4> QED BY <1>3, <3>2, <4>1 DEF Added
    <3> QED BY <1>1, <3>1, <3>2, TakesOps
  <2>3. c.sig = "stable" <=> c.pend = NoDesc
    BY DEF Good, CallOK
  <2> QED BY <1>1, <2>1, <2>2, <2>3 DEF CallOK, SameDescriptions
<1>5. Own(d, k, n)
  <2>1. /\ c.cur.local # NoDesc => c.cur.local.by = k
        /\ c.sig = "have-local-offer" => c.pend.by = k
        /\ Known(c.pend, n) /\ Known(c.cur.remote, n)
    BY DEF Good, Own
  <2>2. \A m \in DOMAIN d.ops :
          /\ d.ops[m].op = "setLocal" => d.ops[m].desc.kind # "none" /\ d.ops[m].desc.by = k
          /\ d.ops[m].op = "setRemote" => d.ops[m].desc.kind # "none" /\ Known(d.ops[m].desc, n)
    <3> SUFFICES ASSUME NEW m \in DOMAIN d.ops
                 PROVE  /\ d.ops[m].op = "setLocal" => d.ops[m].desc.kind # "none" /\ d.ops[m].desc.by = k
                        /\ d.ops[m].op = "setRemote" => d.ops[m].desc.kind # "none" /\ Known(d.ops[m].desc, n)
      OBVIOUS
    <3>1. CASE m \in DOMAIN c.ops /\ d.ops[m] = c.ops[m]
      BY <3>1 DEF Good, Own
    <3>2. CASE Added(s, d.ops[m])
      BY <3>2 DEF Added, GoodSignal
    <3> QED BY <1>3, <3>1, <3>2
  <2> QED BY <1>1, <2>1, <2>2 DEF Own, SameDescriptions
<1>6. Lives(d)
  <2>1. ~c.initiator => \A m \in DOMAIN d.ops :
          /\ d.ops[m].op # "createOffer"
          /\ d.ops[m].op = "setLocal" => d.ops[m].desc.kind # "offer"
    BY <1>3 DEF Good, Lives, Added
  <2> QED BY <1>1, <1>2, <2>1 DEF Good, Lives, SameCall
<1> QED BY <1>4, <1>5, <1>6 DEF Good

-----------------------------------------------------------------------------
(* What a step does to the calls and the signals under way. *)

LEMMA Calls ==
    ASSUME General
    PROVE  /\ Len(calls) \in Nat /\ DOMAIN calls = 1..Len(calls)
           /\ \A k \in DOMAIN calls :
                 /\ k \in Nat /\ k <= Len(calls)
                 /\ calls[k] \in Call /\ Good(calls[k], k, Len(calls))
                 /\ calls[k].page \in Device /\ calls[k].peer \in Device
                 /\ <<calls[k].page, calls[k].peer>> \in Pair /\ <<calls[k].peer, calls[k].page>> \in Pair
           /\ \A p \in Pair : wire[p] \in Seq(Signal)
<1>1. Len(calls) \in Nat /\ DOMAIN calls = 1..Len(calls) /\ \A k \in DOMAIN calls : calls[k] \in Call
  BY DEF General
<1>2. \A k \in DOMAIN calls : calls[k].page \in Device /\ calls[k].peer \in Device
  BY <1>1, CallFields
<1> QED BY <1>1, <1>2 DEF General, WireOK, Pair

LEMMA JoinIs ==
    ASSUME NEW S, NEW q \in Seq(S), NEW r \in Seq(S), NEW j, j = q \o r
    PROVE  /\ j \in Seq(S) /\ Len(j) = Len(q) + Len(r)
           /\ \A m \in DOMAIN q : m \in DOMAIN j /\ j[m] = q[m]
           /\ \A m \in DOMAIN r : Len(q) + m \in DOMAIN j /\ j[Len(q) + m] = r[m]
           /\ \A m \in DOMAIN j : m \in DOMAIN q \/ (m - Len(q) \in DOMAIN r /\ j[m] = r[m - Len(q)])
           /\ q = <<>> => j = r
           /\ r = <<>> => j = q
           /\ q # <<>> => j # <<>> /\ Head(j) = Head(q)
  BY SMTT(30)

LEMMA SettlesIs ==
    ASSUME General, NEW k \in DOMAIN calls, NEW d, NEW sent, Settling(k, calls[k], d, sent), Settles(k, d, sent)
    PROVE  /\ calls' \in Seq(Call) /\ DOMAIN calls' = DOMAIN calls /\ Len(calls') = Len(calls)
           /\ calls'[k] = d /\ \A j \in DOMAIN calls : j # k => calls'[j] = calls[j]
           /\ wire' \in [Pair -> Seq(Signal)]
           /\ wire'[<<calls[k].page, calls[k].peer>>] = wire[<<calls[k].page, calls[k].peer>>] \o sent
           /\ \A p \in Pair : p # <<calls[k].page, calls[k].peer>> => wire'[p] = wire[p]
           /\ sent \in Seq(Signal) /\ faults' = faults
<1>1. d \in Call /\ d.page = calls[k].page /\ d.peer = calls[k].peer
  BY DEF Settling, SameCall
<1>2. sent \in Seq(Signal)
  BY Calls, SettlingSends DEF Good
<1>3. PICK p : p = <<calls[k].page, calls[k].peer>>
  OBVIOUS
<1>4. p \in Pair /\ wire[p] \in Seq(Signal) /\ wire \in [Pair -> Seq(Signal)]
  BY <1>3, Calls DEF General, WireOK
<1>5. wire[p] \o sent \in Seq(Signal)
  BY <1>2, <1>4
<1>6. wire' = [wire EXCEPT ![p] = @ \o sent] /\ calls' = [calls EXCEPT ![k] = d] /\ faults' = faults
  BY <1>1, <1>3 DEF Settles
<1>7. calls' \in Seq(Call) /\ DOMAIN calls' = DOMAIN calls /\ Len(calls') = Len(calls)
  BY <1>1, <1>6 DEF General
<1>8. /\ wire' \in [Pair -> Seq(Signal)] /\ wire'[p] = wire[p] \o sent
      /\ \A o \in Pair : o # p => wire'[o] = wire[o]
  BY <1>4, <1>5, <1>6
<1>9. calls'[k] = d /\ \A j \in DOMAIN calls : j # k => calls'[j] = calls[j]
  BY <1>6
<1> QED BY <1>2, <1>3, <1>6, <1>7, <1>8, <1>9

LEMMA NewCallIs ==
    ASSUME NEW page \in Device, NEW peer \in Device, NEW init \in BOOLEAN,
           NEW c, c = NewCall(page, peer, init)
    PROVE  /\ c \in Call /\ c.page = page /\ c.peer = peer /\ c.initiator = init
           /\ c.state = "connecting" /\ c.subscribed /\ ~c.remoteDescriptionSet
           /\ c.pendingCandidates = <<>> /\ c.sig = "stable" /\ c.pend = NoDesc
           /\ c.cur.local = NoDesc /\ c.cur.remote = NoDesc
           /\ c.ops = IF init THEN <<[op |-> "createOffer"]>> ELSE <<>>
           /\ c.undisturbed
<1>1. PICK ops \in Seq(Operation) : ops = IF init THEN <<[op |-> "createOffer"]>> ELSE <<>>
  <2>1. PICK o \in Operation : o = [op |-> "createOffer"]
    BY OperationTypes
  <2>2. <<o>> \in Seq(Operation) /\ <<>> \in Seq(Operation)
    OBVIOUS
  <2> QED BY <2>1, <2>2
<1>2. [local |-> NoDesc, remote |-> NoDesc] \in [local : Description, remote : Description]
  BY DescriptionTypes
<1>3. c = [page |-> page, peer |-> peer, initiator |-> init,
           state |-> "connecting", subscribed |-> TRUE,
           remoteDescriptionSet |-> FALSE, pendingCandidates |-> <<>>, ops |-> ops,
           sig |-> "stable", pend |-> NoDesc, cur |-> [local |-> NoDesc, remote |-> NoDesc],
           added |-> {}, undisturbed |-> TRUE]
  BY <1>1 DEF NewCall
<1>4. <<>> \in Seq(Signal) /\ NoDesc \in Description
  BY DescriptionTypes
<1>5. c \in Call
  BY <1>1, <1>2, <1>3, <1>4 DEF Call
<1> QED BY <1>1, <1>3, <1>5

LEMMA NewCallGood ==
    ASSUME NEW page \in Device, NEW peer \in Device, NEW init \in BOOLEAN, init => page # peer,
           NEW c, c = NewCall(page, peer, init), NEW k \in Nat, NEW n \in Nat, k <= n
    PROVE  Good(c, k, n)
<1>1. /\ c \in Call /\ c.page = page /\ c.peer = peer /\ c.initiator = init
      /\ c.state = "connecting" /\ c.subscribed /\ ~c.remoteDescriptionSet
      /\ c.pendingCandidates = <<>> /\ c.sig = "stable" /\ c.pend = NoDesc
      /\ c.cur.local = NoDesc /\ c.cur.remote = NoDesc
      /\ c.ops = IF init THEN <<[op |-> "createOffer"]>> ELSE <<>>
  BY NewCallIs
<1>2. \A m \in DOMAIN c.ops : c.ops[m].op = "createOffer" /\ init
  <2>1. CASE init
    <3>1. PICK o : o = [op |-> "createOffer"]
      OBVIOUS
    <3>2. o.op = "createOffer" /\ c.ops = <<o>>
      BY <1>1, <2>1, <3>1
    <3>3. DOMAIN <<o>> = {1} /\ <<o>>[1] = o
      OBVIOUS
    <3> QED BY <2>1, <3>2, <3>3
  <2>2. CASE ~init
    BY <1>1, <2>2
  <2> QED BY <2>1, <2>2
<1>3. Known(NoDesc, n)
  BY DescriptionTypes DEF Known
<1>4. \A m \in DOMAIN <<>> : FALSE
  OBVIOUS
<1>5. CallOK(c)
  BY <1>1, <1>2, <1>4 DEF CallOK
<1>6. Own(c, k, n)
  BY <1>1, <1>2, <1>3 DEF Own
<1>7. Lives(c)
  BY <1>1, <1>2 DEF Lives
<1> QED BY <1>5, <1>6, <1>7 DEF Good

\* What delivering signal s does to the calls.
Delivered(from, to, s) ==
    /\ calls' \in Seq(Call)
    /\ \A k \in DOMAIN calls :
          /\ k \in DOMAIN calls'
          /\ Hears(calls[k], from, to) => Takes(calls[k], calls'[k], s)
          /\ ~Hears(calls[k], from, to) => calls'[k] = calls[k]
    /\ s.kind # "offer" => DOMAIN calls' = DOMAIN calls
    /\ s.kind = "offer" =>
          /\ DOMAIN calls' = DOMAIN calls \cup {Len(calls) + 1} /\ Len(calls) + 1 \notin DOMAIN calls
          /\ \E e : e = NewCall(to, from, FALSE) /\ Takes(e, calls'[Len(calls) + 1], s)
    /\ Len(calls') >= Len(calls) /\ Len(calls') \in Nat /\ (s.kind = "offer" => Len(calls') = Len(calls) + 1)
    /\ wire' \in [Pair -> Seq(Signal)] /\ wire'[<<from, to>>] = Tail(wire[<<from, to>>])
    /\ \A p \in Pair : p # <<from, to>> => wire'[p] = wire[p]
    /\ faults' = faults

LEMMA DeliverIs ==
    ASSUME General, NEW from \in Device, NEW to \in Device, Deliver(from, to), NEW s, s = Head(wire[<<from, to>>])
    PROVE  Delivered(from, to, s) /\ GoodSignal(s, Len(calls)) /\ wire[<<from, to>>] # <<>>
<1>1. PICK p \in Pair : p = <<from, to>>
  BY DEF Pair
<1>2. wire[p] # <<>> /\ wire[p] \in Seq(Signal) /\ wire \in [Pair -> Seq(Signal)]
  BY <1>1 DEF Deliver, General, WireOK
<1>3. 1 \in DOMAIN wire[p] /\ s = wire[p][1] /\ s \in Signal /\ Tail(wire[p]) \in Seq(Signal)
  BY <1>1, <1>2, Rest
<1>4. GoodSignal(s, Len(calls))
  BY <1>3 DEF General, WireOK
<1>5. /\ wire' = [wire EXCEPT ![p] = Tail(@)] /\ faults' = faults
      /\ calls' = Dispatch(s, from, to)
  BY <1>1 DEF Deliver
<1>6. PICK f : f = [i \in DOMAIN calls |->
                      IF Hears(calls[i], from, to) THEN HandleSignal(calls[i], s) ELSE calls[i]]
  OBVIOUS
<1>7. \A k \in DOMAIN calls : calls[k] \in Call
  BY Calls
<1>8. \A k \in DOMAIN calls : Hears(calls[k], from, to) => f[k] \in Call /\ Takes(calls[k], f[k], s)
  <2> SUFFICES ASSUME NEW k \in DOMAIN calls, Hears(calls[k], from, to)
               PROVE  f[k] \in Call /\ Takes(calls[k], f[k], s)
    OBVIOUS
  <2>1. PICK d : d = HandleSignal(calls[k], s)
    OBVIOUS
  <2>2. f[k] = d
    BY <1>6, <2>1
  <2>3. Takes(calls[k], d, s)
    BY <1>3, <1>7, <2>1, HandleSignalIs
  <2> QED BY <2>2, <2>3 DEF Takes
<1>9. \A k \in DOMAIN calls : ~Hears(calls[k], from, to) => f[k] = calls[k]
  BY <1>6
<1>10. f \in Seq(Call) /\ DOMAIN f = DOMAIN calls /\ Len(f) = Len(calls)
  <2>1. \A k \in DOMAIN calls : f[k] \in Call
    BY <1>7, <1>8, <1>9
  <2>2. DOMAIN f = 1..Len(calls) /\ f = [k \in 1..Len(calls) |-> f[k]]
    BY <1>6, Calls
  <2> QED BY <2>1, <2>2, Calls
<1>11. PICK g : g = Listening(s, from, to)
  OBVIOUS
<1>12. calls' = f \o g
  BY <1>5, <1>6, <1>11 DEF Dispatch
<1>13. /\ wire' \in [Pair -> Seq(Signal)] /\ wire'[p] = Tail(wire[p])
       /\ \A o \in Pair : o # p => wire'[o] = wire[o]
  BY <1>2, <1>3, <1>5
<1>14. /\ wire' \in [Pair -> Seq(Signal)] /\ wire'[<<from, to>>] = Tail(wire[<<from, to>>])
       /\ \A o \in Pair : o # <<from, to>> => wire'[o] = wire[o]
  BY <1>1, <1>13
<1>15. CASE s.kind # "offer"
  <2>1. g = <<>>
    BY <1>11, <1>15 DEF Listening
  <2>2. calls' = f
    BY <1>10, <1>12, <2>1
  <2>3. calls' \in Seq(Call) /\ DOMAIN calls' = DOMAIN calls /\ Len(calls') = Len(calls)
    BY <1>10, <2>2
  <2>4. \A k \in DOMAIN calls :
          /\ k \in DOMAIN calls'
          /\ Hears(calls[k], from, to) => Takes(calls[k], calls'[k], s)
          /\ ~Hears(calls[k], from, to) => calls'[k] = calls[k]
    BY <1>8, <1>9, <2>2, <2>3
  <2>5. Len(calls') >= Len(calls) /\ Len(calls') \in Nat
    BY <2>3, Calls
  <2>6. Delivered(from, to, s)
    BY <1>5, <1>15, <1>14, <2>3, <2>4, <2>5 DEF Delivered
  <2> QED BY <1>1, <1>2, <1>4, <2>6
<1>16. CASE s.kind = "offer"
  <2>1. PICK e : e = NewCall(to, from, FALSE)
    OBVIOUS
  <2>2. e \in Call
    BY <2>1, NewCallIs
  <2>3. PICK d : d = HandleSignal(e, s)
    OBVIOUS
  <2>4. Takes(e, d, s) /\ d \in Call
    <3>1. Takes(e, d, s)
      BY <1>3, <2>2, <2>3, HandleSignalIs
    <3> QED BY <3>1 DEF Takes
  <2>5. g = <<d>>
    BY <1>11, <1>16, <2>1, <2>3 DEF Listening
  <2>6. g \in Seq(Call) /\ Len(g) = 1 /\ g[1] = d
    BY <2>4, <2>5
  <2>7. /\ calls' \in Seq(Call) /\ Len(calls') = Len(calls) + 1
        /\ \A k \in DOMAIN calls : k \in DOMAIN calls' /\ calls'[k] = f[k]
        /\ calls'[Len(calls) + 1] = d
    <3>1. PICK j : j = f \o g
      OBVIOUS
    <3>2. PICK T : T = Call
      OBVIOUS
    <3>3. f \in Seq(T) /\ g \in Seq(T)
      BY <1>10, <2>6, <3>2
    <3>4. /\ j \in Seq(T) /\ Len(j) = Len(f) + Len(g)
          /\ \A m \in DOMAIN f : m \in DOMAIN j /\ j[m] = f[m]
          /\ \A m \in DOMAIN g : Len(f) + m \in DOMAIN j /\ j[Len(f) + m] = g[m]
      BY <3>1, <3>3, JoinIs
    <3>5. 1 \in DOMAIN g
      BY <2>6
    <3>6. j[Len(f) + 1] = g[1]
      BY <3>4, <3>5
    <3> QED BY <1>10, <1>12, <2>6, <3>1, <3>2, <3>4, <3>6
  <2>8. DOMAIN calls' = DOMAIN calls \cup {Len(calls) + 1} /\ Len(calls) + 1 \notin DOMAIN calls
    BY <2>7, Calls
  <2>9. \E x : x = NewCall(to, from, FALSE) /\ Takes(x, calls'[Len(calls) + 1], s)
    BY <2>1, <2>4, <2>7
  <2>10. \A k \in DOMAIN calls :
          /\ k \in DOMAIN calls'
          /\ Hears(calls[k], from, to) => Takes(calls[k], calls'[k], s)
          /\ ~Hears(calls[k], from, to) => calls'[k] = calls[k]
    BY <1>8, <1>9, <2>7
  <2>11. Len(calls') >= Len(calls) /\ Len(calls') \in Nat
    BY <2>7, Calls
  <2>12. Delivered(from, to, s)
    BY <1>5, <1>16, <1>14, <2>7, <2>8, <2>9, <2>10, <2>11 DEF Delivered
  <2> QED BY <1>1, <1>2, <1>4, <2>12
<1> QED BY <1>15, <1>16

\* Nothing of the negotiation of a call changes.
SameNegotiation(c, d) ==
    /\ d \in Call /\ d.page = c.page /\ d.peer = c.peer /\ d.initiator = c.initiator
    /\ SameDescriptions(c, d) /\ SameCandidates(c, d)
Marked(c, d) ==
    /\ SameNegotiation(c, d) /\ d.ops = c.ops
    /\ d.state = c.state /\ d.subscribed = c.subscribed /\ (d.undisturbed => c.undisturbed)
Opened(c, d) ==
    /\ SameNegotiation(c, d) /\ d.ops = c.ops /\ d.undisturbed = c.undisturbed
    /\ c.subscribed /\ ~d.subscribed
    /\ d.state = IF c.state = "connecting" THEN "open" ELSE c.state
Killed(c, d) ==
    /\ SameNegotiation(c, d) /\ d.ops = <<>>
    /\ d.state = "gone" /\ ~d.subscribed /\ ~d.undisturbed

LEMMA ChangedGood ==
    ASSUME NEW n \in Nat, NEW k, NEW c, Good(c, k, n), NEW d, Marked(c, d) \/ Opened(c, d) \/ Killed(c, d)
    PROVE  Good(d, k, n)
<1>1. SameNegotiation(c, d) /\ d \in Call
  BY DEF Marked, Opened, Killed, SameNegotiation
<1>2. d.ops = c.ops \/ (d.ops = <<>> /\ DOMAIN d.ops = {})
  BY DEF Marked, Opened, Killed
<1>3. CallOK(d)
  BY <1>1, <1>2 DEF Good, CallOK, SameNegotiation, SameDescriptions, SameCandidates
<1>4. Own(d, k, n)
  <2>1. /\ d.cur.local # NoDesc => d.cur.local.by = k
        /\ d.sig = "have-local-offer" => d.pend.by = k
        /\ Known(d.pend, n) /\ Known(d.cur.remote, n)
    BY <1>1 DEF Good, Own, SameNegotiation, SameDescriptions
  <2>2. \A m \in DOMAIN d.ops :
          /\ d.ops[m].op = "setLocal" => d.ops[m].desc.kind # "none" /\ d.ops[m].desc.by = k
          /\ d.ops[m].op = "setRemote" => d.ops[m].desc.kind # "none" /\ Known(d.ops[m].desc, n)
    BY <1>2 DEF Good, Own
  <2> QED BY <2>1, <2>2 DEF Own
<1>5. Lives(d)
  <2>1. d.page = c.page /\ d.peer = c.peer /\ d.initiator = c.initiator
    BY <1>1 DEF SameNegotiation
  <2>2. ~c.initiator => \A m \in DOMAIN d.ops :
          /\ d.ops[m].op # "createOffer"
          /\ d.ops[m].op = "setLocal" => d.ops[m].desc.kind # "offer"
    BY <1>2 DEF Good, Lives
  <2>3. d.state = "gone" => d.ops = <<>>
    BY DEF Good, Lives, Marked, Opened, Killed
  <2> QED BY <2>1, <2>2, <2>3 DEF Good, Lives, Marked, Opened, Killed
<1> QED BY <1>3, <1>4, <1>5 DEF Good

LEMMA ChannelOpensIs ==
    ASSUME General, NEW k \in DOMAIN calls, ChannelOpens(k)
    PROVE  /\ calls' \in Seq(Call) /\ DOMAIN calls' = DOMAIN calls /\ Len(calls') = Len(calls)
           /\ Opened(calls[k], calls'[k]) /\ \A j \in DOMAIN calls : j # k => calls'[j] = calls[j]
           /\ wire' = wire /\ faults' = faults
<1>1. PICK d : d = OnOpen(calls[k])
  OBVIOUS
<1>2. calls' = [calls EXCEPT ![k] = d] /\ wire' = wire /\ faults' = faults /\ calls[k].subscribed
  BY <1>1 DEF ChannelOpens, CanOpen
<1>3. calls[k] \in Call /\ calls \in Seq(Call)
  BY DEF General
<1>4. Opened(calls[k], d)
  <2>1. PICK c \in Call : c = calls[k]
    BY <1>3
  <2>2. d \in Call
    BY <1>1, <2>1 DEF OnOpen, Call
  <2>3. c.subscribed
    BY <1>2, <2>1
  <2>4. Opened(c, d)
    BY <1>1, <2>1, <2>2, <2>3 DEF Opened, SameNegotiation, SameDescriptions, SameCandidates, OnOpen, Call
  <2> QED BY <2>1, <2>4
<1>5. d \in Call
  BY <1>4 DEF Opened, SameNegotiation
<1> QED BY <1>2, <1>3, <1>4, <1>5

LEMMA MarkIs ==
    ASSUME NEW c \in Call
    PROVE  /\ Marked(c, c)
           /\ \A d : d = [c EXCEPT !.undisturbed = FALSE] => Marked(c, d) /\ ~d.undisturbed
<1>1. Marked(c, c)
  BY DEF Marked, SameNegotiation, SameDescriptions, SameCandidates
<1>2. ASSUME NEW d, d = [c EXCEPT !.undisturbed = FALSE] PROVE Marked(c, d) /\ ~d.undisturbed
  <2>1. d \in Call
    BY <1>2 DEF Call
  <2> QED BY <1>2, <2>1 DEF Marked, SameNegotiation, SameDescriptions, SameCandidates, Call
<1> QED BY <1>1, <1>2

LEMMA DisturbedIs ==
    ASSUME General, NEW from, NEW to, NEW f, f = Disturbed(from, to)
    PROVE  /\ f \in Seq(Call) /\ DOMAIN f = DOMAIN calls /\ Len(f) = Len(calls)
           /\ \A k \in DOMAIN calls : Marked(calls[k], f[k])
           /\ \A k \in DOMAIN calls :
                 Between(calls[k], from, to) /\ ~OpenAtBothEnds(k) => ~f[k].undisturbed
<1>1. ASSUME NEW k \in DOMAIN calls
      PROVE  /\ f[k] \in Call /\ Marked(calls[k], f[k])
             /\ Between(calls[k], from, to) /\ ~OpenAtBothEnds(k) => ~f[k].undisturbed
  <2>1. PICK c \in Call : c = calls[k]
    BY DEF General
  <2>2. PICK d : d = [c EXCEPT !.undisturbed = FALSE]
    OBVIOUS
  <2>3. f[k] = IF Between(c, from, to) /\ ~OpenAtBothEnds(k) THEN d ELSE c
    BY <2>1, <2>2 DEF Disturbed
  <2>4. Marked(c, c) /\ Marked(c, d) /\ ~d.undisturbed
    BY <2>2, MarkIs
  <2>5. d \in Call
    BY <2>4 DEF Marked, SameNegotiation
  <2> QED BY <2>1, <2>3, <2>4, <2>5
<1>2. DOMAIN f = 1..Len(calls) /\ f = [k \in 1..Len(calls) |-> f[k]] /\ Len(calls) \in Nat
  BY Calls DEF Disturbed
<1>3. f \in Seq(Call) /\ DOMAIN f = DOMAIN calls /\ Len(f) = Len(calls)
  BY <1>1, <1>2, Calls
<1> QED BY <1>1, <1>3

\* What a new send from one device to another does to the calls.
Sent(from, to) ==
    /\ calls' \in Seq(Call) /\ Len(calls') = Len(calls) + 1
    /\ DOMAIN calls' = DOMAIN calls \cup {Len(calls) + 1} /\ Len(calls) + 1 \notin DOMAIN calls
    /\ \A k \in DOMAIN calls :
          /\ Marked(calls[k], calls'[k])
          /\ Between(calls[k], from, to) /\ ~OpenAtBothEnds(k) => ~calls'[k].undisturbed
    /\ \E c : c = NewCall(from, to, TRUE) /\ Marked(c, calls'[Len(calls) + 1])
    /\ calls'[Len(calls) + 1].undisturbed => Quiet(from, to)
    /\ wire' = wire /\ faults' \in Nat

LEMMA SendIs ==
    ASSUME General, NEW from \in Device, NEW to \in Device, Send(from, to)
    PROVE  Sent(from, to)
<1>1. PICK f : f = Disturbed(from, to)
  OBVIOUS
<1>2. /\ f \in Seq(Call) /\ DOMAIN f = DOMAIN calls /\ Len(f) = Len(calls)
      /\ \A k \in DOMAIN calls : Marked(calls[k], f[k])
      /\ \A k \in DOMAIN calls :
            Between(calls[k], from, to) /\ ~OpenAtBothEnds(k) => ~f[k].undisturbed
  BY <1>1, DisturbedIs
<1>3. PICK c : c = NewCall(from, to, TRUE)
  OBVIOUS
<1>4. c \in Call /\ c.undisturbed
  BY <1>3, NewCallIs
<1>5. PICK d : d = [c EXCEPT !.undisturbed = Quiet(from, to)]
  OBVIOUS
<1>6. Quiet(from, to) \in BOOLEAN
  BY DEF Quiet
<1>7. d \in Call /\ d.undisturbed = Quiet(from, to)
  BY <1>4, <1>5, <1>6 DEF Call
<1>8. Marked(c, d)
  BY <1>4, <1>5, <1>7 DEF Marked, SameNegotiation, SameDescriptions, SameCandidates, Call
<1>9. calls' = Append(f, d) /\ wire' = wire
  BY <1>1, <1>3, <1>5 DEF Send
<1>10. faults' \in Nat
  BY DEF Send, General
<1>11. /\ calls' \in Seq(Call) /\ Len(calls') = Len(calls) + 1
       /\ DOMAIN calls' = DOMAIN calls \cup {Len(calls) + 1} /\ Len(calls) + 1 \notin DOMAIN calls
       /\ calls'[Len(calls) + 1] = d
       /\ \A k \in DOMAIN calls : calls'[k] = f[k]
  BY <1>2, <1>7, <1>9, Calls
<1>12. \A k \in DOMAIN calls :
          /\ Marked(calls[k], calls'[k])
          /\ Between(calls[k], from, to) /\ ~OpenAtBothEnds(k) => ~calls'[k].undisturbed
  BY <1>2, <1>11
<1> QED BY <1>3, <1>7, <1>8, <1>9, <1>10, <1>11, <1>12 DEF Sent

LEMMA LoseSignalIs ==
    ASSUME General, NEW from \in Device, NEW to \in Device, LoseSignal(from, to)
    PROVE  /\ calls' \in Seq(Call) /\ DOMAIN calls' = DOMAIN calls /\ Len(calls') = Len(calls)
           /\ \A k \in DOMAIN calls :
                 /\ Marked(calls[k], calls'[k])
                 /\ Between(calls[k], from, to) /\ ~OpenAtBothEnds(k) => ~calls'[k].undisturbed
           /\ wire' \in [Pair -> Seq(Signal)] /\ wire[<<from, to>>] # <<>>
           /\ wire'[<<from, to>>] = Tail(wire[<<from, to>>])
           /\ \A p \in Pair : p # <<from, to>> => wire'[p] = wire[p]
           /\ faults' \in Nat
<1>1. PICK f : f = Disturbed(from, to)
  OBVIOUS
<1>2. calls' = f /\ faults' \in Nat
  BY <1>1 DEF LoseSignal, General
<1>3. /\ f \in Seq(Call) /\ DOMAIN f = DOMAIN calls /\ Len(f) = Len(calls)
      /\ \A k \in DOMAIN calls : Marked(calls[k], f[k])
      /\ \A k \in DOMAIN calls :
            Between(calls[k], from, to) /\ ~OpenAtBothEnds(k) => ~f[k].undisturbed
  BY <1>1, DisturbedIs
<1>4. PICK p \in Pair : p = <<from, to>>
  BY DEF Pair
<1>5. wire[p] # <<>> /\ wire[p] \in Seq(Signal) /\ wire \in [Pair -> Seq(Signal)]
  BY <1>4 DEF LoseSignal, General, WireOK
<1>6. Tail(wire[p]) \in Seq(Signal)
  BY <1>5, Rest
<1>7. wire' = [wire EXCEPT ![p] = Tail(@)]
  BY <1>4 DEF LoseSignal
<1>8. /\ wire' \in [Pair -> Seq(Signal)] /\ wire'[p] = Tail(wire[p])
      /\ \A o \in Pair : o # p => wire'[o] = wire[o]
  BY <1>5, <1>6, <1>7
<1>9. /\ calls' \in Seq(Call) /\ DOMAIN calls' = DOMAIN calls /\ Len(calls') = Len(calls)
      /\ \A k \in DOMAIN calls :
            /\ Marked(calls[k], calls'[k])
            /\ Between(calls[k], from, to) /\ ~OpenAtBothEnds(k) => ~calls'[k].undisturbed
  BY <1>2, <1>3
<1> QED BY <1>2, <1>4, <1>5, <1>8, <1>9

LEMMA ReloadIs ==
    ASSUME General, NEW w \in Device, Reload(w)
    PROVE  /\ calls' \in Seq(Call) /\ DOMAIN calls' = DOMAIN calls /\ Len(calls') = Len(calls)
           /\ \A k \in DOMAIN calls :
                 /\ calls[k].page = w => Killed(calls[k], calls'[k])
                 /\ calls[k].page # w => Marked(calls[k], calls'[k])
                 /\ w \in {calls[k].page, calls[k].peer} => ~calls'[k].undisturbed
           /\ wire' = wire /\ faults' \in Nat
<1>1. faults' \in Nat /\ wire' = wire
  <2>1. faults' = faults + 1 /\ wire' = wire
    BY Zenon DEF Reload
  <2> QED BY <2>1 DEF General
<1>2. PICK f : f = calls'
  OBVIOUS
<1>3. f = [k \in DOMAIN calls |->
             IF calls[k].page = w
             THEN [calls[k] EXCEPT !.state = "gone", !.subscribed = FALSE, !.ops = <<>>, !.undisturbed = FALSE]
             ELSE IF calls[k].peer = w THEN [calls[k] EXCEPT !.undisturbed = FALSE] ELSE calls[k]]
  BY <1>2 DEF Reload
<1>4. ASSUME NEW k \in DOMAIN calls
      PROVE  /\ f[k] \in Call
             /\ calls[k].page = w => Killed(calls[k], f[k])
             /\ calls[k].page # w => Marked(calls[k], f[k])
             /\ w \in {calls[k].page, calls[k].peer} => ~f[k].undisturbed
  <2>1. PICK c \in Call : c = calls[k]
    BY DEF General
  <2>2. PICK d : d = [c EXCEPT !.undisturbed = FALSE]
    OBVIOUS
  <2>3. Marked(c, c) /\ Marked(c, d) /\ ~d.undisturbed
    BY <2>2, MarkIs
  <2>4. PICK e : e = [c EXCEPT !.state = "gone", !.subscribed = FALSE, !.ops = <<>>, !.undisturbed = FALSE]
    OBVIOUS
  <2>5. Killed(c, e)
    <3>1. <<>> \in Seq(Operation)
      OBVIOUS
    <3>2. e \in Call
      BY <2>4, <3>1 DEF Call
    <3> QED BY <2>4, <3>2 DEF Killed, SameNegotiation, SameDescriptions, SameCandidates, Call
  <2>6. d \in Call /\ e \in Call
    BY <2>3, <2>5 DEF Marked, Killed, SameNegotiation
  <2>7. /\ c.page = w => f[k] = e
        /\ c.page # w /\ c.peer = w => f[k] = d
        /\ c.page # w /\ c.peer # w => f[k] = c
    BY <1>3, <2>1, <2>2, <2>4
  <2> QED BY <2>1, <2>3, <2>5, <2>6, <2>7 DEF Killed
<1>5. DOMAIN f = 1..Len(calls) /\ f = [k \in 1..Len(calls) |-> f[k]] /\ Len(calls) \in Nat
  BY <1>3, Calls
<1>6. f \in Seq(Call) /\ DOMAIN f = DOMAIN calls /\ Len(f) = Len(calls)
  BY <1>4, <1>5, Calls
<1> QED BY <1>1, <1>2, <1>4, <1>6

LEMMA TailGood ==
    ASSUME NEW q \in Seq(Signal), q # <<>>, NEW n, \A m \in DOMAIN q : GoodSignal(q[m], n)
    PROVE  \A m \in DOMAIN Tail(q) : GoodSignal(Tail(q)[m], n)
  BY Rest

LEMMA PcStepGeneral ==
    ASSUME General, NEW k \in DOMAIN calls, PcStep(k)
    PROVE  General'
<1>1. PICK d, sent : Settling(k, calls[k], d, sent) /\ Settles(k, d, sent)
  BY PcStepIs
<1>2. PICK n : n = Len(calls)
  OBVIOUS
<1>3. n \in Nat /\ k \in 1..n /\ k \in Nat /\ calls[k] \in Call /\ Good(calls[k], k, n)
  BY <1>2, Calls
<1>4. /\ calls' \in Seq(Call) /\ DOMAIN calls' = DOMAIN calls /\ Len(calls') = Len(calls)
      /\ calls'[k] = d /\ \A j \in DOMAIN calls : j # k => calls'[j] = calls[j]
      /\ wire' \in [Pair -> Seq(Signal)]
      /\ wire'[<<calls[k].page, calls[k].peer>>] = wire[<<calls[k].page, calls[k].peer>>] \o sent
      /\ \A p \in Pair : p # <<calls[k].page, calls[k].peer>> => wire'[p] = wire[p]
      /\ sent \in Seq(Signal) /\ faults' = faults
  BY <1>1, SettlesIs
<1>5. Good(d, k, n)
  BY <1>1, <1>3, SettlingCallOK, SettlingOwn, SettlingLives DEF Good
<1>6. \A j \in DOMAIN calls' : Good(calls'[j], j, n)
  BY <1>2, <1>4, <1>5, Calls
<1>7. \A m \in DOMAIN sent : GoodSignal(sent[m], n)
  BY <1>1, <1>3, SettlingSends DEF Good
<1>8. ASSUME NEW p \in Pair PROVE \A m \in DOMAIN wire'[p] : GoodSignal(wire'[p][m], n)
  <2>1. \A m \in DOMAIN wire[p] : GoodSignal(wire[p][m], n)
    BY <1>2 DEF General, WireOK
  <2>2. CASE p # <<calls[k].page, calls[k].peer>>
    BY <1>4, <2>1, <2>2
  <2>3. CASE p = <<calls[k].page, calls[k].peer>>
    <3>1. PICK q \in Seq(Signal) : q = wire[p]
      BY Calls
    <3>2. PICK j : j = q \o sent
      OBVIOUS
    <3>3. \A m \in DOMAIN j : (m \in DOMAIN q /\ j[m] = q[m]) \/ (m - Len(q) \in DOMAIN sent /\ j[m] = sent[m - Len(q)])
      BY <1>4, <3>2, JoinIs
    <3>4. \A m \in DOMAIN q : GoodSignal(q[m], n)
      BY <2>1, <3>1
    <3>5. \A m \in DOMAIN j : GoodSignal(j[m], n)
      BY <1>7, <3>3, <3>4
    <3>6. wire'[p] = j
      BY <1>4, <2>3, <3>1, <3>2
    <3> QED BY <3>5, <3>6
  <2> QED BY <2>2, <2>3
<1>9. faults' \in Nat
  BY <1>4 DEF General
<1> QED BY <1>2, <1>4, <1>6, <1>8, <1>9 DEF General, WireOK

LEMMA DeliverGeneral ==
    ASSUME General, NEW from \in Device, NEW to \in Device, Deliver(from, to)
    PROVE  General'
<1>1. PICK s : s = Head(wire[<<from, to>>])
  OBVIOUS
<1>2. Delivered(from, to, s) /\ GoodSignal(s, Len(calls)) /\ wire[<<from, to>>] # <<>>
  BY <1>1, DeliverIs
<1>3. PICK n, m : n = Len(calls) /\ m = Len(calls')
  OBVIOUS
<1>4. n \in Nat /\ m \in Nat /\ n <= m /\ calls' \in Seq(Call)
  BY <1>2, <1>3, Calls DEF Delivered
<1>5. /\ \A c, k : Good(c, k, n) => Good(c, k, m)
      /\ \A x : GoodSignal(x, n) => GoodSignal(x, m)
  BY <1>4, MoreGood
<1>6. ASSUME NEW k \in DOMAIN calls' PROVE Good(calls'[k], k, m)
  <2>1. CASE k \in DOMAIN calls /\ ~Hears(calls[k], from, to)
    BY <1>2, <1>3, <1>5, <2>1, Calls DEF Delivered
  <2>2. CASE k \in DOMAIN calls /\ Hears(calls[k], from, to)
    <3>1. Takes(calls[k], calls'[k], s) /\ Good(calls[k], k, m) /\ calls[k].subscribed /\ GoodSignal(s, m)
      BY <1>2, <1>3, <1>5, <2>2, Calls DEF Delivered, Hears
    <3> QED BY <1>4, <3>1, TakesGood
  <2>3. CASE k \notin DOMAIN calls
    <3>1. k = n + 1 /\ m = n + 1 /\ s.kind = "offer"
      BY <1>2, <1>3, <2>3 DEF Delivered
    <3>2. PICK e : e = NewCall(to, from, FALSE) /\ Takes(e, calls'[n + 1], s)
      BY <1>2, <1>3, <3>1 DEF Delivered
    <3>3. Good(e, k, m)
      <4>1. k \in Nat /\ k <= m /\ m \in Nat /\ FALSE \in BOOLEAN
        BY <1>4, <3>1
      <4>2. PICK init \in BOOLEAN : init = FALSE
        BY <4>1
      <4>3. e = NewCall(to, from, init)
        BY <3>2, <4>2
      <4> QED BY <4>1, <4>2, <4>3, NewCallGood
    <3>4. e.subscribed
      BY <3>2, NewCallIs
    <3>5. GoodSignal(s, m)
      BY <1>2, <1>3, <1>5
    <3> QED BY <1>4, <3>1, <3>2, <3>3, <3>4, <3>5, TakesGood
  <2> QED BY <2>1, <2>2, <2>3
<1>7. ASSUME NEW p \in Pair PROVE \A i \in DOMAIN wire'[p] : GoodSignal(wire'[p][i], m)
  <2>1. \A i \in DOMAIN wire[p] : GoodSignal(wire[p][i], m)
    BY <1>3, <1>5 DEF General, WireOK
  <2>2. CASE p # <<from, to>>
    BY <1>2, <2>1, <2>2 DEF Delivered
  <2>3. CASE p = <<from, to>>
    <3>1. wire'[p] = Tail(wire[p]) /\ wire[p] # <<>> /\ wire[p] \in Seq(Signal)
      BY <1>2, <2>3, Calls DEF Delivered
    <3> QED BY <2>1, <3>1, TailGood
  <2> QED BY <2>2, <2>3
<1>8. wire' \in [Pair -> Seq(Signal)] /\ faults' \in Nat
  BY <1>2 DEF Delivered, General
<1> QED BY <1>3, <1>4, <1>6, <1>7, <1>8 DEF General, WireOK

LEMMA ChangedGeneral ==
    ASSUME General, calls' \in Seq(Call), DOMAIN calls' = DOMAIN calls, Len(calls') = Len(calls), faults' \in Nat,
           \A k \in DOMAIN calls : Marked(calls[k], calls'[k]) \/ Opened(calls[k], calls'[k])
                                   \/ Killed(calls[k], calls'[k]) \/ calls'[k] = calls[k],
           wire' \in [Pair -> Seq(Signal)],
           \A p \in Pair : wire'[p] = wire[p] \/ (wire[p] # <<>> /\ wire'[p] = Tail(wire[p]))
    PROVE  General'
<1>1. \A k \in DOMAIN calls' : Good(calls'[k], k, Len(calls'))
  BY Calls, ChangedGood
<1>2. ASSUME NEW p \in Pair PROVE \A i \in DOMAIN wire'[p] : GoodSignal(wire'[p][i], Len(calls'))
  <2>1. \A i \in DOMAIN wire[p] : GoodSignal(wire[p][i], Len(calls'))
    BY DEF General, WireOK
  <2>2. CASE wire[p] # <<>> /\ wire'[p] = Tail(wire[p])
    BY <2>1, <2>2, Calls, TailGood
  <2> QED BY <2>1, <2>2
<1> QED BY <1>1, <1>2 DEF General, WireOK

LEMMA SendGeneral ==
    ASSUME General, NEW from \in Device, NEW to \in Device, from # to, Send(from, to)
    PROVE  General'
<1>1. Sent(from, to)
  BY SendIs
<1>2. PICK n, m : n = Len(calls) /\ m = Len(calls')
  OBVIOUS
<1>3. n \in Nat /\ m = n + 1 /\ n <= m /\ calls' \in Seq(Call)
  BY <1>1, <1>2, Calls DEF Sent
<1>4. /\ \A c, k : Good(c, k, n) => Good(c, k, m)
      /\ \A x : GoodSignal(x, n) => GoodSignal(x, m)
  BY <1>3, MoreGood
<1>5. \A k \in DOMAIN calls : Good(calls'[k], k, m)
  BY <1>1, <1>2, <1>3, <1>4, Calls, ChangedGood DEF Sent
<1>6. Good(calls'[m], m, m)
  <2>1. PICK c : c = NewCall(from, to, TRUE) /\ Marked(c, calls'[m])
    BY <1>1, <1>2, <1>3 DEF Sent
  <2>2. m \in Nat /\ m <= m
    BY <1>3
  <2>3. PICK init \in BOOLEAN : init = TRUE
    OBVIOUS
  <2>4. c = NewCall(from, to, init)
    BY <2>1, <2>3
  <2>5. Good(c, m, m)
    BY <2>2, <2>4, NewCallGood
  <2>6. PICK d : d = calls'[m]
    OBVIOUS
  <2>7. Marked(c, d)
    BY <2>1, <2>6
  <2>8. Good(d, m, m)
    BY <2>2, <2>5, <2>7, ChangedGood
  <2> QED BY <2>6, <2>8
<1>7. \A k \in DOMAIN calls' : Good(calls'[k], k, m)
  BY <1>1, <1>2, <1>3, <1>5, <1>6 DEF Sent
<1>8. wire' = wire /\ faults' \in Nat
  BY <1>1 DEF Sent
<1> QED BY <1>2, <1>3, <1>4, <1>7, <1>8 DEF General, WireOK

LEMMA GeneralStays ==
    ASSUME General, [Next]_vars
    PROVE  General'
<1>1. CASE UNCHANGED vars
  BY <1>1 DEF vars, General, WireOK
<1>2. ASSUME NEW k \in DOMAIN calls, PcStep(k) PROVE General'
  BY <1>2, PcStepGeneral
<1>3. ASSUME NEW k \in DOMAIN calls, ChannelOpens(k) PROVE General'
  <2>1. /\ calls' \in Seq(Call) /\ DOMAIN calls' = DOMAIN calls /\ Len(calls') = Len(calls)
        /\ Opened(calls[k], calls'[k]) /\ \A j \in DOMAIN calls : j # k => calls'[j] = calls[j]
        /\ wire' = wire /\ faults' = faults
    BY <1>3, ChannelOpensIs
  <2>2. wire' \in [Pair -> Seq(Signal)] /\ faults' \in Nat
    BY <2>1 DEF General, WireOK
  <2>3. \A j \in DOMAIN calls : Opened(calls[j], calls'[j]) \/ calls'[j] = calls[j]
    BY <2>1
  <2> QED BY <2>1, <2>2, <2>3, ChangedGeneral
<1>4. ASSUME NEW p \in Pair, Deliver(p[1], p[2]) PROVE General'
  BY <1>4, DeliverGeneral DEF Pair
<1>5. ASSUME NEW r \in Routes, Send(r[1], r[2]) PROVE General'
  <2>1. r[1] \in Device /\ r[2] \in Device /\ r[1] # r[2]
    BY RoutesAssumption
  <2> QED BY <1>5, <2>1, SendGeneral
<1>6. ASSUME NEW p \in Pair, LoseSignal(p[1], p[2]) PROVE General'
  <2>1. PICK from \in Device, to \in Device : p = <<from, to>>
    BY DEF Pair
  <2>2. LoseSignal(from, to)
    BY <1>6, <2>1
  <2>3. /\ calls' \in Seq(Call) /\ DOMAIN calls' = DOMAIN calls /\ Len(calls') = Len(calls)
        /\ \A k \in DOMAIN calls : Marked(calls[k], calls'[k])
        /\ wire' \in [Pair -> Seq(Signal)] /\ wire[p] # <<>>
        /\ wire'[p] = Tail(wire[p])
        /\ \A o \in Pair : o # p => wire'[o] = wire[o]
        /\ faults' \in Nat
    BY <2>1, <2>2, LoseSignalIs
  <2>4. \A o \in Pair : wire'[o] = wire[o] \/ (wire[o] # <<>> /\ wire'[o] = Tail(wire[o]))
    BY <2>3
  <2> QED BY <2>3, <2>4, ChangedGeneral
<1>7. ASSUME NEW w \in Device, Reload(w) PROVE General'
  <2>1. /\ calls' \in Seq(Call) /\ DOMAIN calls' = DOMAIN calls /\ Len(calls') = Len(calls)
        /\ \A k \in DOMAIN calls : Killed(calls[k], calls'[k]) \/ Marked(calls[k], calls'[k])
        /\ wire' = wire /\ faults' \in Nat
    BY <1>7, ReloadIs
  <2>2. wire' \in [Pair -> Seq(Signal)]
    BY <2>1 DEF General, WireOK
  <2> QED BY <2>1, <2>2, ChangedGeneral
<1> QED BY <1>1, <1>2, <1>3, <1>4, <1>5, <1>6, <1>7 DEF Next, SystemStep, CallStep, UserStep, Fault

LEMMA GeneralInit ==
    ASSUME Init PROVE General
<1>1. calls = <<>> /\ faults = 0 /\ calls \in Seq(Call) /\ DOMAIN calls = {}
  BY DEF Init
<1>2. wire \in [Pair -> Seq(Signal)] /\ \A p \in Pair : DOMAIN wire[p] = {}
  BY DEF Init
<1> QED BY <1>1, <1>2 DEF General, WireOK

\* Every field of every call has its type, and no operation waiting at a peer
\* connection adds a candidate before there is a remote description (connection.ts
\* 63-75), whatever is lost, reloaded or sent at once.
THEOREM ConnectionTypeCorrect == Spec => []TypeOK
<1>1. Init => General
  BY GeneralInit
<1>2. General /\ [Next]_vars => General'
  BY GeneralStays
<1>3. General => TypeOK
  BY DEF General, WireOK, TypeOK, Good, CallOK
<1> QED BY <1>1, <1>2, <1>3, PTL DEF Spec

-----------------------------------------------------------------------------
(* A send that nothing disturbs, stage by stage: call i of a page a to its *)
(* peer b among the calls cs, with the signals t on their way there and r  *)
(* on their way back.                                                      *)

\* What waits at a connection neither makes nor sets an offer, nor an answer.
IdleOp(o) ==
    \/ o.op = "addCandidate" /\ o.then # "offer"
    \/ o.op = "setRemote" /\ o.desc.kind = "answer"
Idle(c) == \A m \in DOMAIN c.ops : IdleOp(c.ops[m])

\* The caller's end.
NoCur == [local |-> NoDesc, remote |-> NoDesc]
Unsent(c, i) ==
    /\ c.sig = "stable" /\ c.cur = NoCur /\ ~c.remoteDescriptionSet /\ c.state = "connecting"
    /\ c.pendingCandidates = <<>>
    /\ c.ops = <<[op |-> "createOffer"]>> \/ c.ops = <<[op |-> "setLocal", desc |-> OfferOf(i)]>>
Waiting(c, i) ==
    /\ c.sig = "have-local-offer" /\ c.pend = OfferOf(i)
    /\ c.cur = NoCur /\ ~c.remoteDescriptionSet /\ c.state = "connecting"
    /\ Idle(c)
Agreed(c, i) ==
    /\ c.sig = "stable" /\ c.remoteDescriptionSet /\ c.state \in {"connecting", "open"}
    /\ c.cur.local = OfferOf(i) /\ c.cur.remote # NoDesc
    /\ Idle(c)

\* Call k of the peer, about the offer off.
Extra(o) == o.op = "addCandidate" /\ o.then = "done"
Main(c, k, off, o) ==
    \/ o.op = "setRemote" /\ o.desc = off
    \/ /\ c.sig = "have-remote-offer" /\ c.pend = off
       /\ \/ o.op = "addCandidate" /\ o.then = "offer"
          \/ o.op = "createAnswer"
          \/ o.op = "setLocal" /\ o.desc = AnswerOf(k, off)
Untouched(c, off) == c.ops = <<>> /\ c.cur.remote # off /\ c.pend # off
Answering(c, k, off) ==
    /\ ~c.initiator /\ c.cur.remote # off
    /\ \E m \in DOMAIN c.ops :
          Main(c, k, off, c.ops[m]) /\ \A j \in DOMAIN c.ops : j # m => Extra(c.ops[j])
GaveUp(c, off) ==
    /\ ~c.initiator /\ c.cur.remote # off /\ c.sig = "have-remote-offer" /\ c.pend = off
    /\ \A m \in DOMAIN c.ops : Extra(c.ops[m])
AnswerMade(c, k, off) ==
    /\ ~c.initiator /\ c.state # "gone" /\ c.sig = "stable"
    /\ c.cur.local = AnswerOf(k, off) /\ c.cur.remote = off
    /\ \A m \in DOMAIN c.ops : Extra(c.ops[m])
\* No candidate it has is of another call, so its handler does not end early.
Pure(c, off) ==
    /\ \A m \in DOMAIN c.pendingCandidates : c.pendingCandidates[m].of = off
    /\ \A m \in DOMAIN c.ops : c.ops[m].op = "addCandidate" => c.ops[m].of = off

OfCaller(c, a, b) == c.page = a /\ c.peer = b
OfPeer(c, a, b) == c.page = b /\ c.peer = a

\* d is an answer to call i that a call of the peer has agreed on.
AnswerTo(i, a, b, cs, d) ==
    /\ d.by \in DOMAIN cs /\ d = AnswerOf(d.by, OfferOf(i))
    /\ OfPeer(cs[d.by], a, b) /\ AnswerMade(cs[d.by], d.by, OfferOf(i))

\* The caller's other calls to this peer only wait for what is theirs.
Beside(i, a, b, cs) == \A k \in DOMAIN cs : OfCaller(cs[k], a, b) /\ k # i => Idle(cs[k])

\* The peer has not taken the offer.
Offering(i, a, b, cs, t, r) ==
    /\ r = <<>>
    /\ \/ Unsent(cs[i], i) /\ t = <<>>
       \/ /\ Waiting(cs[i], i) /\ cs[i].ops = <<>> /\ cs[i].pendingCandidates = <<>>
          /\ t = <<OfferOf(i), Candidate(OfferOf(i))>>
    /\ \A k \in DOMAIN cs : OfPeer(cs[k], a, b) =>
          Untouched(cs[k], OfferOf(i)) /\ (cs[k].initiator => ~cs[k].subscribed)

\* The calls of the peer that took it answer, and one of them for certain.
PeerSide(i, a, b, cs) ==
    /\ \A k \in DOMAIN cs : OfPeer(cs[k], a, b) =>
          \/ Untouched(cs[k], OfferOf(i)) /\ ~cs[k].subscribed
          \/ Answering(cs[k], k, OfferOf(i)) \/ GaveUp(cs[k], OfferOf(i)) \/ AnswerMade(cs[k], k, OfferOf(i))
    /\ \E k \in DOMAIN cs :
          /\ OfPeer(cs[k], a, b) /\ Pure(cs[k], OfferOf(i))
          /\ Answering(cs[k], k, OfferOf(i)) \/ AnswerMade(cs[k], k, OfferOf(i))

\* Each answer on its way back has its candidate right behind it.
AnswersBack(i, a, b, cs, r) ==
    \A m \in DOMAIN r :
        \/ IsCandidate(r[m])
        \/ AnswerTo(i, a, b, cs, r[m]) /\ m + 1 \in DOMAIN r /\ r[m + 1] = Candidate(r[m])

\* The first answer the caller got waits at its connection, and the candidate of
\* that answer waits for it, or comes next; or there is no answer yet.
FirstAnswer(i, a, b, cs, r) ==
    \/ /\ cs[i].ops = <<>> /\ cs[i].pendingCandidates = <<>>
       /\ \/ r # <<>> /\ ~IsCandidate(Head(r))
          \/ r = <<>> /\ \A k \in DOMAIN cs : OfPeer(cs[k], a, b) => ~AnswerMade(cs[k], k, OfferOf(i))
    \/ /\ cs[i].ops # <<>> /\ cs[i].pendingCandidates # <<>>
       /\ Head(cs[i].pendingCandidates) = Candidate(Head(cs[i].ops).desc)
    \/ /\ cs[i].ops # <<>> /\ cs[i].pendingCandidates = <<>>
       /\ r # <<>> /\ Head(r) = Candidate(Head(cs[i].ops).desc)

\* One end has been given a candidate of the other, or the caller will be.
Reached(i, cs) ==
    \/ cs[i].cur.remote \in cs[i].added
    \/ OfferOf(i) \in cs[cs[i].cur.remote.by].added
Reaching(i, cs, r) ==
    \/ Reached(i, cs)
    \/ cs[i].subscribed /\ \E m \in DOMAIN cs[i].ops :
          cs[i].ops[m].op = "addCandidate" /\ cs[i].ops[m].of = cs[i].cur.remote
    \/ cs[i].subscribed /\ \E m \in DOMAIN r : r[m] = Candidate(cs[i].cur.remote)

CallerSide(i, a, b, cs, r) ==
    /\ \A m \in DOMAIN cs[i].ops : cs[i].ops[m].op = "setRemote" => AnswerTo(i, a, b, cs, cs[i].ops[m].desc)
    /\ \/ Waiting(cs[i], i) /\ FirstAnswer(i, a, b, cs, r)
       \/ Agreed(cs[i], i) /\ AnswerTo(i, a, b, cs, cs[i].cur.remote) /\ Reaching(i, cs, r)

Exchanging(i, a, b, cs, t, r) ==
    /\ t = <<>> \/ t = <<Candidate(OfferOf(i))>>
    /\ CallerSide(i, a, b, cs, r) /\ AnswersBack(i, a, b, cs, r) /\ PeerSide(i, a, b, cs)

Negotiates(i, a, b, cs, t, r) ==
    /\ cs[i].page = a /\ cs[i].peer = b /\ cs[i].initiator
    /\ Beside(i, a, b, cs)
    /\ Offering(i, a, b, cs, t, r) \/ Exchanging(i, a, b, cs, t, r)

\* The channel is open at both ends, which wait for nothing any more.
Done(c) == c.state = "open" /\ c.sig = "stable" /\ Idle(c)
Joined(i, cs) ==
    /\ Done(cs[i]) /\ cs[i].cur.remote.kind = "answer" /\ cs[i].cur.remote.to = i
    /\ \E j \in DOMAIN cs :
          /\ Done(cs[j]) /\ ~cs[j].initiator /\ cs[j].page = cs[i].peer
          /\ cs[i].cur.local # NoDesc
          /\ cs[i].cur.local = cs[j].cur.remote /\ cs[i].cur.remote = cs[j].cur.local

SendGoes(i, cs, w) ==
    \/ Joined(i, cs)
    \/ Negotiates(i, cs[i].page, cs[i].peer, cs,
                  w[<<cs[i].page, cs[i].peer>>], w[<<cs[i].peer, cs[i].page>>])
SendsInv == \A i \in DOMAIN calls : Undisturbed(i) => SendGoes(i, calls, wire)

-----------------------------------------------------------------------------
(* What one operation or one signal does to a call that waits, and to one  *)
(* that answers.                                                           *)

\* Operation r comes after the first of q, with x behind it or not.
LEMMA Behind ==
    ASSUME NEW q \in Seq(Operation), q # <<>>, NEW r, NEW x \in Operation,
           r = Tail(q) \/ r = Append(Tail(q), x)
    PROVE  /\ \A m \in DOMAIN q : m # 1 => m - 1 \in DOMAIN r /\ r[m - 1] = q[m]
           /\ \A m \in DOMAIN r :
                 \/ m + 1 \in DOMAIN q /\ m + 1 # 1 /\ r[m] = q[m + 1]
                 \/ r = Append(Tail(q), x) /\ m = Len(q) /\ r[m] = x
           /\ r = Append(Tail(q), x) => Len(q) \in DOMAIN r /\ r[Len(q)] = x
<1>1. PICK p : p = Tail(q)
  OBVIOUS
<1>2. /\ p \in Seq(Operation) /\ Len(q) = Len(p) + 1 /\ Len(p) \in Nat
      /\ \A m \in DOMAIN p : m \in Nat \ {0} /\ m + 1 \in DOMAIN q /\ p[m] = q[m + 1]
      /\ \A m \in DOMAIN q : m \in Nat \ {0} /\ (m # 1 => m - 1 \in DOMAIN p /\ p[m - 1] = q[m])
  BY <1>1
<1>3. CASE r = p
  <2>1. p # Append(p, x)
    BY <1>2
  <2>2. r # Append(Tail(q), x)
    BY <1>1, <1>3, <2>1
  <2>3. \A m \in DOMAIN q : m # 1 => m - 1 \in DOMAIN r /\ r[m - 1] = q[m]
    BY <1>2, <1>3
  <2>4. \A m \in DOMAIN r : m + 1 \in DOMAIN q /\ m + 1 # 1 /\ r[m] = q[m + 1]
    BY <1>2, <1>3
  <2> QED BY <2>2, <2>3, <2>4
<1>4. CASE r = Append(p, x)
  <2>1. /\ DOMAIN r = DOMAIN p \cup {Len(p) + 1} /\ r[Len(p) + 1] = x
        /\ \A m \in DOMAIN p : r[m] = p[m]
    BY <1>2, <1>4, Put
  <2> QED BY <1>1, <1>2, <1>4, <2>1
<1> QED BY <1>1, <1>3, <1>4

\* What draining adds to the operations.
Drains(c, o, then) ==
    \/ /\ c.pendingCandidates # <<>> /\ o.op = "addCandidate"
       /\ o.of = Head(c.pendingCandidates).of /\ o.then = then
    \/ c.pendingCandidates = <<>> /\ then = "offer" /\ o.op = "createAnswer"

LEMMA DrainedIs ==
    ASSUME NEW c, CallOK(c), NEW d, NEW rest, NEW then \in {"done", "offer", "answer"},
           Drained(c, d, rest, then)
    PROVE  /\ \A m \in DOMAIN d.pendingCandidates : \E j \in DOMAIN c.pendingCandidates :
                 d.pendingCandidates[m] = c.pendingCandidates[j]
           /\ \/ d.ops = rest /\ then # "offer" /\ c.pendingCandidates = <<>>
              \/ \E o \in Operation : d.ops = Append(rest, o) /\ Drains(c, o, then)
<1>1. PICK q \in Seq(Signal) : q = c.pendingCandidates
  BY CallFields DEF CallOK
<1>2. \A m \in DOMAIN q : IsCandidate(q[m])
  BY <1>1 DEF CallOK
<1>3. CASE q # <<>>
  <2>1. PICK s : s = Head(q)
    OBVIOUS
  <2>2. s \in Signal /\ IsCandidate(s) /\ \A m \in DOMAIN Tail(q) : m + 1 \in DOMAIN q /\ Tail(q)[m] = q[m + 1]
    BY <1>2, <1>3, <2>1, Rest
  <2>3. PICK o \in Operation : o = [op |-> "addCandidate", of |-> s.of, then |-> then]
    BY <2>2, SignalTypes, OperationTypes
  <2>4. o.op = "addCandidate" /\ o.of = s.of /\ o.then = then
    BY <2>3
  <2>5. d.pendingCandidates = Tail(q) /\ d.ops = Append(rest, o)
    BY <1>1, <1>3, <2>1, <2>3 DEF Drained
  <2>6. Drains(c, o, then)
    BY <1>1, <1>3, <2>1, <2>4 DEF Drains
  <2> QED BY <1>1, <2>2, <2>5, <2>6
<1>4. CASE q = <<>> /\ then = "offer"
  <2>1. PICK o \in Operation : o = [op |-> "createAnswer"]
    BY OperationTypes
  <2>2. o.op = "createAnswer"
    BY <2>1
  <2>3. d.pendingCandidates = <<>> /\ d.ops = Append(rest, o)
    BY <1>1, <1>4, <2>1 DEF Drained
  <2>4. Drains(c, o, then)
    BY <1>1, <1>4, <2>2 DEF Drains
  <2> QED BY <1>1, <1>4, <2>3, <2>4
<1>5. CASE q = <<>> /\ then # "offer"
  BY <1>1, <1>5 DEF Drained
<1> QED BY <1>3, <1>4, <1>5

LEMMA GrowingAdded ==
    ASSUME NEW k, NEW c, NEW d, NEW sent, Settling(k, c, d, sent)
    PROVE  c.added \subseteq d.added
  BY DEF Settling, OfferCreated, AnswerCreated, OfferSet, AnswerSet, OfferTaken, AnswerTaken, CandidateAdded,
         SameCandidates

LEMMA IdleSettles ==
    ASSUME NEW k, NEW c, NEW d, NEW sent, CallOK(c), Settling(k, c, d, sent), Idle(c)
    PROVE  /\ Idle(d) /\ sent = <<>> /\ d.state = c.state
           /\ c.sig # "have-local-offer" =>
                 SameDescriptions(c, d) /\ d.remoteDescriptionSet = c.remoteDescriptionSet
           /\ \A m \in DOMAIN c.ops : m # 1 => m - 1 \in DOMAIN d.ops /\ d.ops[m - 1] = c.ops[m]
           /\ \A m \in DOMAIN d.ops : d.ops[m].op = "setRemote" => OldOp(c, d.ops[m])
<1>1. PICK q \in Seq(Operation) : q = c.ops
  BY CallFields DEF CallOK
<1>2. q # <<>>
  BY <1>1 DEF Settling
<1>3. PICK h : h = Head(q)
  OBVIOUS
<1>4. h \in Operation /\ 1 \in DOMAIN q /\ h = q[1]
  BY <1>2, <1>3, Rest
<1>5. IdleOp(h)
  BY <1>1, <1>4 DEF Idle
<1>6. /\ sent = <<>> /\ d.state = c.state
      /\ c.sig # "have-local-offer" =>
            SameDescriptions(c, d) /\ d.remoteDescriptionSet = c.remoteDescriptionSet
  BY <1>1, <1>3, <1>5 DEF IdleOp, Settling, OfferCreated, AnswerCreated, OfferSet, AnswerSet, OfferTaken,
     AnswerTaken, CandidateAdded
<1>7. \/ d.ops = Tail(q)
      \/ \E then \in {"done", "answer"} : Drained(c, d, Tail(q), then)
  <2>1. h.op = "addCandidate" => h.then \in {"done", "answer"}
    BY <1>4, <1>5, OperationFields DEF IdleOp
  <2>2. CASE CandidateAdded(c, d, sent)
    BY <1>1, <1>3, <2>1, <2>2 DEF CandidateAdded
  <2>3. CASE AnswerTaken(c, d, sent)
    BY <1>1, <1>3, <2>3 DEF AnswerTaken
  <2> QED
    BY <1>1, <1>3, <1>5, <2>2, <2>3
       DEF IdleOp, Settling, OfferCreated, AnswerCreated, OfferSet, AnswerSet, OfferTaken
<1>8. PICK x \in Operation : /\ d.ops = Tail(q) \/ d.ops = Append(Tail(q), x)
                             /\ d.ops = Append(Tail(q), x) => IdleOp(x) /\ x.op = "addCandidate"
  <2>1. CASE d.ops = Tail(q)
    <3>1. Tail(q) \in Seq(Operation) /\ Tail(q) # Append(Tail(q), h)
      BY <1>2, <1>4
    <3> QED BY <1>4, <2>1, <3>1
  <2>2. ASSUME NEW then \in {"done", "answer"}, Drained(c, d, Tail(q), then)
        PROVE  d.ops = Tail(q) \/ \E x \in Operation : d.ops = Append(Tail(q), x) /\ IdleOp(x) /\ x.op = "addCandidate"
    <3>1. then \in {"done", "offer", "answer"} /\ then # "offer"
      BY <2>2
    <3>2. PICK u \in {"done", "offer", "answer"} : u = then
      BY <3>1
    <3>3. PICK rest : rest = Tail(q)
      OBVIOUS
    <3>4. Drained(c, d, rest, u) /\ CallOK(c)
      BY <2>2, <3>2, <3>3
    <3>5. d.ops = rest \/ \E x \in Operation : d.ops = Append(rest, x) /\ Drains(c, x, u)
      BY <3>4, DrainedIs
    <3>6. \A x : Drains(c, x, u) => IdleOp(x) /\ x.op = "addCandidate"
      BY <3>1, <3>2 DEF Drains, IdleOp
    <3> QED BY <3>2, <3>3, <3>5, <3>6
  <2> QED BY <1>7, <2>1, <2>2
<1>9. /\ \A m \in DOMAIN q : m # 1 => m - 1 \in DOMAIN d.ops /\ d.ops[m - 1] = q[m]
      /\ \A m \in DOMAIN d.ops :
            \/ m + 1 \in DOMAIN q /\ d.ops[m] = q[m + 1]
            \/ IdleOp(d.ops[m]) /\ d.ops[m].op = "addCandidate"
  BY <1>2, <1>8, Behind
<1>10. Idle(d)
  BY <1>1, <1>9 DEF Idle
<1>11. \A m \in DOMAIN d.ops : d.ops[m].op = "setRemote" => OldOp(c, d.ops[m])
  BY <1>1, <1>9 DEF OldOp
<1> QED BY <1>1, <1>6, <1>9, <1>10, <1>11

LEMMA IdleTakes ==
    ASSUME NEW c \in Call, NEW s \in Signal, NEW d, Takes(c, d, s), Idle(c), IsCandidate(s) \/ s.kind = "answer"
    PROVE  Idle(d)
<1>1. \A m \in DOMAIN d.ops : (m \in DOMAIN c.ops /\ d.ops[m] = c.ops[m]) \/ Added(s, d.ops[m])
  BY TakesOps
<1>2. \A o : Added(s, o) => IdleOp(o)
  BY DEF Added, IdleOp
<1> QED BY <1>1, <1>2 DEF Idle

LEMMA ExtraSettles ==
    ASSUME NEW k, NEW c, NEW d, NEW sent, Settling(k, c, d, sent), Extra(Head(c.ops))
    PROVE  /\ d.ops = Tail(c.ops) /\ SameDescriptions(c, d) /\ d.state = c.state
           /\ d.pendingCandidates = c.pendingCandidates /\ sent = <<>>
<1>1. Head(c.ops).op = "addCandidate" /\ Head(c.ops).then = "done"
  BY DEF Extra
<1>2. CandidateAdded(c, d, sent)
  BY <1>1 DEF Settling, OfferCreated, AnswerCreated, OfferSet, AnswerSet, OfferTaken, AnswerTaken
<1> QED BY <1>1, <1>2 DEF CandidateAdded

LEMMA OfferFacts ==
    ASSUME NEW i \in Nat, NEW k \in Nat
    PROVE  /\ OfferOf(i) \in Description /\ OfferOf(i).kind = "offer" /\ OfferOf(i).by = i
           /\ OfferOf(i) # NoDesc /\ ~IsCandidate(OfferOf(i)) /\ OfferOf(i) \in Signal
           /\ AnswerOf(k, OfferOf(i)) \in Description /\ AnswerOf(k, OfferOf(i)).kind = "answer"
           /\ AnswerOf(k, OfferOf(i)).by = k /\ AnswerOf(k, OfferOf(i)).to = i
           /\ AnswerOf(k, OfferOf(i)) # NoDesc /\ ~IsCandidate(AnswerOf(k, OfferOf(i)))
           /\ Candidate(OfferOf(i)) \in Signal /\ IsCandidate(Candidate(OfferOf(i)))
           /\ Candidate(OfferOf(i)).of = OfferOf(i)
<1>1. OfferOf(i) \in Description /\ OfferOf(i).kind = "offer" /\ OfferOf(i).by = i /\ OfferOf(i) # NoDesc
  BY DescriptionTypes
<1>2. PICK o \in Description : o = OfferOf(i)
  BY <1>1
<1>3. /\ AnswerOf(k, o) \in Description /\ AnswerOf(k, o).kind = "answer"
      /\ AnswerOf(k, o).by = k /\ AnswerOf(k, o).to = o.by
  BY DescriptionTypes
<1>4. AnswerOf(k, o) # NoDesc
  BY <1>3, DescriptionTypes
<1> QED BY <1>1, <1>2, <1>3, <1>4, SignalTypes

\* A call that has answered, or given up, only adds what comes late.
LEMMA LateSettles ==
    ASSUME NEW k, NEW c, NEW d, NEW sent, CallOK(c), Lives(c), Settling(k, c, d, sent), NEW off,
           AnswerMade(c, k, off) \/ GaveUp(c, off)
    PROVE  /\ AnswerMade(c, k, off) => AnswerMade(d, k, off)
           /\ GaveUp(c, off) => GaveUp(d, off)
           /\ Pure(c, off) => Pure(d, off)
           /\ sent = <<>>
<1>1. PICK q \in Seq(Operation) : q = c.ops
  BY CallFields DEF CallOK
<1>2. q # <<>> /\ d.initiator = c.initiator /\ c.state # "gone"
  BY <1>1 DEF Settling, SameCall, Lives
<1>3. \A m \in DOMAIN q : Extra(q[m])
  BY <1>1 DEF AnswerMade, GaveUp
<1>4. 1 \in DOMAIN q /\ Head(q) = q[1] /\ \A m \in DOMAIN Tail(q) : m + 1 \in DOMAIN q /\ Tail(q)[m] = q[m + 1]
  BY <1>2, Rest
<1>5. /\ d.ops = Tail(q) /\ SameDescriptions(c, d) /\ d.state = c.state
      /\ d.pendingCandidates = c.pendingCandidates /\ sent = <<>>
  BY <1>1, <1>3, <1>4, ExtraSettles
<1>6. \A m \in DOMAIN d.ops : Extra(d.ops[m]) /\ \E j \in DOMAIN q : d.ops[m] = q[j]
  BY <1>3, <1>4, <1>5
<1>7. Pure(c, off) => Pure(d, off)
  BY <1>1, <1>5, <1>6 DEF Pure
<1> QED BY <1>2, <1>5, <1>6, <1>7 DEF AnswerMade, GaveUp, SameDescriptions

\* A call that is answering goes on, gives up because a candidate is not of this
\* offer, or has answered.
LEMMA AnsweringSettles ==
    ASSUME NEW i \in Nat, NEW off, off = OfferOf(i), NEW k \in Nat, NEW c, NEW d, NEW sent,
           CallOK(c), Lives(c), Settling(k, c, d, sent), Answering(c, k, off)
    PROVE  /\ \/ Answering(d, k, off) /\ sent = <<>>
              \/ GaveUp(d, off) /\ sent = <<>> /\ ~Pure(c, off)
              \/ AnswerMade(d, k, off) /\ sent = <<AnswerOf(k, off), Candidate(AnswerOf(k, off))>>
           /\ Pure(c, off) => Pure(d, off)
<1>1. PICK q \in Seq(Operation) : q = c.ops
  BY CallFields DEF CallOK
<1>2. /\ q # <<>> /\ d.initiator = c.initiator /\ c.state # "gone"
      /\ ~c.initiator /\ c.cur.remote # off /\ c \in Call /\ d \in Call
  BY <1>1 DEF Settling, SameCall, Lives, Answering, CallOK
<1>3. PICK n \in DOMAIN q : Main(c, k, off, q[n]) /\ \A j \in DOMAIN q : j # n => Extra(q[j])
  BY <1>1 DEF Answering
<1>4. PICK h : h = q[1]
  OBVIOUS
<1>5. 1 \in DOMAIN q /\ h = Head(q) /\ h = Head(c.ops) /\ h \in Operation
  BY <1>1, <1>2, <1>4, Rest
<1>6. off.kind = "offer" /\ off.by = i /\ AnswerOf(k, off).kind = "answer" /\ AnswerOf(k, off).to = i
  BY OfferFacts
<1>7. CASE n # 1
  <2>1. /\ d.ops = Tail(q) /\ SameDescriptions(c, d) /\ d.state = c.state
        /\ d.pendingCandidates = c.pendingCandidates /\ sent = <<>>
    BY <1>1, <1>3, <1>4, <1>5, <1>7, ExtraSettles
  <2>2. /\ \A m \in DOMAIN q : m # 1 => m - 1 \in DOMAIN d.ops /\ d.ops[m - 1] = q[m]
        /\ \A m \in DOMAIN d.ops : m \in Int /\ m + 1 \in DOMAIN q /\ d.ops[m] = q[m + 1]
    BY <1>2, <2>1, Rest
  <2>3. n - 1 \in DOMAIN d.ops /\ d.ops[n - 1] = q[n] /\ n \in Int
    BY <1>7, <2>2
  <2>4. \A j \in DOMAIN d.ops : j # n - 1 => Extra(d.ops[j])
    BY <1>3, <2>2, <2>3
  <2>5. Main(d, k, off, q[n])
    BY <1>3, <2>1 DEF Main, SameDescriptions
  <2>6. Answering(d, k, off)
    BY <1>2, <2>1, <2>3, <2>4, <2>5 DEF Answering, SameDescriptions
  <2>7. Pure(c, off) => Pure(d, off)
    BY <1>1, <2>1, <2>2 DEF Pure
  <2> QED BY <2>1, <2>6, <2>7
<1>8. CASE n = 1
  <2>1. Main(c, k, off, h) /\ \A j \in DOMAIN q : j # 1 => Extra(q[j])
    BY <1>3, <1>4, <1>8
  <2>2. ASSUME NEW o \in Operation, d.ops = Append(Tail(q), o), Main(d, k, off, o), d.cur.remote # off
        PROVE  Answering(d, k, off)
    <3>1. /\ \A m \in DOMAIN d.ops : (m + 1 \in DOMAIN q /\ m + 1 # 1 /\ d.ops[m] = q[m + 1]) \/ m = Len(q)
          /\ Len(q) \in DOMAIN d.ops /\ d.ops[Len(q)] = o
      BY <1>2, <2>2, Behind
    <3>2. \A j \in DOMAIN d.ops : j # Len(q) => Extra(d.ops[j])
      BY <2>1, <3>1
    <3> QED BY <1>2, <2>2, <3>1, <3>2 DEF Answering
  <2>3. ASSUME d.ops = Tail(q)
        PROVE  \A m \in DOMAIN d.ops : Extra(d.ops[m])
    BY <1>2, <2>1, <2>3, Rest
  <2>4. ASSUME NEW o \in Operation, d.ops = Append(Tail(q), o), o.op = "addCandidate" => o.of = off,
               \A m \in DOMAIN d.pendingCandidates : \E j \in DOMAIN c.pendingCandidates :
                   d.pendingCandidates[m] = c.pendingCandidates[j],
               Pure(c, off)
        PROVE  Pure(d, off)
    <3>1. \A m \in DOMAIN d.ops : (m + 1 \in DOMAIN q /\ d.ops[m] = q[m + 1]) \/ d.ops[m] = o
      BY <1>2, <2>4, Behind
    <3>2. ASSUME NEW m \in DOMAIN d.ops, d.ops[m].op = "addCandidate"
          PROVE  d.ops[m].of = off
      <4>1. CASE m + 1 \in DOMAIN q /\ d.ops[m] = q[m + 1]
        BY <1>1, <2>4, <3>2, <4>1 DEF Pure
      <4>2. CASE d.ops[m] = o
        BY <2>4, <3>2, <4>2
      <4> QED BY <3>1, <3>2, <4>1, <4>2
    <3> QED BY <2>4, <3>2 DEF Pure
  <2>5. ASSUME d.ops = Tail(q), d.pendingCandidates = c.pendingCandidates, Pure(c, off)
        PROVE  Pure(d, off)
    <3>1. \A m \in DOMAIN d.ops : m + 1 \in DOMAIN q /\ d.ops[m] = q[m + 1]
      BY <1>2, <2>5, Rest
    <3> QED BY <1>1, <2>5, <3>1 DEF Pure
  <2>6. ASSUME Drained(c, d, Tail(q), "offer"), d.sig = "have-remote-offer", d.pend = off, d.cur.remote # off
        PROVE  Answering(d, k, off) /\ (Pure(c, off) => Pure(d, off))
    <3>1. PICK then \in {"done", "offer", "answer"} : then = "offer"
      OBVIOUS
    <3>2. PICK rest : rest = Tail(q)
      OBVIOUS
    <3>3. Drained(c, d, rest, then)
      BY <2>6, <3>1, <3>2
    <3>4. /\ \A m \in DOMAIN d.pendingCandidates : \E j \in DOMAIN c.pendingCandidates :
               d.pendingCandidates[m] = c.pendingCandidates[j]
          /\ \E o \in Operation : d.ops = Append(rest, o) /\ Drains(c, o, then)
      BY <3>1, <3>3, DrainedIs
    <3>5. PICK o \in Operation : d.ops = Append(Tail(q), o) /\ Drains(c, o, "offer")
      BY <3>1, <3>2, <3>4
    <3>6. Main(d, k, off, o)
      BY <2>6, <3>5 DEF Drains, Main
    <3>7. Pure(c, off) /\ o.op = "addCandidate" => o.of = off
      <4>1. c.pendingCandidates # <<>> => 1 \in DOMAIN c.pendingCandidates /\ Head(c.pendingCandidates) = c.pendingCandidates[1]
        BY <1>2, CallFields, Rest
      <4> QED BY <3>5, <4>1 DEF Drains, Pure
    <3> QED BY <2>2, <2>4, <2>6, <3>4, <3>5, <3>6, <3>7
  <2>7. CASE h.op = "setRemote" /\ h.desc = off
    <3>1. OfferTaken(c, d, sent)
      BY <1>5, <1>6, <2>7 DEF Settling, OfferCreated, AnswerCreated, OfferSet, AnswerSet, AnswerTaken, CandidateAdded
    <3>2. Drained(c, d, Tail(q), "offer") /\ d.sig = "have-remote-offer" /\ d.pend = off /\ d.cur.remote # off /\ sent = <<>>
      BY <1>1, <1>2, <1>5, <2>7, <3>1 DEF OfferTaken
    <3> QED BY <2>6, <3>2
  <2>8. CASE h.op = "addCandidate" /\ h.then = "offer" /\ c.sig = "have-remote-offer" /\ c.pend = off
    <3>1. CandidateAdded(c, d, sent)
      BY <1>5, <2>8 DEF Settling, OfferCreated, AnswerCreated, OfferSet, AnswerSet, OfferTaken, AnswerTaken
    <3>2. d.sig = "have-remote-offer" /\ d.pend = off /\ d.cur.remote # off /\ sent = <<>>
      BY <1>2, <2>8, <3>1 DEF CandidateAdded, SameDescriptions
    <3>3. CASE Drained(c, d, Tail(q), "offer")
      BY <2>6, <3>2, <3>3
    <3>4. CASE ~Drained(c, d, Tail(q), "offer")
      <4>1. h.of \notin RemoteDescriptions(c) /\ d.ops = Tail(q) /\ d.pendingCandidates = c.pendingCandidates
        BY <1>1, <1>5, <2>8, <3>1, <3>4 DEF CandidateAdded
      <4>2. off \in RemoteDescriptions(c)
        BY <2>8 DEF RemoteDescriptions
      <4>3. ~Pure(c, off)
        BY <1>1, <1>4, <1>5, <2>8, <4>1, <4>2 DEF Pure
      <4>4. GaveUp(d, off)
        BY <1>2, <2>3, <3>2, <4>1 DEF GaveUp
      <4> QED BY <3>2, <4>3, <4>4
    <3> QED BY <3>3, <3>4
  <2>9. CASE h.op = "createAnswer" /\ c.sig = "have-remote-offer" /\ c.pend = off
    <3>1. AnswerCreated(k, c, d, sent)
      BY <1>5, <2>9 DEF Settling, OfferCreated, OfferSet, AnswerSet, OfferTaken, AnswerTaken, CandidateAdded
    <3>2. PICK o \in Operation : o = [op |-> "setLocal", desc |-> AnswerOf(k, off)]
      BY OperationTypes, OfferFacts
    <3>3. o.op = "setLocal" /\ o.desc = AnswerOf(k, off)
      BY <3>2
    <3>4. d.ops = Append(Tail(q), o) /\ SameDescriptions(c, d) /\ d.pendingCandidates = c.pendingCandidates /\ sent = <<>>
      BY <1>1, <2>9, <3>1, <3>2 DEF AnswerCreated, SameCandidates
    <3>5. Main(d, k, off, o) /\ d.cur.remote # off
      BY <1>2, <2>9, <3>3, <3>4 DEF Main, SameDescriptions
    <3>6. Answering(d, k, off)
      BY <2>2, <3>4, <3>5
    <3>7. Pure(c, off) => Pure(d, off)
      BY <2>4, <3>3, <3>4
    <3> QED BY <3>4, <3>6, <3>7
  <2>10. CASE h.op = "setLocal" /\ h.desc = AnswerOf(k, off) /\ c.sig = "have-remote-offer" /\ c.pend = off
    <3>1. AnswerSet(c, d, sent)
      BY <1>5, <1>6, <2>10 DEF Settling, OfferCreated, AnswerCreated, OfferSet, OfferTaken, AnswerTaken, CandidateAdded
    <3>2. h.desc.to = c.pend.by
      BY <1>6, <2>10
    <3>3. /\ d.sig = "stable" /\ d.cur.local = AnswerOf(k, off) /\ d.cur.remote = off
          /\ sent = <<AnswerOf(k, off), Candidate(AnswerOf(k, off))>>
      BY <1>5, <2>10, <3>1, <3>2 DEF AnswerSet
    <3>4. d.ops = Tail(q) /\ d.state = c.state /\ d.pendingCandidates = c.pendingCandidates
      BY <1>1, <3>1 DEF AnswerSet, SameCandidates
    <3>5. AnswerMade(d, k, off)
      BY <1>2, <2>3, <3>3, <3>4 DEF AnswerMade
    <3> QED BY <2>5, <3>3, <3>4, <3>5
  <2> QED BY <2>1, <2>7, <2>8, <2>9, <2>10 DEF Main
<1> QED BY <1>7, <1>8

-----------------------------------------------------------------------------
(* The calls of the peer: what a step does to one of them. *)

PeerCall(c, k, off) ==
    \/ Untouched(c, off) /\ ~c.subscribed
    \/ Answering(c, k, off) \/ GaveUp(c, off) \/ AnswerMade(c, k, off)
Lead(c, k, off) == Pure(c, off) /\ (Answering(c, k, off) \/ AnswerMade(c, k, off))

Onward(c, d, k, off) ==
    /\ d.page = c.page /\ d.peer = c.peer /\ c.added \subseteq d.added
    /\ PeerCall(c, k, off) => PeerCall(d, k, off)
    /\ Lead(c, k, off) => Lead(d, k, off)
    /\ AnswerMade(c, k, off) => AnswerMade(d, k, off)

LEMMA OnwardSame ==
    ASSUME NEW c, NEW d, NEW k, NEW off, Marked(c, d) \/ Opened(c, d) \/ d = c
    PROVE  Onward(c, d, k, off) /\ (AnswerMade(d, k, off) => AnswerMade(c, k, off))
<1>1. CASE d = c
  BY <1>1 DEF Onward
<1>2. CASE Marked(c, d) \/ Opened(c, d)
  <2>1. /\ d.page = c.page /\ d.peer = c.peer /\ d.initiator = c.initiator /\ d.ops = c.ops
        /\ d.sig = c.sig /\ d.pend = c.pend /\ d.cur = c.cur /\ d.added = c.added
        /\ d.pendingCandidates = c.pendingCandidates
        /\ d.state = "gone" <=> c.state = "gone"
        /\ ~c.subscribed => ~d.subscribed
    BY <1>2 DEF Marked, Opened, SameNegotiation, SameDescriptions, SameCandidates
  <2>2. /\ Pure(c, off) <=> Pure(d, off)
        /\ Untouched(c, off) <=> Untouched(d, off)
        /\ GaveUp(c, off) <=> GaveUp(d, off)
        /\ AnswerMade(c, k, off) <=> AnswerMade(d, k, off)
    BY <2>1 DEF Pure, Untouched, GaveUp, AnswerMade
  <2>3. Answering(c, k, off) <=> Answering(d, k, off)
    BY <2>1 DEF Answering, Main
  <2> QED BY <2>1, <2>2, <2>3 DEF Onward, PeerCall, Lead
<1> QED BY <1>1, <1>2

LEMMA OnwardSettles ==
    ASSUME NEW i \in Nat, NEW off, off = OfferOf(i), NEW k \in Nat, NEW c, NEW d, NEW sent,
           CallOK(c), Lives(c), Settling(k, c, d, sent), PeerCall(c, k, off)
    PROVE  /\ Onward(c, d, k, off)
           /\ \/ sent = <<>> /\ (AnswerMade(d, k, off) => AnswerMade(c, k, off))
              \/ /\ sent = <<AnswerOf(k, off), Candidate(AnswerOf(k, off))>>
                 /\ AnswerMade(d, k, off)
<1>1. c.ops # <<>> /\ d.page = c.page /\ d.peer = c.peer /\ c.added \subseteq d.added
  BY GrowingAdded DEF Settling, SameCall
<1>2. CASE AnswerMade(c, k, off) \/ GaveUp(c, off)
  <2>1. /\ AnswerMade(c, k, off) => AnswerMade(d, k, off)
        /\ GaveUp(c, off) => GaveUp(d, off)
        /\ Pure(c, off) => Pure(d, off)
        /\ sent = <<>>
    BY <1>2, LateSettles
  <2>2. GaveUp(d, off) => ~AnswerMade(d, k, off)
    BY DEF GaveUp, AnswerMade
  <2>3. GaveUp(c, off) => ~Answering(c, k, off)
    BY DEF GaveUp, Answering, Main, Extra
  <2> QED BY <1>1, <1>2, <2>1, <2>2, <2>3 DEF Onward, PeerCall, Lead
<1>3. CASE Answering(c, k, off)
  <2>1. /\ \/ Answering(d, k, off) /\ sent = <<>>
           \/ GaveUp(d, off) /\ sent = <<>> /\ ~Pure(c, off)
           \/ AnswerMade(d, k, off) /\ sent = <<AnswerOf(k, off), Candidate(AnswerOf(k, off))>>
        /\ Pure(c, off) => Pure(d, off)
    BY <1>3, AnsweringSettles
  <2>2. (GaveUp(d, off) \/ Answering(d, k, off)) => ~AnswerMade(d, k, off)
    BY DEF GaveUp, AnswerMade, Answering
  <2>3. ~AnswerMade(c, k, off)
    BY <1>3 DEF Answering, AnswerMade
  <2> QED BY <1>1, <1>3, <2>1, <2>2, <2>3 DEF Onward, PeerCall, Lead
<1> QED BY <1>1, <1>2, <1>3 DEF PeerCall, Untouched

\* The candidate of the offer reaches a call of the peer.
LEMMA OnwardTakes ==
    ASSUME NEW k, NEW c \in Call, NEW d, NEW s \in Signal, IsCandidate(s), NEW off, s.of = off, Takes(c, d, s),
           c.subscribed
    PROVE  Onward(c, d, k, off) /\ (AnswerMade(d, k, off) => AnswerMade(c, k, off))
<1>1. /\ d.page = c.page /\ d.peer = c.peer /\ d.initiator = c.initiator /\ d.added = c.added
      /\ d.sig = c.sig /\ d.pend = c.pend /\ d.cur = c.cur /\ d.state = c.state
  BY DEF Takes, SameCall, SameDescriptions
<1>2. /\ \A m \in DOMAIN d.ops : (m \in DOMAIN c.ops /\ d.ops[m] = c.ops[m]) \/ Added(s, d.ops[m])
      /\ \A m \in DOMAIN c.ops : m \in DOMAIN d.ops /\ d.ops[m] = c.ops[m]
  BY TakesOps
<1>3. \A o : Added(s, o) => Extra(o) /\ o.op = "addCandidate" /\ o.of = off
  BY DEF Added, Extra
<1>4. \A o : Main(c, k, off, o) => Main(d, k, off, o)
  BY <1>1 DEF Main
<1>5. ASSUME Answering(c, k, off)
      PROVE  Answering(d, k, off)
  <2>1. PICK m \in DOMAIN c.ops : Main(c, k, off, c.ops[m]) /\ \A j \in DOMAIN c.ops : j # m => Extra(c.ops[j])
    BY <1>5 DEF Answering
  <2>2. m \in DOMAIN d.ops /\ Main(d, k, off, d.ops[m])
    BY <1>2, <1>4, <2>1
  <2>3. \A j \in DOMAIN d.ops : j # m => Extra(d.ops[j])
    BY <1>2, <1>3, <2>1
  <2> QED BY <1>1, <1>5, <2>2, <2>3 DEF Answering
<1>6. GaveUp(c, off) => GaveUp(d, off)
  BY <1>1, <1>2, <1>3 DEF GaveUp
<1>7. AnswerMade(c, k, off) <=> AnswerMade(d, k, off)
  BY <1>1, <1>2, <1>3 DEF AnswerMade
<1>8. ASSUME Pure(c, off)
      PROVE  Pure(d, off)
  <2>1. \A m \in DOMAIN d.ops : d.ops[m].op = "addCandidate" => d.ops[m].of = off
    BY <1>2, <1>3, <1>8 DEF Pure
  <2>2. CASE d.pendingCandidates = c.pendingCandidates
    BY <1>8, <2>1, <2>2 DEF Pure
  <2>3. CASE d.pendingCandidates = Append(c.pendingCandidates, s)
    <3>1. \A m \in DOMAIN d.pendingCandidates :
             (m \in DOMAIN c.pendingCandidates /\ d.pendingCandidates[m] = c.pendingCandidates[m])
             \/ d.pendingCandidates[m] = s
      BY <2>3, CallFields, Put
    <3> QED BY <1>8, <2>1, <3>1 DEF Pure
  <2> QED BY <2>2, <2>3 DEF Takes
<1> QED BY <1>1, <1>5, <1>6, <1>7, <1>8 DEF Onward, PeerCall, Lead

\* The offer reaches a call of the peer that waits for one.
LEMMA OfferTakes ==
    ASSUME NEW i \in Nat, NEW k, NEW c \in Call, NEW d, NEW off, off = OfferOf(i), Takes(c, d, off),
           ~c.initiator, Untouched(c, off)
    PROVE  /\ d.page = c.page /\ d.peer = c.peer
           /\ Answering(d, k, off) /\ ~AnswerMade(d, k, off)
           /\ c.pendingCandidates = <<>> => Pure(d, off)
<1>1. off \in Description /\ off.kind = "offer" /\ ~IsCandidate(off)
  BY OfferFacts
<1>2. PICK o \in Operation : o = [op |-> "setRemote", desc |-> off]
  BY <1>1, OperationTypes
<1>3. o.op = "setRemote" /\ o.desc = off
  BY <1>2
<1>4. /\ d.page = c.page /\ d.peer = c.peer /\ d.initiator = c.initiator /\ d.cur = c.cur
      /\ d.pendingCandidates = c.pendingCandidates /\ d.ops = Append(<<>>, o)
  BY <1>1, <1>2 DEF Takes, SameCall, SameDescriptions, Untouched
<1>5. DOMAIN d.ops = {1} /\ d.ops[1] = o
  BY <1>4
<1>6. Main(d, k, off, o)
  BY <1>3 DEF Main
<1>7. ~c.initiator /\ d.cur.remote # off
  BY <1>4 DEF Untouched
<1> QED BY <1>3, <1>4, <1>5, <1>6, <1>7 DEF Answering, AnswerMade, Pure

-----------------------------------------------------------------------------
(* The calls cs become ds, the signals on their way back r become z. *)

Scene(i, a, b, cs) ==
    /\ cs \in Seq(Call) /\ i \in DOMAIN cs /\ a # b
    /\ \A k \in DOMAIN cs : Good(cs[k], k, Len(cs))

PeersGoOn(i, a, b, cs, ds) ==
    /\ \A k \in DOMAIN cs : OfPeer(cs[k], a, b) => k \in DOMAIN ds /\ Onward(cs[k], ds[k], k, OfferOf(i))
    /\ \A k \in DOMAIN ds : OfPeer(ds[k], a, b) => k \in DOMAIN cs /\ OfPeer(cs[k], a, b)
NoNewAnswer(i, a, b, cs, ds) ==
    \A k \in DOMAIN ds : OfPeer(ds[k], a, b) /\ AnswerMade(ds[k], k, OfferOf(i)) =>
        AnswerMade(cs[k], k, OfferOf(i))
CallersGoOn(i, a, b, cs, ds) ==
    \A k \in DOMAIN ds : OfCaller(ds[k], a, b) /\ k # i =>
        k \in DOMAIN cs /\ OfCaller(cs[k], a, b) /\ (Idle(cs[k]) => Idle(ds[k]))

LEMMA SceneFacts ==
    ASSUME NEW i, NEW a, NEW b, NEW cs, Scene(i, a, b, cs)
    PROVE  /\ i \in Nat /\ Len(cs) \in Nat /\ DOMAIN cs = 1..Len(cs)
           /\ \A k \in DOMAIN cs : /\ k \in Nat /\ k <= Len(cs) /\ cs[k] \in Call
                                   /\ CallOK(cs[k]) /\ Lives(cs[k]) /\ Own(cs[k], k, Len(cs))
  BY DEF Scene, Good

LEMMA PeersKept ==
    ASSUME NEW i, NEW a, NEW b, NEW cs, NEW ds, PeersGoOn(i, a, b, cs, ds)
    PROVE  /\ PeerSide(i, a, b, cs) => PeerSide(i, a, b, ds)
           /\ \A d : AnswerTo(i, a, b, cs, d) => AnswerTo(i, a, b, ds, d)
<1>1. \A k \in DOMAIN cs : OfPeer(cs[k], a, b) =>
          k \in DOMAIN ds /\ OfPeer(ds[k], a, b) /\ Onward(cs[k], ds[k], k, OfferOf(i))
  BY DEF PeersGoOn, Onward, OfPeer
<1>2. ASSUME PeerSide(i, a, b, cs)
      PROVE  PeerSide(i, a, b, ds)
  <2>1. \A k \in DOMAIN cs : OfPeer(cs[k], a, b) => PeerCall(cs[k], k, OfferOf(i))
    BY <1>2 DEF PeerSide, PeerCall
  <2>2. PICK k \in DOMAIN cs : OfPeer(cs[k], a, b) /\ Lead(cs[k], k, OfferOf(i))
    BY <1>2 DEF PeerSide, Lead
  <2>3. \A j \in DOMAIN ds : OfPeer(ds[j], a, b) => PeerCall(ds[j], j, OfferOf(i))
    BY <1>1, <2>1 DEF PeersGoOn, Onward
  <2>4. k \in DOMAIN ds /\ OfPeer(ds[k], a, b) /\ Lead(ds[k], k, OfferOf(i))
    BY <1>1, <2>2 DEF Onward
  <2> QED BY <2>3, <2>4 DEF PeerSide, PeerCall, Lead
<1>3. ASSUME NEW d, AnswerTo(i, a, b, cs, d)
      PROVE  AnswerTo(i, a, b, ds, d)
  BY <1>1, <1>3 DEF AnswerTo, Onward
<1> QED BY <1>2, <1>3

LEMMA BesideKept ==
    ASSUME NEW i, NEW a, NEW b, NEW cs, NEW ds, CallersGoOn(i, a, b, cs, ds), Beside(i, a, b, cs)
    PROVE  Beside(i, a, b, ds)
  BY DEF CallersGoOn, Beside

LEMMA BackKept ==
    ASSUME NEW i, NEW a, NEW b, NEW cs, NEW ds, PeersGoOn(i, a, b, cs, ds), NEW r, AnswersBack(i, a, b, cs, r)
    PROVE  AnswersBack(i, a, b, ds, r)
  BY PeersKept DEF AnswersBack

\* The first of the answers, or its candidate, arrives.
LEMMA BackShrinks ==
    ASSUME NEW i, NEW a, NEW b, NEW cs, NEW r \in Seq(Signal), r # <<>>, AnswersBack(i, a, b, cs, r)
    PROVE  /\ AnswersBack(i, a, b, cs, Tail(r))
           /\ \/ IsCandidate(Head(r))
              \/ /\ AnswerTo(i, a, b, cs, Head(r))
                 /\ Tail(r) # <<>> /\ Head(Tail(r)) = Candidate(Head(r))
<1>1. PICK z \in Seq(Signal) : z = Tail(r)
  BY Rest
<1>2. /\ 1 \in DOMAIN r /\ Head(r) = r[1]
      /\ \A m \in DOMAIN z : m \in Nat \ {0} /\ m + 1 \in DOMAIN r /\ z[m] = r[m + 1]
      /\ \A m \in DOMAIN r : m \in Nat \ {0} /\ (m # 1 => m - 1 \in DOMAIN z /\ z[m - 1] = r[m])
  BY <1>1, Rest
<1>3. ASSUME NEW m \in DOMAIN z, ~IsCandidate(z[m])
      PROVE  AnswerTo(i, a, b, cs, z[m]) /\ m + 1 \in DOMAIN z /\ z[m + 1] = Candidate(z[m])
  <2>1. m \in Nat \ {0} /\ m + 1 \in DOMAIN r /\ z[m] = r[m + 1]
    BY <1>2
  <2>2. AnswerTo(i, a, b, cs, r[m + 1]) /\ (m + 1) + 1 \in DOMAIN r /\ r[(m + 1) + 1] = Candidate(r[m + 1])
    BY <1>3, <2>1 DEF AnswersBack
  <2>3. PICK n : n = (m + 1) + 1
    OBVIOUS
  <2>4. n # 1 /\ n - 1 = m + 1 /\ n \in DOMAIN r
    BY <2>1, <2>2, <2>3
  <2> QED BY <1>2, <2>1, <2>2, <2>3, <2>4
<1>4. AnswersBack(i, a, b, cs, z)
  BY <1>3 DEF AnswersBack
<1>5. ASSUME ~IsCandidate(r[1])
      PROVE  AnswerTo(i, a, b, cs, r[1]) /\ z # <<>> /\ Head(z) = Candidate(r[1])
  <2>1. AnswerTo(i, a, b, cs, r[1]) /\ 2 \in DOMAIN r /\ r[2] = Candidate(r[1])
    BY <1>2, <1>5 DEF AnswersBack
  <2>2. 1 \in DOMAIN z /\ z[1] = r[2]
    BY <1>2, <2>1
  <2> QED BY <2>1, <2>2
<1> QED BY <1>1, <1>2, <1>4, <1>5

\* An answer is sent, and its candidate behind it.
LEMMA BackGrows ==
    ASSUME NEW i, NEW a, NEW b, NEW cs, NEW r \in Seq(Signal), AnswersBack(i, a, b, cs, r),
           NEW d \in Description, AnswerTo(i, a, b, cs, d), NEW z, z = r \o <<d, Candidate(d)>>
    PROVE  /\ AnswersBack(i, a, b, cs, z) /\ z \in Seq(Signal) /\ z # <<>>
           /\ \A m \in DOMAIN r : m \in DOMAIN z /\ z[m] = r[m]
           /\ Head(z) = IF r = <<>> THEN d ELSE Head(r)
<1>1. PICK e \in Signal : e = Candidate(d)
  BY SignalTypes
<1>2. PICK s \in Seq(Signal) : s = <<d, e>>
  <2>1. PICK f \in Signal : f = d
    BY SignalTypes
  <2>2. <<f, e>> \in Seq(Signal)
    OBVIOUS
  <2> QED BY <2>1, <2>2
<1>3. DOMAIN s = {1, 2} /\ s[1] = d /\ s[2] = Candidate(d) /\ IsCandidate(s[2]) /\ s # <<>> /\ Head(s) = d
  BY <1>1, <1>2, SignalTypes
<1>4. /\ z \in Seq(Signal) /\ Len(r) \in Nat /\ DOMAIN r = 1..Len(r)
      /\ \A m \in DOMAIN r : m \in DOMAIN z /\ z[m] = r[m]
      /\ \A m \in DOMAIN s : Len(r) + m \in DOMAIN z /\ z[Len(r) + m] = s[m]
      /\ \A m \in DOMAIN z : m \in DOMAIN r \/ (m - Len(r) \in DOMAIN s /\ z[m] = s[m - Len(r)])
      /\ r = <<>> => z = s
      /\ r # <<>> => z # <<>> /\ Head(z) = Head(r)
  <2>1. z = r \o s
    BY <1>1, <1>2
  <2>2. Len(r) \in Nat /\ DOMAIN r = 1..Len(r)
    OBVIOUS
  <2>3. z \in Seq(Signal)
    BY <2>1, JoinIs
  <2>4. \A m \in DOMAIN r : m \in DOMAIN z /\ z[m] = r[m]
    BY <2>1, JoinIs
  <2>5. \A m \in DOMAIN s : Len(r) + m \in DOMAIN z /\ z[Len(r) + m] = s[m]
    BY <2>1, JoinIs
  <2>6. \A m \in DOMAIN z : m \in DOMAIN r \/ (m - Len(r) \in DOMAIN s /\ z[m] = s[m - Len(r)])
    BY <2>1, JoinIs
  <2>7. (r = <<>> => z = s) /\ (r # <<>> => z # <<>> /\ Head(z) = Head(r))
    BY <2>1, JoinIs
  <2> QED BY <2>2, <2>3, <2>6, <2>7, <2>4, <2>5
<1>5. ASSUME NEW m \in DOMAIN z, ~IsCandidate(z[m])
      PROVE  AnswerTo(i, a, b, cs, z[m]) /\ m + 1 \in DOMAIN z /\ z[m + 1] = Candidate(z[m])
  <2>1. CASE m \in DOMAIN r
    BY <1>4, <1>5, <2>1 DEF AnswersBack
  <2>2. CASE m \notin DOMAIN r
    <3>1. m - Len(r) \in {1, 2} /\ z[m] = s[m - Len(r)]
      BY <1>3, <1>4, <2>2
    <3>2. m - Len(r) = 1
      BY <1>3, <1>5, <3>1
    <3>3. z \in Seq(Signal) /\ m \in Int /\ Len(r) \in Int
      BY <1>4
    <3>4. m = Len(r) + 1 /\ m + 1 = Len(r) + 2
      BY <3>2, <3>3
    <3> QED BY SMTT(30), <1>3, <1>4, <3>4
  <2> QED BY <2>1, <2>2
<1>6. AnswersBack(i, a, b, cs, z)
  BY <1>5 DEF AnswersBack
<1> QED BY <1>3, <1>4, <1>6

-----------------------------------------------------------------------------
(* The caller's end: what a step does to it. *)

Longer(i, a, b, cs, ds, r, z) ==
    /\ \A m \in DOMAIN r : m \in DOMAIN z /\ z[m] = r[m]
    /\ r # <<>> => z # <<>> /\ Head(z) = Head(r)
    /\ r = <<>> => \/ z # <<>> /\ ~IsCandidate(Head(z))
                   \/ z = <<>> /\ NoNewAnswer(i, a, b, cs, ds)

LEMMA ReachedKept ==
    ASSUME NEW i, NEW a, NEW b, NEW cs, NEW ds, PeersGoOn(i, a, b, cs, ds),
           AnswerTo(i, a, b, cs, cs[i].cur.remote), ds[i].cur = cs[i].cur, cs[i].added \subseteq ds[i].added,
           Reached(i, cs)
    PROVE  Reached(i, ds)
<1>1. PICK d : d = cs[i].cur.remote
  OBVIOUS
<1>2. cs[d.by].added \subseteq ds[d.by].added
  BY <1>1 DEF AnswerTo, PeersGoOn, Onward
<1> QED BY <1>1, <1>2 DEF Reached

LEMMA CallerWaits ==
    ASSUME NEW i, NEW a, NEW b, NEW cs, NEW ds, NEW r, NEW z, PeersGoOn(i, a, b, cs, ds),
           Longer(i, a, b, cs, ds, r, z), Marked(cs[i], ds[i]), CallerSide(i, a, b, cs, r)
    PROVE  CallerSide(i, a, b, ds, z)
<1>1. /\ ds[i].ops = cs[i].ops /\ ds[i].sig = cs[i].sig /\ ds[i].pend = cs[i].pend /\ ds[i].cur = cs[i].cur
      /\ ds[i].remoteDescriptionSet = cs[i].remoteDescriptionSet /\ ds[i].added = cs[i].added
      /\ ds[i].pendingCandidates = cs[i].pendingCandidates
      /\ ds[i].state = cs[i].state /\ ds[i].subscribed = cs[i].subscribed
  BY DEF Marked, SameNegotiation, SameDescriptions, SameCandidates
<1>2. \A m \in DOMAIN ds[i].ops : ds[i].ops[m].op = "setRemote" => AnswerTo(i, a, b, ds, ds[i].ops[m].desc)
  BY <1>1, PeersKept DEF CallerSide
<1>3. CASE Waiting(cs[i], i) /\ FirstAnswer(i, a, b, cs, r)
  <2>1. Waiting(ds[i], i)
    BY <1>1, <1>3 DEF Waiting, Idle
  <2>2. CASE cs[i].ops = <<>> /\ cs[i].pendingCandidates = <<>>
    <3>1. r = <<>> => \A k \in DOMAIN cs : OfPeer(cs[k], a, b) => ~AnswerMade(cs[k], k, OfferOf(i))
      BY <1>3, <2>2 DEF FirstAnswer
    <3>2. r # <<>> => ~IsCandidate(Head(r))
      BY <1>3, <2>2 DEF FirstAnswer
    <3>3. r = <<>> /\ NoNewAnswer(i, a, b, cs, ds) =>
             \A k \in DOMAIN ds : OfPeer(ds[k], a, b) => ~AnswerMade(ds[k], k, OfferOf(i))
      BY <3>1 DEF NoNewAnswer, PeersGoOn
    <3>4. FirstAnswer(i, a, b, ds, z)
      BY <1>1, <2>2, <3>2, <3>3 DEF FirstAnswer, Longer
    <3> QED BY <1>2, <2>1, <3>4 DEF CallerSide
  <2>3. CASE ~(cs[i].ops = <<>> /\ cs[i].pendingCandidates = <<>>)
    <3>1. FirstAnswer(i, a, b, ds, z)
      BY <1>1, <1>3, <2>3 DEF FirstAnswer, Longer
    <3> QED BY <1>2, <2>1, <3>1 DEF CallerSide
  <2> QED BY <2>2, <2>3
<1>4. CASE Agreed(cs[i], i) /\ AnswerTo(i, a, b, cs, cs[i].cur.remote) /\ Reaching(i, cs, r)
  <2>1. Agreed(ds[i], i)
    BY <1>1, <1>4 DEF Agreed, Idle
  <2>2. AnswerTo(i, a, b, ds, ds[i].cur.remote)
    BY <1>1, <1>4, PeersKept
  <2>3. Reached(i, cs) => Reached(i, ds)
    BY <1>1, <1>4, ReachedKept
  <2>4. Reaching(i, ds, z)
    BY <1>1, <1>4, <2>3 DEF Reaching, Longer
  <2> QED BY <1>2, <2>1, <2>2, <2>4 DEF CallerSide
<1> QED BY <1>3, <1>4 DEF CallerSide

\* Its channel opens.
LEMMA CallerOpens ==
    ASSUME NEW i, NEW a, NEW b, NEW cs, NEW ds, NEW r, PeersGoOn(i, a, b, cs, ds), Opened(cs[i], ds[i]),
           CallerSide(i, a, b, cs, r), Agreed(cs[i], i), Reached(i, cs)
    PROVE  CallerSide(i, a, b, ds, r)
<1>1. /\ ds[i].ops = cs[i].ops /\ ds[i].sig = cs[i].sig /\ ds[i].pend = cs[i].pend /\ ds[i].cur = cs[i].cur
      /\ ds[i].remoteDescriptionSet = cs[i].remoteDescriptionSet /\ ds[i].added = cs[i].added
      /\ ds[i].state \in {"open", cs[i].state}
  BY DEF Opened, SameNegotiation, SameDescriptions, SameCandidates
<1>2. \A m \in DOMAIN ds[i].ops : ds[i].ops[m].op = "setRemote" => AnswerTo(i, a, b, ds, ds[i].ops[m].desc)
  BY <1>1, PeersKept DEF CallerSide
<1>3. AnswerTo(i, a, b, cs, cs[i].cur.remote)
  BY DEF CallerSide, Agreed, Waiting
<1>4. Agreed(ds[i], i) /\ AnswerTo(i, a, b, ds, ds[i].cur.remote)
  BY <1>1, <1>3, PeersKept DEF Agreed, Idle
<1>5. Reached(i, ds)
  BY <1>1, <1>3, ReachedKept
<1> QED BY <1>2, <1>4, <1>5 DEF CallerSide, Reaching

\* An answer or a candidate arrives.
LEMMA CallerTakes ==
    ASSUME NEW i, NEW a, NEW b, NEW cs, NEW ds, NEW r \in Seq(Signal), r # <<>>,
           Scene(i, a, b, cs), PeersGoOn(i, a, b, cs, ds),
           cs[i].subscribed => Takes(cs[i], ds[i], Head(r)), ~cs[i].subscribed => ds[i] = cs[i],
           CallerSide(i, a, b, cs, r), AnswersBack(i, a, b, cs, r)
    PROVE  CallerSide(i, a, b, ds, Tail(r))
<1>1. PICK z \in Seq(Signal) : z = Tail(r)
  BY Rest
<1>2. PICK s \in Signal : s = Head(r)
  BY Rest
<1>3. /\ IsCandidate(s) \/ (AnswerTo(i, a, b, cs, s) /\ z # <<>> /\ Head(z) = Candidate(s) /\ s.kind = "answer")
      /\ \A m \in DOMAIN r : m # 1 => m - 1 \in DOMAIN z /\ z[m - 1] = r[m]
      /\ r[1] = s
  <2>1. IsCandidate(s) \/ (AnswerTo(i, a, b, cs, s) /\ z # <<>> /\ Head(z) = Candidate(s))
    BY <1>1, <1>2, BackShrinks
  <2>2. \A k, off : AnswerOf(k, off).kind = "answer"
    BY DEF AnswerOf
  <2>3. AnswerTo(i, a, b, cs, s) => s.kind = "answer"
    BY <2>2 DEF AnswerTo
  <2> QED BY <1>1, <1>2, <2>1, <2>3, Rest
<1>4. PICK c \in Call : c = cs[i]
  BY SceneFacts DEF Scene
<1>5. PICK d : d = ds[i]
  OBVIOUS
<1>6. CallOK(c) /\ Lives(c)
  BY <1>4, SceneFacts DEF Scene
<1>7. /\ \A m \in DOMAIN c.ops : c.ops[m].op = "setRemote" => AnswerTo(i, a, b, ds, c.ops[m].desc)
      /\ ~IsCandidate(s) => AnswerTo(i, a, b, ds, s)
  BY <1>3, <1>4, PeersKept DEF CallerSide
<1>8. CASE ~c.subscribed
  <2>1. d = c
    BY <1>4, <1>5, <1>8
  <2>2. c.state # "connecting"
    BY <1>6, <1>8 DEF Lives
  <2>3. Agreed(c, i) /\ AnswerTo(i, a, b, cs, c.cur.remote) /\ Reaching(i, cs, r)
    BY <1>4, <2>2 DEF CallerSide, Waiting
  <2>4. Reached(i, ds)
    <3>1. Reached(i, cs)
      BY <1>4, <1>8, <2>3 DEF Reaching
    <3> QED BY <1>4, <1>5, <2>1, <2>3, <3>1, ReachedKept
  <2>5. AnswerTo(i, a, b, ds, d.cur.remote)
    BY <2>1, <2>3, PeersKept
  <2> QED BY <1>1, <1>5, <1>7, <2>1, <2>3, <2>4, <2>5 DEF CallerSide, Reaching
<1>9. CASE c.subscribed
  <2>1. Takes(c, d, s)
    BY <1>2, <1>4, <1>5, <1>9
  <2>2. /\ \A m \in DOMAIN d.ops : (m \in DOMAIN c.ops /\ d.ops[m] = c.ops[m]) \/ Added(s, d.ops[m])
        /\ \A m \in DOMAIN c.ops : m \in DOMAIN d.ops /\ d.ops[m] = c.ops[m]
        /\ c.ops # <<>> => d.ops # <<>> /\ Head(d.ops) = Head(c.ops)
    BY <2>1, TakesOps
  <2>3. /\ d.sig = c.sig /\ d.pend = c.pend /\ d.cur = c.cur /\ d.added = c.added
        /\ d.remoteDescriptionSet = c.remoteDescriptionSet /\ d.state = c.state /\ d.subscribed
    BY <1>9, <2>1 DEF Takes, SameCall, SameDescriptions
  <2>4. \A m \in DOMAIN d.ops : d.ops[m].op = "setRemote" => AnswerTo(i, a, b, ds, d.ops[m].desc)
    <3>1. \A o : Added(s, o) /\ o.op = "setRemote" => ~IsCandidate(s) /\ o.desc = s
      BY DEF Added
    <3> QED BY <1>7, <2>2, <3>1
  <2>5. Idle(c) => Idle(d)
    BY <1>3, <2>1, IdleTakes
  <2>6. CASE Waiting(c, i) /\ FirstAnswer(i, a, b, cs, r)
    <3>1. Waiting(d, i)
      BY <2>3, <2>5, <2>6 DEF Waiting
    <3>2. ~c.remoteDescriptionSet
      BY <2>6 DEF Waiting
    <3>3. CASE c.ops = <<>> /\ c.pendingCandidates = <<>>
      <4>1. ~IsCandidate(s)
        BY <1>2, <1>4, <2>6, <3>3 DEF FirstAnswer
      <4>2. PICK o \in Operation : o = [op |-> "setRemote", desc |-> s]
        BY <4>1, SignalTypes, OperationTypes
      <4>3. o.desc = s
        BY <4>2
      <4>4. d.pendingCandidates = <<>> /\ d.ops = Append(<<>>, o)
        BY <2>1, <3>3, <4>1, <4>2 DEF Takes
      <4>5. d.ops # <<>> /\ Head(d.ops) = o
        BY <4>4
      <4>6. FirstAnswer(i, a, b, ds, z)
        BY <1>3, <1>5, <4>1, <4>3, <4>4, <4>5 DEF FirstAnswer
      <4> QED BY <1>1, <1>5, <2>4, <3>1, <4>6 DEF CallerSide
    <3>4. CASE c.ops # <<>> /\ c.pendingCandidates # <<>> /\ Head(c.pendingCandidates) = Candidate(Head(c.ops).desc)
      <4>1. d.pendingCandidates # <<>> /\ Head(d.pendingCandidates) = Head(c.pendingCandidates)
        <5>1. c.pendingCandidates \in Seq(Signal)
          BY CallFields
        <5>2. CASE d.pendingCandidates = c.pendingCandidates
          BY <3>4, <5>2
        <5>3. CASE d.pendingCandidates = Append(c.pendingCandidates, s)
          <6>1. PICK q \in Seq(Signal) : q = c.pendingCandidates
            BY <5>1
          <6>2. PICK w : w = Append(q, s)
            OBVIOUS
          <6>3. w # <<>> /\ Head(w) = IF q = <<>> THEN s ELSE Head(q)
            BY <6>2, Put
          <6> QED BY <3>4, <5>3, <6>1, <6>2, <6>3
        <5> QED BY <2>1, <5>2, <5>3 DEF Takes
      <4>2. FirstAnswer(i, a, b, ds, z)
        BY <1>5, <2>2, <3>4, <4>1 DEF FirstAnswer
      <4> QED BY <1>1, <1>5, <2>4, <3>1, <4>2 DEF CallerSide
    <3>5. CASE c.ops # <<>> /\ c.pendingCandidates = <<>> /\ s = Candidate(Head(c.ops).desc)
      <4>1. IsCandidate(s)
        BY <3>5 DEF Candidate, IsCandidate
      <4>2. d.ops = c.ops /\ d.pendingCandidates = Append(<<>>, s)
        BY <2>1, <3>2, <3>5, <4>1 DEF Takes
      <4>3. d.pendingCandidates # <<>> /\ Head(d.pendingCandidates) = s
        BY <4>2
      <4>4. FirstAnswer(i, a, b, ds, z)
        BY <1>5, <3>5, <4>2, <4>3 DEF FirstAnswer
      <4> QED BY <1>1, <1>5, <2>4, <3>1, <4>4 DEF CallerSide
    <3> QED BY <1>2, <1>4, <2>6, <3>3, <3>4, <3>5 DEF FirstAnswer
  <2>7. CASE Agreed(c, i) /\ AnswerTo(i, a, b, cs, c.cur.remote) /\ Reaching(i, cs, r)
    <3>1. Agreed(d, i)
      BY <2>3, <2>5, <2>7 DEF Agreed
    <3>2. AnswerTo(i, a, b, ds, d.cur.remote)
      BY <2>3, <2>7, PeersKept
    <3>3. Reached(i, cs) => Reached(i, ds)
      BY <1>4, <1>5, <2>3, <2>7, ReachedKept
    <3>4. ASSUME NEW m \in DOMAIN c.ops, c.ops[m].op = "addCandidate", c.ops[m].of = c.cur.remote
          PROVE  Reaching(i, ds, z)
      BY <1>5, <2>2, <2>3, <3>4 DEF Reaching
    <3>5. ASSUME NEW m \in DOMAIN r, r[m] = Candidate(c.cur.remote)
          PROVE  Reaching(i, ds, z)
      <4>1. CASE m # 1
        BY <1>3, <1>5, <2>3, <3>5, <4>1 DEF Reaching
      <4>2. CASE m = 1
        <5>1. s = Candidate(c.cur.remote) /\ c.cur.remote \in Description
          BY <1>3, <3>5, <4>2, CallFields
        <5>2. IsCandidate(s) /\ s.of = c.cur.remote
          BY <5>1, SignalTypes
        <5>3. c.remoteDescriptionSet
          BY <2>7 DEF Agreed
        <5>4. PICK o \in Operation : o = [op |-> "addCandidate", of |-> s.of, then |-> "done"]
          BY <5>1, <5>2, OperationTypes
        <5>5. d.ops = Append(c.ops, o)
          BY <2>1, <5>2, <5>3, <5>4 DEF Takes
        <5>6. Len(c.ops) + 1 \in DOMAIN d.ops /\ d.ops[Len(c.ops) + 1] = o
          BY <5>5, CallFields, Put
        <5>7. o.op = "addCandidate" /\ o.of = d.cur.remote
          BY <2>3, <5>2, <5>4
        <5> QED BY <1>5, <2>3, <5>6, <5>7 DEF Reaching
      <4> QED BY <4>1, <4>2
    <3>6. Reaching(i, ds, z)
      BY <1>4, <2>7, <3>3, <3>4, <3>5 DEF Reaching
    <3> QED BY <1>1, <1>5, <2>4, <3>1, <3>2, <3>6 DEF CallerSide
  <2> QED BY <1>4, <2>6, <2>7 DEF CallerSide
<1> QED BY <1>8, <1>9

\* An operation of its own settles.
LEMMA CallerSettles ==
    ASSUME NEW i, NEW a, NEW b, NEW cs, NEW ds, NEW r \in Seq(Signal), NEW sent,
           Scene(i, a, b, cs), PeersGoOn(i, a, b, cs, ds), Settling(i, cs[i], ds[i], sent),
           CallerSide(i, a, b, cs, r)
    PROVE  CallerSide(i, a, b, ds, r) /\ sent = <<>>
<1>1. PICK c \in Call : c = cs[i]
  BY SceneFacts DEF Scene
<1>2. PICK d : d = ds[i]
  OBVIOUS
<1>3. CallOK(c) /\ Lives(c) /\ Settling(i, c, d, sent) /\ c.ops # <<>>
  BY <1>1, <1>2, SceneFacts DEF Scene, Settling
<1>4. Idle(c)
  BY <1>1 DEF CallerSide, Waiting, Agreed
<1>5. /\ Idle(d) /\ sent = <<>> /\ d.state = c.state
      /\ c.sig # "have-local-offer" =>
            SameDescriptions(c, d) /\ d.remoteDescriptionSet = c.remoteDescriptionSet
      /\ \A m \in DOMAIN c.ops : m # 1 => m - 1 \in DOMAIN d.ops /\ d.ops[m - 1] = c.ops[m]
      /\ \A m \in DOMAIN d.ops : d.ops[m].op = "setRemote" => OldOp(c, d.ops[m])
  BY <1>3, <1>4, IdleSettles
<1>6. d.subscribed = c.subscribed /\ c.added \subseteq d.added
  BY <1>3, GrowingAdded DEF Settling, SameCall
<1>7. \A m \in DOMAIN c.ops : c.ops[m].op = "setRemote" => AnswerTo(i, a, b, ds, c.ops[m].desc)
  BY <1>1, PeersKept DEF CallerSide
<1>8. \A m \in DOMAIN d.ops : d.ops[m].op = "setRemote" => AnswerTo(i, a, b, ds, d.ops[m].desc)
  BY <1>5, <1>7 DEF OldOp
<1>9. PICK h : h = Head(c.ops)
  OBVIOUS
<1>10. 1 \in DOMAIN c.ops /\ h = c.ops[1] /\ IdleOp(h) /\ c.ops \in Seq(Operation) /\ h \in Operation
  BY <1>3, <1>4, <1>9, CallFields, Rest DEF Idle
<1>11. CASE Waiting(c, i) /\ FirstAnswer(i, a, b, cs, r)
  <2>1. h.op = "setRemote" /\ h.desc.kind = "answer" /\ h.desc \in Description
    <3>1. h.op # "addCandidate"
      BY <1>3, <1>10, <1>11 DEF Waiting, CallOK
    <3> QED BY <1>10, <3>1, OperationFields DEF IdleOp
  <2>2. AnswerTaken(c, d, sent)
    BY <1>3, <1>9, <2>1 DEF Settling, OfferCreated, AnswerCreated, OfferSet, AnswerSet, OfferTaken, CandidateAdded
  <2>3. /\ d.remoteDescriptionSet /\ d.sig = "stable"
        /\ d.cur.local = OfferOf(i) /\ d.cur.remote = h.desc /\ Drained(c, d, Tail(c.ops), "answer")
    BY <1>9, <1>11, <2>2 DEF AnswerTaken, Waiting
  <2>4. h.desc # NoDesc
    BY <2>1, DescriptionTypes
  <2>5. d.state = "connecting" /\ c.subscribed
    BY <1>3, <1>5, <1>11 DEF Waiting, Lives
  <2>6. Agreed(d, i)
    BY <1>5, <2>3, <2>4, <2>5 DEF Agreed
  <2>7. AnswerTo(i, a, b, ds, d.cur.remote)
    BY <1>7, <1>10, <2>1, <2>3
  <2>8. CASE c.pendingCandidates # <<>> /\ Head(c.pendingCandidates) = Candidate(h.desc)
    <3>1. PICK o \in Operation : o = [op |-> "addCandidate", of |-> h.desc, then |-> "answer"]
      BY <2>1, OperationTypes
    <3>2. Head(c.pendingCandidates).of = h.desc
      BY <2>1, <2>8, SignalTypes
    <3>3. d.ops = Append(Tail(c.ops), o)
      BY <2>3, <2>8, <3>1, <3>2 DEF Drained
    <3>4. Len(c.ops) \in DOMAIN d.ops /\ d.ops[Len(c.ops)] = o
      BY <1>3, <1>10, <3>3, Behind
    <3>5. o.op = "addCandidate" /\ o.of = d.cur.remote
      BY <2>3, <3>1
    <3> QED BY <1>2, <1>5, <1>6, <1>8, <2>5, <2>6, <2>7, <3>4, <3>5 DEF CallerSide, Reaching
  <2>9. CASE r # <<>> /\ Head(r) = Candidate(h.desc)
    <3>1. 1 \in DOMAIN r /\ r[1] = Candidate(d.cur.remote)
      BY <2>3, <2>9, Rest
    <3> QED BY <1>2, <1>5, <1>6, <1>8, <2>5, <2>6, <2>7, <3>1 DEF CallerSide, Reaching
  <2> QED BY <1>1, <1>3, <1>9, <1>11, <2>8, <2>9 DEF FirstAnswer
<1>12. CASE Agreed(c, i) /\ AnswerTo(i, a, b, cs, c.cur.remote) /\ Reaching(i, cs, r)
  <2>1. SameDescriptions(c, d) /\ d.remoteDescriptionSet = c.remoteDescriptionSet
    BY <1>5, <1>12 DEF Agreed
  <2>2. Agreed(d, i) /\ d.cur = c.cur
    BY <1>5, <1>12, <2>1 DEF Agreed, SameDescriptions
  <2>3. AnswerTo(i, a, b, ds, d.cur.remote)
    BY <1>12, <2>2, PeersKept
  <2>4. Reached(i, cs) => Reached(i, ds)
    BY <1>1, <1>2, <1>6, <1>12, <2>2, ReachedKept
  <2>5. ASSUME c.subscribed, NEW m \in DOMAIN c.ops, c.ops[m].op = "addCandidate", c.ops[m].of = c.cur.remote
        PROVE  Reaching(i, ds, r)
    <3>1. CASE m # 1
      BY <1>2, <1>5, <1>6, <2>2, <2>5, <3>1 DEF Reaching
    <3>2. CASE m = 1
      <4>1. h.op = "addCandidate" /\ h.of = c.cur.remote
        BY <1>10, <2>5, <3>2
      <4>2. CandidateAdded(c, d, sent)
        BY <1>3, <1>9, <4>1 DEF Settling, OfferCreated, AnswerCreated, OfferSet, AnswerSet, OfferTaken, AnswerTaken
      <4>3. h.of \in RemoteDescriptions(c)
        BY <4>1 DEF RemoteDescriptions
      <4>4. h.of \in d.added
        BY <1>9, <4>2, <4>3 DEF CandidateAdded
      <4> QED BY <1>2, <2>2, <4>1, <4>4 DEF Reaching, Reached
    <3> QED BY <3>1, <3>2
  <2>6. Reaching(i, ds, r)
    BY <1>1, <1>2, <1>6, <1>12, <2>2, <2>4, <2>5 DEF Reaching
  <2> QED BY <1>2, <1>5, <1>8, <2>2, <2>3, <2>6 DEF CallerSide
<1> QED BY <1>1, <1>11, <1>12 DEF CallerSide

-----------------------------------------------------------------------------
(* The negotiation goes on, whichever call makes the step. *)

\* What happens is no operation of the two devices' calls, and no signal to them.
Elsewhere(i, a, b, cs, ds) ==
    /\ \A k \in DOMAIN cs : OfCaller(cs[k], a, b) \/ OfPeer(cs[k], a, b) =>
          k \in DOMAIN ds /\ (Marked(cs[k], ds[k]) \/ (k # i /\ Opened(cs[k], ds[k])))
    /\ \A k \in DOMAIN ds : OfCaller(ds[k], a, b) \/ OfPeer(ds[k], a, b) =>
          k \in DOMAIN cs /\ (OfCaller(cs[k], a, b) \/ OfPeer(cs[k], a, b))

\* Only call k changes.
OneChanges(k, cs, ds) ==
    DOMAIN ds = DOMAIN cs /\ \A j \in DOMAIN cs : j # k => ds[j] = cs[j]

LEMMA SamePeers ==
    ASSUME NEW i, NEW a, NEW b, NEW cs, NEW ds,
           \A k \in DOMAIN cs : OfPeer(cs[k], a, b) =>
               k \in DOMAIN ds /\ (Marked(cs[k], ds[k]) \/ Opened(cs[k], ds[k]) \/ ds[k] = cs[k]),
           \A k \in DOMAIN ds : OfPeer(ds[k], a, b) => k \in DOMAIN cs /\ OfPeer(cs[k], a, b)
    PROVE  PeersGoOn(i, a, b, cs, ds) /\ NoNewAnswer(i, a, b, cs, ds)
  BY OnwardSame DEF PeersGoOn, NoNewAnswer

LEMMA SameOffering ==
    ASSUME NEW i, NEW a, NEW b, NEW cs, NEW ds, NEW t, NEW r, Marked(cs[i], ds[i]),
           \A k \in DOMAIN cs : OfPeer(cs[k], a, b) =>
               k \in DOMAIN ds /\ (Marked(cs[k], ds[k]) \/ Opened(cs[k], ds[k]) \/ ds[k] = cs[k]),
           \A k \in DOMAIN ds : OfPeer(ds[k], a, b) => k \in DOMAIN cs /\ OfPeer(cs[k], a, b),
           Offering(i, a, b, cs, t, r)
    PROVE  Offering(i, a, b, ds, t, r)
<1>1. /\ ds[i].ops = cs[i].ops /\ ds[i].sig = cs[i].sig /\ ds[i].pend = cs[i].pend /\ ds[i].cur = cs[i].cur
      /\ ds[i].remoteDescriptionSet = cs[i].remoteDescriptionSet
      /\ ds[i].pendingCandidates = cs[i].pendingCandidates /\ ds[i].state = cs[i].state
  BY DEF Marked, SameNegotiation, SameDescriptions, SameCandidates
<1>2. (Unsent(cs[i], i) => Unsent(ds[i], i)) /\ (Waiting(cs[i], i) => Waiting(ds[i], i))
  BY <1>1 DEF Unsent, Waiting, Idle
<1>3. ASSUME NEW k \in DOMAIN ds, OfPeer(ds[k], a, b)
      PROVE  Untouched(ds[k], OfferOf(i)) /\ (ds[k].initiator => ~ds[k].subscribed)
  <2>1. Untouched(cs[k], OfferOf(i)) /\ (cs[k].initiator => ~cs[k].subscribed)
    BY <1>3 DEF Offering
  <2>2. Marked(cs[k], ds[k]) \/ Opened(cs[k], ds[k]) \/ ds[k] = cs[k]
    BY <1>3
  <2> QED BY <2>1, <2>2 DEF Untouched, Marked, Opened, SameNegotiation, SameDescriptions
<1> QED BY <1>1, <1>2, <1>3 DEF Offering

LEMMA NegotiationStays ==
    ASSUME NEW i, NEW a, NEW b, NEW cs, NEW ds, NEW t, NEW r, Scene(i, a, b, cs),
           Elsewhere(i, a, b, cs, ds), Negotiates(i, a, b, cs, t, r)
    PROVE  Negotiates(i, a, b, ds, t, r)
<1>1. OfCaller(cs[i], a, b) /\ Marked(cs[i], ds[i]) /\ i \in DOMAIN ds
  BY DEF Negotiates, OfCaller, Elsewhere, Scene
<1>2. ds[i].page = a /\ ds[i].peer = b /\ ds[i].initiator
  BY <1>1 DEF Negotiates, Marked, SameNegotiation
<1>3. /\ \A k \in DOMAIN cs : OfPeer(cs[k], a, b) =>
            k \in DOMAIN ds /\ (Marked(cs[k], ds[k]) \/ Opened(cs[k], ds[k]) \/ ds[k] = cs[k])
      /\ \A k \in DOMAIN ds : OfPeer(ds[k], a, b) => k \in DOMAIN cs /\ OfPeer(cs[k], a, b)
      /\ \A k \in DOMAIN ds : OfCaller(ds[k], a, b) =>
            k \in DOMAIN cs /\ OfCaller(cs[k], a, b) /\ (Marked(cs[k], ds[k]) \/ Opened(cs[k], ds[k]))
  BY DEF Elsewhere, OfCaller, OfPeer, Marked, Opened, SameNegotiation
<1>4. PeersGoOn(i, a, b, cs, ds) /\ NoNewAnswer(i, a, b, cs, ds)
  BY <1>3, SamePeers
<1>5. CallersGoOn(i, a, b, cs, ds)
  BY <1>3 DEF CallersGoOn, Idle, Marked, Opened
<1>6. Beside(i, a, b, ds)
  BY <1>5, BesideKept DEF Negotiates
<1>7. CASE Offering(i, a, b, cs, t, r)
  BY <1>1, <1>2, <1>3, <1>6, <1>7, SameOffering DEF Negotiates
<1>8. CASE Exchanging(i, a, b, cs, t, r)
  <2>1. Longer(i, a, b, cs, ds, r, r)
    BY <1>4 DEF Longer
  <2>2. CallerSide(i, a, b, ds, r)
    BY <1>1, <1>4, <1>8, <2>1, CallerWaits DEF Exchanging
  <2>3. AnswersBack(i, a, b, ds, r) /\ PeerSide(i, a, b, ds)
    BY <1>4, <1>8, BackKept, PeersKept DEF Exchanging
  <2> QED BY <1>2, <1>6, <1>8, <2>2, <2>3 DEF Negotiates, Exchanging
<1> QED BY <1>7, <1>8 DEF Negotiates

\* The caller's channel opens.
LEMMA NegotiationOpens ==
    ASSUME NEW i, NEW a, NEW b, NEW cs, NEW ds, NEW t, NEW r, Scene(i, a, b, cs),
           OneChanges(i, cs, ds), Opened(cs[i], ds[i]), Reached(i, cs), cs[i].cur.local # NoDesc,
           Negotiates(i, a, b, cs, t, r)
    PROVE  Negotiates(i, a, b, ds, t, r)
<1>1. i \in DOMAIN ds /\ ds[i].page = a /\ ds[i].peer = b /\ ds[i].initiator /\ ds[i].ops = cs[i].ops
  BY DEF Negotiates, Opened, SameNegotiation, Scene, OneChanges
<1>2. /\ \A k \in DOMAIN cs : OfPeer(cs[k], a, b) =>
            k \in DOMAIN ds /\ (Marked(cs[k], ds[k]) \/ Opened(cs[k], ds[k]) \/ ds[k] = cs[k])
      /\ \A k \in DOMAIN ds : OfPeer(ds[k], a, b) => k \in DOMAIN cs /\ OfPeer(cs[k], a, b)
  BY <1>1 DEF OneChanges, Scene, OfPeer
<1>3. PeersGoOn(i, a, b, cs, ds)
  BY <1>2, SamePeers
<1>4. Beside(i, a, b, ds)
  BY <1>1 DEF Negotiates, Beside, OneChanges, OfCaller
<1>5. ~Unsent(cs[i], i) /\ ~Waiting(cs[i], i)
  BY DEF Unsent, Waiting, NoCur
<1>6. Exchanging(i, a, b, cs, t, r) /\ Agreed(cs[i], i)
  BY <1>5 DEF Negotiates, Offering, Exchanging, CallerSide
<1>7. CallerSide(i, a, b, ds, r)
  BY <1>3, <1>6, CallerOpens DEF Exchanging
<1>8. AnswersBack(i, a, b, ds, r) /\ PeerSide(i, a, b, ds)
  BY <1>3, <1>6, BackKept, PeersKept DEF Exchanging
<1> QED BY <1>1, <1>4, <1>6, <1>7, <1>8 DEF Negotiates, Exchanging

\* An operation of the caller settles.
LEMMA NegotiationCalls ==
    ASSUME NEW i, NEW a, NEW b, NEW cs, NEW ds, NEW t \in Seq(Signal), NEW r \in Seq(Signal), NEW sent,
           sent \in Seq(Signal), Scene(i, a, b, cs),
           OneChanges(i, cs, ds), Settling(i, cs[i], ds[i], sent), Negotiates(i, a, b, cs, t, r)
    PROVE  Negotiates(i, a, b, ds, t \o sent, r)
<1>1. /\ i \in DOMAIN ds /\ ds[i].page = a /\ ds[i].peer = b /\ ds[i].initiator
      /\ cs[i].page = a /\ cs[i].peer = b /\ cs[i].ops # <<>>
  BY DEF Negotiates, Settling, SameCall, Scene, OneChanges
<1>2. /\ \A k \in DOMAIN cs : OfPeer(cs[k], a, b) =>
            k \in DOMAIN ds /\ (Marked(cs[k], ds[k]) \/ Opened(cs[k], ds[k]) \/ ds[k] = cs[k])
      /\ \A k \in DOMAIN ds : OfPeer(ds[k], a, b) => k \in DOMAIN cs /\ OfPeer(cs[k], a, b) /\ ds[k] = cs[k]
  BY <1>1 DEF OneChanges, Scene, OfPeer
<1>3. PeersGoOn(i, a, b, cs, ds)
  BY <1>2, SamePeers
<1>4. Beside(i, a, b, ds)
  BY <1>1 DEF Negotiates, Beside, OneChanges, OfCaller
<1>5. CASE Offering(i, a, b, cs, t, r)
  <2>1. Unsent(cs[i], i) /\ t = <<>> /\ r = <<>>
    BY <1>1, <1>5 DEF Offering
  <2>2. \A k \in DOMAIN ds : OfPeer(ds[k], a, b) =>
            Untouched(ds[k], OfferOf(i)) /\ (ds[k].initiator => ~ds[k].subscribed)
    BY <1>2, <1>5 DEF Offering
  <2>3. PICK c : c = cs[i]
    OBVIOUS
  <2>4. PICK d : d = ds[i]
    OBVIOUS
  <2>5. /\ Settling(i, c, d, sent) /\ c.sig = "stable" /\ c.cur = NoCur /\ ~c.remoteDescriptionSet
        /\ c.state = "connecting" /\ c.pendingCandidates = <<>>
        /\ c.ops = <<[op |-> "createOffer"]>> \/ c.ops = <<[op |-> "setLocal", desc |-> OfferOf(i)]>>
    BY <2>1, <2>3, <2>4 DEF Unsent
  <2>6. CASE c.ops = <<[op |-> "createOffer"]>>
    <3>1. PICK x : x = [op |-> "createOffer"]
      OBVIOUS
    <3>2. x.op = "createOffer" /\ c.ops = <<x>>
      BY <2>6, <3>1
    <3>3. Head(c.ops).op = "createOffer" /\ Tail(c.ops) = <<>>
      BY <3>2
    <3>4. OfferCreated(i, c, d, sent)
      BY <2>5, <3>3 DEF Settling, AnswerCreated, OfferSet, AnswerSet, OfferTaken, AnswerTaken, CandidateAdded
    <3>5. d.ops = <<[op |-> "setLocal", desc |-> OfferOf(i)]>> /\ sent = <<>>
      <4>1. PICK y : y = [op |-> "setLocal", desc |-> OfferOf(i)]
        OBVIOUS
      <4>2. d.ops = Append(<<>>, y) /\ sent = <<>>
        BY <3>3, <3>4, <4>1 DEF OfferCreated
      <4>3. d.ops = <<y>>
        BY <4>2
      <4> QED BY <4>1, <4>2, <4>3
    <3>6. Unsent(d, i)
      BY <2>5, <3>4, <3>5 DEF Unsent, OfferCreated, SameDescriptions, SameCandidates
    <3>7. Offering(i, a, b, ds, t \o sent, r)
      BY <2>1, <2>2, <2>4, <3>5, <3>6 DEF Offering
    <3> QED BY <1>1, <1>4, <3>7 DEF Negotiates
  <2>7. CASE c.ops = <<[op |-> "setLocal", desc |-> OfferOf(i)]>>
    <3>1. PICK x : x = [op |-> "setLocal", desc |-> OfferOf(i)]
      OBVIOUS
    <3>2. x.op = "setLocal" /\ x.desc = OfferOf(i) /\ c.ops = <<x>>
      BY <2>7, <3>1
    <3>3. Head(c.ops).op = "setLocal" /\ Head(c.ops).desc = OfferOf(i) /\ Tail(c.ops) = <<>>
      BY <3>2
    <3>4. OfferOf(i).kind = "offer"
      BY DEF OfferOf
    <3>5. OfferSet(c, d, sent)
      BY <2>5, <3>3, <3>4 DEF Settling, OfferCreated, AnswerCreated, AnswerSet, OfferTaken, AnswerTaken, CandidateAdded
    <3>6. /\ d.sig = "have-local-offer" /\ d.pend = OfferOf(i) /\ d.cur = NoCur /\ d.state = "connecting"
          /\ sent = <<OfferOf(i), Candidate(OfferOf(i))>> /\ d.ops = <<>> /\ ~d.remoteDescriptionSet
          /\ d.pendingCandidates = <<>>
      BY <2>5, <3>3, <3>5 DEF OfferSet, SameCandidates
    <3>7. Waiting(d, i)
      BY <3>6 DEF Waiting, Idle
    <3>8. t \o sent = sent
      BY <2>1
    <3>9. Offering(i, a, b, ds, t \o sent, r)
      BY <2>1, <2>2, <2>4, <3>6, <3>7, <3>8 DEF Offering
    <3> QED BY <1>1, <1>4, <3>9 DEF Negotiates
  <2> QED BY <2>5, <2>6, <2>7
<1>6. CASE Exchanging(i, a, b, cs, t, r)
  <2>1. CallerSide(i, a, b, ds, r) /\ sent = <<>>
    BY <1>3, <1>6, CallerSettles DEF Exchanging
  <2>2. AnswersBack(i, a, b, ds, r) /\ PeerSide(i, a, b, ds)
    BY <1>3, <1>6, BackKept, PeersKept DEF Exchanging
  <2>3. t \o sent = t
    BY <2>1
  <2> QED BY <1>1, <1>4, <1>6, <2>1, <2>2, <2>3 DEF Negotiates, Exchanging
<1> QED BY <1>5, <1>6 DEF Negotiates

\* An operation of another call of the caller to this peer settles.
LEMMA NegotiationBeside ==
    ASSUME NEW i, NEW a, NEW b, NEW cs, NEW ds, NEW t \in Seq(Signal), NEW r \in Seq(Signal), NEW sent,
           Scene(i, a, b, cs), NEW k \in DOMAIN cs, k # i, OfCaller(cs[k], a, b),
           OneChanges(k, cs, ds), Settling(k, cs[k], ds[k], sent), Negotiates(i, a, b, cs, t, r)
    PROVE  Negotiates(i, a, b, ds, t \o sent, r)
<1>1. Idle(cs[k]) /\ CallOK(cs[k])
  <2>1. CallOK(cs[k])
    BY SceneFacts
  <2> QED BY <2>1 DEF Negotiates, Beside
<1>2. Idle(ds[k]) /\ sent = <<>> /\ OfCaller(ds[k], a, b)
  <2>1. Idle(ds[k]) /\ sent = <<>>
    BY <1>1, IdleSettles
  <2> QED BY <2>1 DEF OfCaller, Settling, SameCall
<1>3. ds[i] = cs[i] /\ i \in DOMAIN ds /\ Marked(cs[i], ds[i])
  BY SceneFacts, MarkIs DEF OneChanges, Scene
<1>4. /\ \A j \in DOMAIN cs : OfPeer(cs[j], a, b) =>
            j \in DOMAIN ds /\ (Marked(cs[j], ds[j]) \/ Opened(cs[j], ds[j]) \/ ds[j] = cs[j])
      /\ \A j \in DOMAIN ds : OfPeer(ds[j], a, b) => j \in DOMAIN cs /\ OfPeer(cs[j], a, b)
  BY <1>2 DEF OneChanges, Scene, OfPeer, OfCaller
<1>5. PeersGoOn(i, a, b, cs, ds) /\ NoNewAnswer(i, a, b, cs, ds)
  BY <1>4, SamePeers
<1>6. Beside(i, a, b, ds)
  BY <1>2 DEF Negotiates, Beside, OneChanges
<1>7. t \o sent = t
  BY <1>2
<1>8. CASE Offering(i, a, b, cs, t, r)
  <2>1. Offering(i, a, b, ds, t, r)
    BY <1>3, <1>4, <1>8, SameOffering
  <2> QED BY <1>3, <1>6, <1>7, <2>1 DEF Negotiates
<1>9. CASE Exchanging(i, a, b, cs, t, r)
  <2>1. Longer(i, a, b, cs, ds, r, r)
    BY <1>5 DEF Longer
  <2>2. CallerSide(i, a, b, ds, r)
    BY <1>3, <1>5, <1>9, <2>1, CallerWaits DEF Exchanging
  <2>3. AnswersBack(i, a, b, ds, r) /\ PeerSide(i, a, b, ds)
    BY <1>5, <1>9, BackKept, PeersKept DEF Exchanging
  <2> QED BY <1>3, <1>6, <1>7, <1>9, <2>2, <2>3 DEF Negotiates, Exchanging
<1> QED BY <1>8, <1>9 DEF Negotiates

\* An operation of a call of the peer settles.
LEMMA NegotiationAnswers ==
    ASSUME NEW i, NEW a, NEW b, NEW cs, NEW ds, NEW t, NEW r \in Seq(Signal), NEW sent,
           Scene(i, a, b, cs), NEW k \in DOMAIN cs, OfPeer(cs[k], a, b),
           OneChanges(k, cs, ds), Settling(k, cs[k], ds[k], sent), Negotiates(i, a, b, cs, t, r)
    PROVE  Negotiates(i, a, b, ds, t, r \o sent)
<1>1. /\ i \in Nat /\ k \in Nat /\ CallOK(cs[k]) /\ Lives(cs[k]) /\ i \in DOMAIN cs /\ a # b
      /\ cs[i] \in Call /\ cs[i].page = a
  BY SceneFacts DEF Scene, Negotiates
<1>2. PICK off \in Description : off = OfferOf(i)
  BY <1>1, OfferFacts
<1>3. k # i /\ ds[i] = cs[i] /\ i \in DOMAIN ds /\ Marked(cs[i], ds[i])
  BY <1>1, MarkIs DEF OneChanges, OfPeer
<1>4. ds[k].page = b /\ ds[k].peer = a /\ cs[k].ops # <<>>
  BY DEF Settling, SameCall, OfPeer
<1>5. Beside(i, a, b, ds)
  BY <1>1, <1>4 DEF Negotiates, Beside, OneChanges, OfCaller
<1>6. ~Offering(i, a, b, cs, t, r)
  BY <1>4 DEF Offering, Untouched
<1>7. Exchanging(i, a, b, cs, t, r)
  BY <1>6 DEF Negotiates
<1>8. PeerCall(cs[k], k, off)
  BY <1>2, <1>7 DEF Exchanging, PeerSide, PeerCall
<1>9. /\ Onward(cs[k], ds[k], k, off)
      /\ \/ sent = <<>> /\ (AnswerMade(ds[k], k, off) => AnswerMade(cs[k], k, off))
         \/ /\ sent = <<AnswerOf(k, off), Candidate(AnswerOf(k, off))>>
            /\ AnswerMade(ds[k], k, off)
  BY <1>1, <1>2, <1>8, OnwardSettles
<1>10. \A j \in DOMAIN cs : j # k => ds[j] = cs[j] /\ Onward(cs[j], ds[j], j, off)
  BY OnwardSame DEF OneChanges
<1>11. PeersGoOn(i, a, b, cs, ds)
  BY <1>2, <1>9, <1>10 DEF PeersGoOn, OneChanges, OfPeer, Onward
<1>12. AnswersBack(i, a, b, ds, r) /\ PeerSide(i, a, b, ds)
  BY <1>7, <1>11, BackKept, PeersKept DEF Exchanging
<1>13. PICK z : z = r \o sent
  OBVIOUS
<1>14. Longer(i, a, b, cs, ds, r, z) /\ AnswersBack(i, a, b, ds, z)
  <2>1. CASE sent = <<>> /\ (AnswerMade(ds[k], k, off) => AnswerMade(cs[k], k, off))
    <3>1. z = r
      BY <1>13, <2>1
    <3>2. NoNewAnswer(i, a, b, cs, ds)
      BY <1>2, <1>10, <2>1 DEF NoNewAnswer, OneChanges
    <3> QED BY <1>12, <3>1, <3>2 DEF Longer
  <2>2. CASE sent = <<AnswerOf(k, off), Candidate(AnswerOf(k, off))>> /\ AnswerMade(ds[k], k, off)
    <3>1. PICK e \in Description : e = AnswerOf(k, off)
      BY <1>1, <1>2, DescriptionTypes
    <3>2. e.by = k /\ ~IsCandidate(e)
      BY <1>1, <1>2, <3>1, DescriptionTypes, SignalTypes
    <3>3. AnswerTo(i, a, b, ds, e)
      BY <1>2, <1>4, <2>2, <3>1, <3>2 DEF AnswerTo, OneChanges, OfPeer
    <3>4. z = r \o <<e, Candidate(e)>>
      BY <1>13, <2>2, <3>1
    <3>5. AnswersBack(i, a, b, ds, z)
      BY <1>12, <3>3, <3>4, BackGrows
    <3>6. z # <<>>
      BY <1>12, <3>3, <3>4, BackGrows
    <3>7. \A m \in DOMAIN r : m \in DOMAIN z /\ z[m] = r[m]
      BY <1>12, <3>3, <3>4, BackGrows
    <3>8. Head(z) = IF r = <<>> THEN e ELSE Head(r)
      BY <1>12, <3>3, <3>4, BackGrows
    <3> QED BY <3>2, <3>5, <3>7, <3>8, <3>6 DEF Longer
  <2> QED BY <1>9, <2>1, <2>2
<1>15. CallerSide(i, a, b, ds, z)
  BY <1>3, <1>7, <1>11, <1>14, CallerWaits DEF Exchanging
<1>16. Exchanging(i, a, b, ds, t, z)
  BY <1>7, <1>12, <1>14, <1>15 DEF Exchanging
<1>17. ds[i].page = a /\ ds[i].peer = b /\ ds[i].initiator
  BY <1>3 DEF Negotiates
<1> QED BY <1>5, <1>13, <1>16, <1>17 DEF Negotiates

\* The calls ds are cs after signal s has come from one page to another.
Dispatched(cs, ds, from, to, s) ==
    /\ \A k \in DOMAIN cs :
          /\ k \in DOMAIN ds
          /\ Hears(cs[k], from, to) => Takes(cs[k], ds[k], s)
          /\ ~Hears(cs[k], from, to) => ds[k] = cs[k]
    /\ s.kind # "offer" => DOMAIN ds = DOMAIN cs
    /\ s.kind = "offer" =>
          /\ DOMAIN ds = DOMAIN cs \cup {Len(cs) + 1} /\ Len(cs) + 1 \notin DOMAIN cs
          /\ \E e : e = NewCall(to, from, FALSE) /\ Takes(e, ds[Len(cs) + 1], s)

\* The offer or its candidate arrives.
LEMMA NegotiationOffered ==
    ASSUME NEW i, NEW a \in Device, NEW b \in Device, NEW cs, NEW ds, NEW t, t # <<>>, NEW r,
           Scene(i, a, b, cs), Dispatched(cs, ds, a, b, Head(t)), Negotiates(i, a, b, cs, t, r)
    PROVE  Negotiates(i, a, b, ds, Tail(t), r)
<1>1. /\ i \in Nat /\ i \in DOMAIN cs /\ a # b /\ cs[i] \in Call /\ cs[i].page = a /\ cs[i].peer = b /\ cs[i].initiator
      /\ \A k \in DOMAIN cs : cs[k] \in Call
  BY SceneFacts DEF Scene, Negotiates
<1>2. PICK off \in Description : off = OfferOf(i)
  BY <1>1, OfferFacts
<1>3. /\ off.kind = "offer" /\ Candidate(off) \in Signal /\ IsCandidate(Candidate(off)) /\ Candidate(off).of = off
      /\ off \in Signal
  BY <1>1, <1>2, OfferFacts
<1>4. ds[i] = cs[i] /\ i \in DOMAIN ds /\ Marked(cs[i], ds[i])
  BY <1>1, MarkIs DEF Dispatched, Hears
<1>5. ds[i].page = a /\ ds[i].peer = b /\ ds[i].initiator
  BY <1>1, <1>4
<1>6. \A k \in DOMAIN cs : OfCaller(cs[k], a, b) => ds[k] = cs[k]
  BY <1>1 DEF Dispatched, Hears, OfCaller
<1>7. \A k \in DOMAIN cs : /\ k \in DOMAIN ds /\ ds[k].page = cs[k].page /\ ds[k].peer = cs[k].peer
                           /\ ds[k].initiator = cs[k].initiator
  BY DEF Dispatched, Takes, SameCall
<1>8. \A k \in DOMAIN cs : OfPeer(cs[k], a, b) =>
          IF cs[k].subscribed THEN Takes(cs[k], ds[k], Head(t)) ELSE ds[k] = cs[k]
  BY DEF Dispatched, Hears, OfPeer
<1>9. CASE Offering(i, a, b, cs, t, r)
  <2>1. /\ r = <<>> /\ t = <<off, Candidate(off)>>
        /\ Waiting(cs[i], i) /\ cs[i].ops = <<>> /\ cs[i].pendingCandidates = <<>>
        /\ \A k \in DOMAIN cs : OfPeer(cs[k], a, b) =>
              Untouched(cs[k], off) /\ (cs[k].initiator => ~cs[k].subscribed)
    BY <1>2, <1>9 DEF Offering
  <2>2. Head(t) = off /\ Tail(t) = <<Candidate(off)>>
    BY <2>1
  <2>3. PICK n : n = Len(cs) + 1
    OBVIOUS
  <2>4. PICK e : e = NewCall(b, a, FALSE) /\ Takes(e, ds[n], off)
    BY <1>3, <2>2, <2>3 DEF Dispatched
  <2>5. DOMAIN ds = DOMAIN cs \cup {n} /\ n \notin DOMAIN cs /\ n \in Nat
    <3>1. Len(cs) \in Nat
      BY SceneFacts
    <3>2. Head(t).kind = "offer"
      BY <1>3, <2>2
    <3>3. DOMAIN ds = DOMAIN cs \cup {Len(cs) + 1} /\ Len(cs) + 1 \notin DOMAIN cs
      BY <3>2 DEF Dispatched
    <3>4. n \in Nat
      BY <2>3, <3>1
    <3> QED BY <2>3, <3>3, <3>4
  <2>6. /\ e \in Call /\ ~e.initiator /\ e.ops = <<>> /\ e.page = b /\ e.peer = a
        /\ e.pendingCandidates = <<>> /\ e.cur.remote = NoDesc /\ e.pend = NoDesc
    <3>1. PICK no \in BOOLEAN : no = FALSE
      OBVIOUS
    <3>2. e = NewCall(b, a, no)
      BY <2>4, <3>1
    <3>3. /\ e \in Call /\ e.initiator = no /\ e.page = b /\ e.peer = a
          /\ e.pendingCandidates = <<>> /\ e.cur.remote = NoDesc /\ e.pend = NoDesc
      BY <3>2, NewCallIs
    <3>4. e.ops = IF no THEN <<[op |-> "createOffer"]>> ELSE <<>>
      BY <3>2, NewCallIs
    <3> QED BY <3>1, <3>3, <3>4
  <2>7. off # NoDesc
    BY <1>1, <1>2, OfferFacts
  <2>8. Untouched(e, off)
    BY <2>6, <2>7 DEF Untouched
  <2>9. /\ ds[n].page = b /\ ds[n].peer = a
        /\ Answering(ds[n], n, off) /\ ~AnswerMade(ds[n], n, off) /\ Pure(ds[n], off)
    <3>1. PICK d : d = ds[n]
      OBVIOUS
    <3>2. Takes(e, d, off) /\ e \in Call /\ ~e.initiator /\ i \in Nat
      BY <1>1, <2>4, <2>6, <3>1
    <3>3. d.page = e.page /\ d.peer = e.peer /\ Answering(d, n, off) /\ ~AnswerMade(d, n, off)
      BY <1>2, <2>8, <3>2, OfferTakes
    <3>4. Pure(d, off)
      BY <1>2, <2>6, <2>8, <3>2, OfferTakes
    <3> QED BY <2>6, <3>1, <3>3, <3>4
  <2>10. ASSUME NEW k \in DOMAIN cs, OfPeer(cs[k], a, b)
         PROVE  /\ PeerCall(ds[k], k, off)
                /\ ~AnswerMade(ds[k], k, off)
    <3>1. Untouched(cs[k], off)
      BY <2>1, <2>10
    <3>2. CASE cs[k].subscribed
      <4>1. ~cs[k].initiator /\ Takes(cs[k], ds[k], off)
        BY <1>1, <1>8, <2>1, <2>2, <2>10, <3>2, CallFields
      <4> QED BY <1>1, <1>2, <3>1, <4>1, OfferTakes DEF PeerCall
    <3>3. CASE ~cs[k].subscribed
      <4>1. ds[k] = cs[k]
        BY <1>8, <2>10, <3>3
      <4> QED BY <3>1, <3>3, <4>1 DEF PeerCall, Untouched, AnswerMade
    <3> QED BY <3>2, <3>3
  <2>11. \A k \in DOMAIN ds : OfPeer(ds[k], a, b) =>
             PeerCall(ds[k], k, off) /\ ~AnswerMade(ds[k], k, off)
    BY <1>7, <2>5, <2>9, <2>10 DEF OfPeer, PeerCall
  <2>12. PeerSide(i, a, b, ds)
    <3>1. n \in DOMAIN ds /\ OfPeer(ds[n], a, b) /\ Pure(ds[n], off) /\ Answering(ds[n], n, off)
      BY <2>5, <2>9 DEF OfPeer
    <3> QED BY <1>2, <2>11, <3>1 DEF PeerSide, PeerCall
  <2>13. CallerSide(i, a, b, ds, r)
    <3>1. FirstAnswer(i, a, b, ds, r)
      BY <1>2, <1>4, <2>1, <2>11 DEF FirstAnswer
    <3> QED BY <1>4, <2>1, <3>1 DEF CallerSide
  <2>14. AnswersBack(i, a, b, ds, r)
    BY <2>1 DEF AnswersBack
  <2>15. Beside(i, a, b, ds)
    BY <1>1, <1>6, <1>7, <2>5, <2>9 DEF Negotiates, Beside, OfCaller
  <2>16. Exchanging(i, a, b, ds, Tail(t), r)
    BY <1>2, <2>2, <2>12, <2>13, <2>14 DEF Exchanging
  <2> QED BY <1>5, <2>15, <2>16 DEF Negotiates
<1>10. CASE Exchanging(i, a, b, cs, t, r)
  <2>1. t = <<Candidate(off)>>
    BY <1>2, <1>10 DEF Exchanging
  <2>2. PICK s \in Signal : s = Candidate(off)
    BY <1>3
  <2>3. Head(t) = s /\ Tail(t) = <<>> /\ IsCandidate(s) /\ s.of = off /\ s.kind # "offer"
    BY <1>3, <2>1, <2>2 DEF IsCandidate
  <2>4. DOMAIN ds = DOMAIN cs
    BY <2>3 DEF Dispatched
  <2>5. ASSUME NEW k \in DOMAIN cs, OfPeer(cs[k], a, b)
        PROVE  Onward(cs[k], ds[k], k, off) /\ (AnswerMade(ds[k], k, off) => AnswerMade(cs[k], k, off))
    <3>1. CASE cs[k].subscribed
      <4>1. Takes(cs[k], ds[k], s) /\ cs[k] \in Call
        BY <1>1, <1>8, <2>3, <2>5, <3>1
      <4> QED BY <2>3, <3>1, <4>1, OnwardTakes
    <3>2. CASE ~cs[k].subscribed
      <4>1. ds[k] = cs[k]
        BY <1>8, <2>5, <3>2
      <4> QED BY <4>1, OnwardSame
    <3> QED BY <3>1, <3>2
  <2>6. PeersGoOn(i, a, b, cs, ds) /\ NoNewAnswer(i, a, b, cs, ds)
    BY <1>2, <1>7, <2>4, <2>5 DEF PeersGoOn, NoNewAnswer, OfPeer
  <2>7. Longer(i, a, b, cs, ds, r, r)
    BY <2>6 DEF Longer
  <2>8. CallerSide(i, a, b, ds, r)
    BY <1>4, <1>10, <2>6, <2>7, CallerWaits DEF Exchanging
  <2>9. AnswersBack(i, a, b, ds, r) /\ PeerSide(i, a, b, ds)
    BY <1>10, <2>6, BackKept, PeersKept DEF Exchanging
  <2>10. Beside(i, a, b, ds)
    BY <1>6, <1>7, <2>4 DEF Negotiates, Beside, OfCaller
  <2>11. Exchanging(i, a, b, ds, Tail(t), r)
    BY <2>3, <2>8, <2>9 DEF Exchanging
  <2> QED BY <1>5, <2>10, <2>11 DEF Negotiates
<1> QED BY <1>9, <1>10 DEF Negotiates

\* An answer or its candidate arrives.
LEMMA NegotiationHears ==
    ASSUME NEW i, NEW a, NEW b, NEW cs, NEW ds, NEW t, NEW r \in Seq(Signal), r # <<>>,
           Scene(i, a, b, cs), Dispatched(cs, ds, b, a, Head(r)), Negotiates(i, a, b, cs, t, r)
    PROVE  Negotiates(i, a, b, ds, t, Tail(r))
<1>1. /\ i \in DOMAIN cs /\ a # b /\ cs[i].page = a /\ cs[i].peer = b /\ cs[i].initiator
      /\ \A k \in DOMAIN cs : cs[k] \in Call
  BY SceneFacts DEF Scene, Negotiates
<1>2. Exchanging(i, a, b, cs, t, r)
  BY DEF Negotiates, Offering
<1>3. PICK s \in Signal : s = Head(r)
  BY Rest
<1>4. /\ AnswersBack(i, a, b, cs, Tail(r))
      /\ IsCandidate(s) \/ AnswerTo(i, a, b, cs, s)
  BY <1>2, <1>3, BackShrinks DEF Exchanging
<1>5. IsCandidate(s) \/ s.kind = "answer"
  BY <1>4 DEF AnswerTo, AnswerOf
<1>6. s.kind # "offer"
  BY <1>5 DEF IsCandidate
<1>7. /\ DOMAIN ds = DOMAIN cs
      /\ \A k \in DOMAIN cs : /\ Hears(cs[k], b, a) => Takes(cs[k], ds[k], s)
                              /\ ~Hears(cs[k], b, a) => ds[k] = cs[k]
  BY <1>3, <1>6 DEF Dispatched
<1>8. \A k \in DOMAIN cs : ds[k].page = cs[k].page /\ ds[k].peer = cs[k].peer /\ ds[k].initiator = cs[k].initiator
  BY <1>7 DEF Takes, SameCall
<1>9. \A k \in DOMAIN cs : OfPeer(cs[k], a, b) => ds[k] = cs[k]
  BY <1>1, <1>7 DEF Hears, OfPeer
<1>10. PeersGoOn(i, a, b, cs, ds)
  BY <1>7, <1>8, <1>9, OnwardSame DEF PeersGoOn, OfPeer
<1>11. \A k \in DOMAIN cs : Idle(cs[k]) => Idle(ds[k])
  <2>1. ASSUME NEW k \in DOMAIN cs, Idle(cs[k])
        PROVE  Idle(ds[k])
    <3>1. CASE Takes(cs[k], ds[k], s)
      BY <1>1, <1>5, <2>1, <3>1, IdleTakes
    <3>2. CASE ds[k] = cs[k]
      BY <2>1, <3>2
    <3> QED BY <1>7, <3>1, <3>2
  <2> QED BY <2>1
<1>12. Beside(i, a, b, ds)
  BY <1>7, <1>8, <1>11 DEF Negotiates, Beside, OfCaller
<1>13. /\ cs[i].subscribed => Takes(cs[i], ds[i], Head(r))
       /\ ~cs[i].subscribed => ds[i] = cs[i]
  BY <1>1, <1>3, <1>7 DEF Hears
<1>14. CallerSide(i, a, b, ds, Tail(r))
  BY <1>2, <1>10, <1>13, CallerTakes DEF Exchanging
<1>15. AnswersBack(i, a, b, ds, Tail(r)) /\ PeerSide(i, a, b, ds)
  BY <1>2, <1>4, <1>10, BackKept, PeersKept DEF Exchanging
<1>16. ds[i].page = a /\ ds[i].peer = b /\ ds[i].initiator /\ i \in DOMAIN ds
  BY <1>1, <1>7, <1>8
<1>17. Exchanging(i, a, b, ds, t, Tail(r))
  BY <1>2, <1>14, <1>15 DEF Exchanging
<1> QED BY <1>12, <1>16, <1>17 DEF Negotiates

\* A new call to a peer that waits for nothing.
Begins(e, a, b) == e = NewCall(a, b, TRUE)

LEMMA NegotiationStarts ==
    ASSUME NEW a \in Device, NEW b \in Device, a # b, NEW ds, NEW i \in DOMAIN ds, i \in Nat,
           NEW e, Begins(e, a, b), Marked(e, ds[i]),
           \A k \in DOMAIN ds : k # i /\ (OfCaller(ds[k], a, b) \/ OfPeer(ds[k], a, b)) => ds[k].ops = <<>>,
           \A k \in DOMAIN ds : k # i /\ OfPeer(ds[k], a, b) =>
               /\ ds[k].initiator => ~ds[k].subscribed
               /\ ds[k].cur.remote.by # i /\ ds[k].pend.by # i,
           NEW t, NEW r, t = <<>>, r = <<>>
    PROVE  Negotiates(i, a, b, ds, t, r)
<1>1. PICK yes \in BOOLEAN : yes = TRUE
  OBVIOUS
<1>2. /\ e \in Call /\ e.page = a /\ e.peer = b /\ e.initiator = yes
      /\ e.state = "connecting" /\ ~e.remoteDescriptionSet
      /\ e.pendingCandidates = <<>> /\ e.sig = "stable"
      /\ e.cur.local = NoDesc /\ e.cur.remote = NoDesc
  <2>1. e = NewCall(a, b, yes)
    BY <1>1 DEF Begins
  <2> QED BY <2>1, NewCallIs
<1>3. e.ops = IF yes THEN <<[op |-> "createOffer"]>> ELSE <<>>
  <2>1. e = NewCall(a, b, yes)
    BY <1>1 DEF Begins
  <2> QED BY <2>1, NewCallIs
<1>4. PICK d : d = ds[i]
  OBVIOUS
<1>5. /\ d.page = a /\ d.peer = b /\ d.initiator /\ d.state = "connecting" /\ ~d.remoteDescriptionSet
      /\ d.pendingCandidates = <<>> /\ d.sig = "stable" /\ d.cur = e.cur
      /\ d.ops = <<[op |-> "createOffer"]>>
  BY <1>1, <1>2, <1>3, <1>4 DEF Marked, SameNegotiation, SameDescriptions, SameCandidates
<1>6. e.cur = NoCur
  <2>1. PICK cur \in [local : Description, remote : Description] : cur = e.cur
    BY <1>2, CallFields
  <2>2. cur.local = NoDesc /\ cur.remote = NoDesc
    BY <1>2, <2>1
  <2>3. cur = NoCur
    BY <2>2 DEF NoCur
  <2> QED BY <2>1, <2>3
<1>7. Unsent(d, i)
  BY <1>5, <1>6 DEF Unsent
<1>8. OfferOf(i).by = i
  BY DEF OfferOf
<1>9. ASSUME NEW k \in DOMAIN ds, OfPeer(ds[k], a, b)
      PROVE  Untouched(ds[k], OfferOf(i)) /\ (ds[k].initiator => ~ds[k].subscribed)
  <2>1. k # i
    BY <1>4, <1>5, <1>9 DEF OfPeer
  <2> QED BY <1>8, <1>9, <2>1 DEF Untouched
<1>10. Beside(i, a, b, ds)
  BY DEF Beside, Idle
<1> QED BY <1>4, <1>5, <1>7, <1>9, <1>10 DEF Negotiates, Offering

-----------------------------------------------------------------------------
(* A send that has its answer, and one that has its channel. *)

LEMMA NegotiationAgrees ==
    ASSUME NEW i, NEW a, NEW b, NEW cs, NEW t, NEW r, Scene(i, a, b, cs), Negotiates(i, a, b, cs, t, r),
           cs[i].cur.remote # NoDesc \/ cs[i].cur.local # NoDesc \/ cs[i].state = "open"
    PROVE  /\ Exchanging(i, a, b, cs, t, r) /\ Agreed(cs[i], i)
           /\ AnswerTo(i, a, b, cs, cs[i].cur.remote) /\ Reaching(i, cs, r)
           /\ cs[i].cur.remote.kind = "answer" /\ cs[i].cur.remote.to = i
<1>1. ~Unsent(cs[i], i) /\ ~Waiting(cs[i], i)
  BY DEF Unsent, Waiting, NoCur
<1>2. /\ Exchanging(i, a, b, cs, t, r) /\ Agreed(cs[i], i)
      /\ AnswerTo(i, a, b, cs, cs[i].cur.remote) /\ Reaching(i, cs, r)
  BY <1>1 DEF Negotiates, Offering, Exchanging, CallerSide
<1>3. \A k : AnswerOf(k, OfferOf(i)).kind = "answer" /\ AnswerOf(k, OfferOf(i)).to = i
  BY DEF AnswerOf, OfferOf
<1> QED BY <1>2, <1>3 DEF AnswerTo

LEMMA NegotiationJoins ==
    ASSUME NEW i, NEW a, NEW b, NEW cs, NEW t, NEW r, Scene(i, a, b, cs), Negotiates(i, a, b, cs, t, r),
           cs[i].state = "open", NEW j \in DOMAIN cs, cs[j].state = "open",
           cs[i].cur.remote = cs[j].cur.local
    PROVE  Joined(i, cs)
<1>1. /\ Agreed(cs[i], i) /\ AnswerTo(i, a, b, cs, cs[i].cur.remote)
      /\ cs[i].cur.remote.kind = "answer" /\ cs[i].cur.remote.to = i
  BY NegotiationAgrees
<1>2. PICK k : k = cs[i].cur.remote.by
  OBVIOUS
<1>3. k \in DOMAIN cs /\ OfPeer(cs[k], a, b) /\ AnswerMade(cs[k], k, OfferOf(i)) /\ cs[i].cur.remote = AnswerOf(k, OfferOf(i))
  BY <1>1, <1>2 DEF AnswerTo
<1>4. Own(cs[j], j, Len(cs))
  BY SceneFacts
<1>5. cs[j].cur.local # NoDesc
  BY <1>1 DEF Agreed
<1>6. j = k
  BY <1>2, <1>4, <1>5 DEF Own
<1>7. Done(cs[k])
  <2>1. \A o : Extra(o) => IdleOp(o)
    BY DEF Extra, IdleOp
  <2> QED BY <1>3, <1>6, <2>1 DEF AnswerMade, Done, Idle
<1>8. Done(cs[i]) /\ cs[i].cur.local = OfferOf(i)
  BY <1>1 DEF Agreed, Done
<1>9. i \in Nat /\ cs[i].peer = b
  BY SceneFacts DEF Negotiates
<1>10. OfferOf(i) # NoDesc
  BY <1>9, DescriptionTypes
<1> QED BY <1>1, <1>3, <1>7, <1>8, <1>9, <1>10 DEF Joined, AnswerMade, OfPeer

\* A call whose channel is open, and the same call later.
Carried(c, d) ==
    /\ Done(d) /\ d.cur = c.cur
    /\ d.page = c.page /\ d.peer = c.peer /\ d.initiator = c.initiator

LEMMA JoinedKept ==
    ASSUME NEW i, NEW cs, NEW ds, i \in DOMAIN cs, Joined(i, cs),
           \A k \in DOMAIN cs : Done(cs[k]) /\ (k = i \/ cs[k].page = cs[i].peer) =>
               k \in DOMAIN ds /\ Carried(cs[k], ds[k])
    PROVE  Joined(i, ds)
<1>1. PICK j \in DOMAIN cs :
          /\ Done(cs[j]) /\ ~cs[j].initiator /\ cs[j].page = cs[i].peer
          /\ cs[i].cur.local # NoDesc
          /\ cs[i].cur.local = cs[j].cur.remote /\ cs[i].cur.remote = cs[j].cur.local
  BY DEF Joined
<1>2. /\ Done(cs[i]) /\ cs[i].cur.remote.kind = "answer" /\ cs[i].cur.remote.to = i
  BY DEF Joined
<1>3. Carried(cs[i], ds[i]) /\ j \in DOMAIN ds /\ Carried(cs[j], ds[j])
  BY <1>1, <1>2
<1> QED BY <1>1, <1>2, <1>3 DEF Joined, Carried

LEMMA DoneCarried ==
    ASSUME NEW c, CallOK(c), Lives(c), Done(c), NEW d,
           \/ d = c \/ Marked(c, d) \/ Opened(c, d)
           \/ \E k, sent : Settling(k, c, d, sent)
    PROVE  Carried(c, d)
<1>1. c.state = "open" /\ c.sig = "stable" /\ Idle(c) /\ ~c.subscribed
  BY DEF Done, Lives
<1>2. CASE d = c
  BY <1>2 DEF Carried
<1>3. CASE Marked(c, d)
  BY <1>1, <1>3 DEF Marked, SameNegotiation, SameDescriptions, Carried, Done, Idle
<1>4. CASE Opened(c, d)
  BY <1>1, <1>4 DEF Opened
<1>5. ASSUME NEW k, NEW sent, Settling(k, c, d, sent)
      PROVE  Carried(c, d)
  <2>1. Idle(d) /\ d.state = c.state /\ SameDescriptions(c, d)
    BY <1>1, <1>5, IdleSettles
  <2> QED BY <1>1, <1>5, <2>1 DEF Carried, Done, Settling, SameCall, SameDescriptions
<1> QED BY <1>2, <1>3, <1>4, <1>5

-----------------------------------------------------------------------------
(* Every step leaves the sends that it does not disturb where they were or *)
(* takes them on.                                                          *)

LEMMA Sender ==
    ASSUME General, SendsInv, NEW i \in DOMAIN calls, calls[i].initiator, calls[i].undisturbed,
           NEW cs, cs = calls, NEW a, a = calls[i].page, NEW b, b = calls[i].peer
    PROVE  /\ Scene(i, a, b, cs) /\ a \in Device /\ b \in Device /\ a # b
           /\ <<a, b>> \in Pair /\ <<b, a>> \in Pair /\ <<a, b>> # <<b, a>>
           /\ wire[<<a, b>>] \in Seq(Signal) /\ wire[<<b, a>>] \in Seq(Signal)
           /\ Joined(i, cs) \/ Negotiates(i, a, b, cs, wire[<<a, b>>], wire[<<b, a>>])
<1>1. /\ a \in Device /\ b \in Device /\ <<a, b>> \in Pair /\ <<b, a>> \in Pair
      /\ \A p \in Pair : wire[p] \in Seq(Signal)
      /\ Good(calls[i], i, Len(calls))
  BY Calls
<1>2. a # b
  BY <1>1 DEF Good, Lives
<1>3. Scene(i, a, b, cs)
  BY <1>2 DEF General, Scene
<1>4. SendGoes(i, calls, wire)
  BY DEF SendsInv, Undisturbed
<1>5. Joined(i, cs) \/ Negotiates(i, a, b, cs, wire[<<a, b>>], wire[<<b, a>>])
  BY <1>4 DEF SendGoes
<1> QED BY <1>1, <1>2, <1>3, <1>5

LEMMA Follows ==
    ASSUME NEW i, NEW ds, NEW a, NEW b, NEW w, NEW t, NEW r, ds[i].page = a, ds[i].peer = b,
           w[<<a, b>>] = t, w[<<b, a>>] = r, Joined(i, ds) \/ Negotiates(i, a, b, ds, t, r)
    PROVE  SendGoes(i, ds, w)
  BY DEF SendGoes

LEMMA PcStepSends ==
    ASSUME General, SendsInv, NEW k \in DOMAIN calls, PcStep(k)
    PROVE  SendsInv'
<1>1. PICK d, sent : Settling(k, calls[k], d, sent) /\ Settles(k, d, sent)
  BY PcStepIs
<1>2. PICK cs : cs = calls
  OBVIOUS
<1>3. PICK ds : ds = calls'
  OBVIOUS
<1>4. PICK w : w = wire'
  OBVIOUS
<1>5. /\ DOMAIN ds = DOMAIN cs
      /\ ds[k] = d /\ \A j \in DOMAIN cs : j # k => ds[j] = cs[j]
      /\ w[<<cs[k].page, cs[k].peer>>] = wire[<<cs[k].page, cs[k].peer>>] \o sent
      /\ \A p \in Pair : p # <<cs[k].page, cs[k].peer>> => w[p] = wire[p]
      /\ sent \in Seq(Signal)
  <2>1. /\ calls' \in Seq(Call) /\ DOMAIN calls' = DOMAIN calls /\ Len(calls') = Len(calls)
        /\ calls'[k] = d /\ \A j \in DOMAIN calls : j # k => calls'[j] = calls[j]
        /\ wire' \in [Pair -> Seq(Signal)]
        /\ wire'[<<calls[k].page, calls[k].peer>>] = wire[<<calls[k].page, calls[k].peer>>] \o sent
        /\ \A p \in Pair : p # <<calls[k].page, calls[k].peer>> => wire'[p] = wire[p]
        /\ sent \in Seq(Signal) /\ faults' = faults
    BY <1>1, SettlesIs
  <2> QED BY <1>2, <1>3, <1>4, <2>1
<1>6. Settling(k, cs[k], ds[k], sent) /\ OneChanges(k, cs, ds) /\ k \in DOMAIN cs
  BY <1>1, <1>2, <1>5 DEF OneChanges
<1>7. \A j \in DOMAIN cs : /\ ds[j].page = cs[j].page /\ ds[j].peer = cs[j].peer
                           /\ ds[j].initiator = cs[j].initiator /\ ds[j].undisturbed = cs[j].undisturbed
  BY <1>5, <1>6 DEF Settling, SameCall
<1>8. SUFFICES ASSUME NEW i \in DOMAIN ds, ds[i].initiator, ds[i].undisturbed
               PROVE  SendGoes(i, ds, w)
  BY <1>3, <1>4 DEF SendsInv, Undisturbed
<1>9. i \in DOMAIN cs /\ i \in DOMAIN calls /\ calls[i].initiator /\ calls[i].undisturbed
  BY <1>2, <1>5, <1>7, <1>8
<1>10. PICK a : a = calls[i].page
  OBVIOUS
<1>11. PICK b : b = calls[i].peer
  OBVIOUS
<1>12. PICK t : t = wire[<<a, b>>]
  OBVIOUS
<1>13. PICK r : r = wire[<<b, a>>]
  OBVIOUS
<1>14. /\ Scene(i, a, b, cs) /\ a # b
       /\ <<a, b>> \in Pair /\ <<b, a>> \in Pair /\ <<a, b>> # <<b, a>>
       /\ t \in Seq(Signal) /\ r \in Seq(Signal)
       /\ Joined(i, cs) \/ Negotiates(i, a, b, cs, t, r)
  BY <1>2, <1>9, <1>10, <1>11, <1>12, <1>13, Sender
<1>15. cs[i].page = a /\ cs[i].peer = b /\ ds[i].page = a /\ ds[i].peer = b
  BY <1>2, <1>7, <1>9, <1>10, <1>11
<1>16. CASE Joined(i, cs)
  <2>1. ASSUME NEW j \in DOMAIN cs, Done(cs[j])
        PROVE  j \in DOMAIN ds /\ Carried(cs[j], ds[j])
    <3>1. CallOK(cs[j]) /\ Lives(cs[j])
      BY <1>14, SceneFacts
    <3>2. ds[j] = cs[j] \/ \E l, s : Settling(l, cs[j], ds[j], s)
      BY <1>5, <1>6
    <3> QED BY <1>5, <2>1, <3>1, <3>2, DoneCarried
  <2>2. Joined(i, ds)
    BY <1>9, <1>16, <2>1, JoinedKept
  <2> QED BY <1>15, <2>2, Follows
<1>17. CASE Negotiates(i, a, b, cs, t, r)
  <2>1. CASE k = i
    <3>1. Negotiates(i, a, b, ds, t \o sent, r)
      BY <1>5, <1>6, <1>14, <1>17, <2>1, NegotiationCalls
    <3>2. w[<<a, b>>] = t \o sent /\ w[<<b, a>>] = r
      BY <1>5, <1>12, <1>13, <1>14, <1>15, <2>1
    <3> QED BY <1>15, <3>1, <3>2, Follows
  <2>2. CASE k # i /\ OfCaller(cs[k], a, b)
    <3>1. Negotiates(i, a, b, ds, t \o sent, r)
      BY <1>6, <1>14, <1>17, <2>2, NegotiationBeside
    <3>2. w[<<a, b>>] = t \o sent /\ w[<<b, a>>] = r
      BY <1>5, <1>12, <1>13, <1>14, <2>2 DEF OfCaller
    <3> QED BY <1>15, <3>1, <3>2, Follows
  <2>3. CASE OfPeer(cs[k], a, b)
    <3>1. Negotiates(i, a, b, ds, t, r \o sent)
      BY <1>6, <1>14, <1>17, <2>3, NegotiationAnswers
    <3>2. w[<<a, b>>] = t /\ w[<<b, a>>] = r \o sent
      BY <1>5, <1>12, <1>13, <1>14, <2>3 DEF OfPeer
    <3> QED BY <1>15, <3>1, <3>2, Follows
  <2>4. CASE ~OfCaller(cs[k], a, b) /\ ~OfPeer(cs[k], a, b)
    <3>1. \A j \in DOMAIN cs : j # k => Marked(cs[j], ds[j])
      BY <1>5, <1>14, SceneFacts, MarkIs
    <3>2. Elsewhere(i, a, b, cs, ds)
      BY <1>5, <1>7, <2>4, <3>1 DEF Elsewhere, OfCaller, OfPeer
    <3>3. Negotiates(i, a, b, ds, t, r)
      BY <1>14, <1>17, <3>2, NegotiationStays
    <3>4. <<a, b>> # <<cs[k].page, cs[k].peer>> /\ <<b, a>> # <<cs[k].page, cs[k].peer>>
      BY <2>4 DEF OfCaller, OfPeer
    <3>5. w[<<a, b>>] = t /\ w[<<b, a>>] = r
      BY <1>5, <1>12, <1>13, <1>14, <3>4
    <3> QED BY <1>15, <3>3, <3>5, Follows
  <2> QED BY <1>9, <1>15, <2>1, <2>2, <2>3, <2>4
<1> QED BY <1>14, <1>16, <1>17

LEMMA DeliverSends ==
    ASSUME General, SendsInv, NEW from \in Device, NEW to \in Device, Deliver(from, to)
    PROVE  SendsInv'
<1>1. PICK s : s = Head(wire[<<from, to>>])
  OBVIOUS
<1>2. Delivered(from, to, s) /\ wire[<<from, to>>] # <<>>
  BY <1>1, DeliverIs
<1>3. PICK cs : cs = calls
  OBVIOUS
<1>4. PICK ds : ds = calls'
  OBVIOUS
<1>5. PICK w : w = wire'
  OBVIOUS
<1>6. Dispatched(cs, ds, from, to, s)
  BY <1>2, <1>3, <1>4 DEF Delivered, Dispatched
<1>7. w[<<from, to>>] = Tail(wire[<<from, to>>]) /\ \A p \in Pair : p # <<from, to>> => w[p] = wire[p]
  BY <1>2, <1>5 DEF Delivered
<1>8. \A j \in DOMAIN cs : /\ j \in DOMAIN ds /\ ds[j].page = cs[j].page /\ ds[j].peer = cs[j].peer
                           /\ ds[j].initiator = cs[j].initiator /\ ds[j].undisturbed = cs[j].undisturbed
  BY <1>6 DEF Dispatched, Takes, SameCall
<1>9. \A j \in DOMAIN ds : j \notin DOMAIN cs => ~ds[j].initiator /\ ds[j].page = to /\ ds[j].peer = from
  <2>1. ASSUME NEW j \in DOMAIN ds, j \notin DOMAIN cs
        PROVE  ~ds[j].initiator /\ ds[j].page = to /\ ds[j].peer = from
    <3>1. s.kind = "offer"
      BY <1>6, <2>1 DEF Dispatched
    <3>2. j = Len(cs) + 1
      BY <1>6, <2>1, <3>1 DEF Dispatched
    <3>3. \E e : e = NewCall(to, from, FALSE) /\ Takes(e, ds[j], s)
      BY <1>6, <3>1, <3>2 DEF Dispatched
    <3>4. PICK e : e = NewCall(to, from, FALSE) /\ Takes(e, ds[j], s)
      BY <3>3
    <3>5. PICK no \in BOOLEAN : no = FALSE
      OBVIOUS
    <3>6. e = NewCall(to, from, no)
      BY <3>4, <3>5
    <3>7. e.page = to /\ e.peer = from /\ e.initiator = no
      BY <3>6, NewCallIs
    <3> QED BY <3>4, <3>5, <3>7 DEF Takes, SameCall
  <2> QED BY <2>1
<1>10. SUFFICES ASSUME NEW i \in DOMAIN ds, ds[i].initiator, ds[i].undisturbed
                PROVE  SendGoes(i, ds, w)
  BY <1>4, <1>5 DEF SendsInv, Undisturbed
<1>11. i \in DOMAIN cs /\ i \in DOMAIN calls /\ calls[i].initiator /\ calls[i].undisturbed
  BY <1>3, <1>8, <1>9, <1>10
<1>12. PICK a : a = calls[i].page
  OBVIOUS
<1>13. PICK b : b = calls[i].peer
  OBVIOUS
<1>14. PICK t : t = wire[<<a, b>>]
  OBVIOUS
<1>15. PICK r : r = wire[<<b, a>>]
  OBVIOUS
<1>16. /\ Scene(i, a, b, cs) /\ a \in Device /\ b \in Device /\ a # b
       /\ <<a, b>> \in Pair /\ <<b, a>> \in Pair /\ <<a, b>> # <<b, a>>
       /\ t \in Seq(Signal) /\ r \in Seq(Signal)
       /\ Joined(i, cs) \/ Negotiates(i, a, b, cs, t, r)
  BY <1>3, <1>11, <1>12, <1>13, <1>14, <1>15, Sender
<1>17. cs[i].page = a /\ cs[i].peer = b /\ ds[i].page = a /\ ds[i].peer = b
  BY <1>3, <1>8, <1>11, <1>12, <1>13
<1>18. CASE Joined(i, cs)
  <2>1. ASSUME NEW j \in DOMAIN cs, Done(cs[j])
        PROVE  j \in DOMAIN ds /\ Carried(cs[j], ds[j])
    <3>1. CallOK(cs[j]) /\ Lives(cs[j])
      BY <1>16, SceneFacts
    <3>2. ~cs[j].subscribed
      BY <2>1, <3>1 DEF Done, Lives
    <3>3. ds[j] = cs[j]
      BY <1>6, <3>2 DEF Dispatched, Hears
    <3> QED BY <1>8, <2>1, <3>1, <3>3, DoneCarried
  <2>2. Joined(i, ds)
    BY <1>11, <1>18, <2>1, JoinedKept
  <2> QED BY <1>17, <2>2, Follows
<1>19. CASE Negotiates(i, a, b, cs, t, r)
  <2>1. CASE from = a /\ to = b
    <3>1. t # <<>> /\ s = Head(t) /\ w[<<a, b>>] = Tail(t) /\ w[<<b, a>>] = r
      BY <1>1, <1>2, <1>7, <1>14, <1>15, <1>16, <2>1
    <3>2. Dispatched(cs, ds, a, b, Head(t))
      BY <1>6, <2>1, <3>1
    <3>3. Negotiates(i, a, b, ds, Tail(t), r)
      BY <1>16, <1>19, <3>1, <3>2, NegotiationOffered
    <3> QED BY <1>17, <3>1, <3>3, Follows
  <2>2. CASE from = b /\ to = a
    <3>1. r # <<>> /\ s = Head(r) /\ w[<<a, b>>] = t /\ w[<<b, a>>] = Tail(r)
      BY <1>1, <1>2, <1>7, <1>14, <1>15, <1>16, <2>2
    <3>2. Dispatched(cs, ds, b, a, Head(r))
      BY <1>6, <2>2, <3>1
    <3>3. Negotiates(i, a, b, ds, t, Tail(r))
      BY <1>16, <1>19, <3>1, <3>2, NegotiationHears
    <3> QED BY <1>17, <3>1, <3>3, Follows
  <2>3. CASE ~(from = a /\ to = b) /\ ~(from = b /\ to = a)
    <3>1. ASSUME NEW j \in DOMAIN cs, OfCaller(cs[j], a, b) \/ OfPeer(cs[j], a, b)
          PROVE  Marked(cs[j], ds[j])
      <4>1. ~Hears(cs[j], from, to)
        BY <2>3, <3>1 DEF Hears, OfCaller, OfPeer
      <4>2. ds[j] = cs[j]
        BY <1>6, <4>1 DEF Dispatched
      <4> QED BY <1>16, <4>2, SceneFacts, MarkIs
    <3>2. \A j \in DOMAIN ds : OfCaller(ds[j], a, b) \/ OfPeer(ds[j], a, b) =>
             j \in DOMAIN cs /\ (OfCaller(cs[j], a, b) \/ OfPeer(cs[j], a, b))
      BY <1>8, <1>9, <2>3 DEF OfCaller, OfPeer
    <3>3. Elsewhere(i, a, b, cs, ds)
      BY <1>8, <3>1, <3>2 DEF Elsewhere
    <3>4. Negotiates(i, a, b, ds, t, r)
      BY <1>16, <1>19, <3>3, NegotiationStays
    <3>5. <<a, b>> # <<from, to>> /\ <<b, a>> # <<from, to>>
      BY <2>3
    <3>6. w[<<a, b>>] = t /\ w[<<b, a>>] = r
      BY <1>7, <1>14, <1>15, <1>16, <3>5
    <3> QED BY <1>17, <3>4, <3>6, Follows
  <2> QED BY <2>1, <2>2, <2>3
<1> QED BY <1>16, <1>18, <1>19

LEMMA ChannelOpensSends ==
    ASSUME General, SendsInv, NEW k \in DOMAIN calls, ChannelOpens(k)
    PROVE  SendsInv'
<1>1. PICK cs : cs = calls
  OBVIOUS
<1>2. PICK ds : ds = calls'
  OBVIOUS
<1>3. /\ DOMAIN calls' = DOMAIN calls /\ Opened(calls[k], calls'[k])
      /\ \A j \in DOMAIN calls : j # k => calls'[j] = calls[j]
      /\ wire' = wire
  BY ChannelOpensIs
<1>4. DOMAIN ds = DOMAIN cs /\ Opened(cs[k], ds[k]) /\ OneChanges(k, cs, ds) /\ k \in DOMAIN cs
  BY <1>1, <1>2, <1>3 DEF OneChanges
<1>5. \A j \in DOMAIN cs : /\ ds[j].page = cs[j].page /\ ds[j].peer = cs[j].peer
                           /\ ds[j].initiator = cs[j].initiator /\ ds[j].undisturbed = cs[j].undisturbed
  BY <1>4 DEF Opened, SameNegotiation, OneChanges
<1>6. SUFFICES ASSUME NEW i \in DOMAIN ds, ds[i].initiator, ds[i].undisturbed
               PROVE  SendGoes(i, ds, wire)
  BY <1>2, <1>3 DEF SendsInv, Undisturbed
<1>7. i \in DOMAIN cs /\ i \in DOMAIN calls /\ calls[i].initiator /\ calls[i].undisturbed
  BY <1>1, <1>4, <1>5, <1>6
<1>8. PICK a : a = calls[i].page
  OBVIOUS
<1>9. PICK b : b = calls[i].peer
  OBVIOUS
<1>10. PICK t : t = wire[<<a, b>>]
  OBVIOUS
<1>11. PICK r : r = wire[<<b, a>>]
  OBVIOUS
<1>12. /\ Scene(i, a, b, cs)
       /\ Joined(i, cs) \/ Negotiates(i, a, b, cs, t, r)
  BY <1>1, <1>7, <1>8, <1>9, <1>10, <1>11, Sender
<1>13. ds[i].page = a /\ ds[i].peer = b
  BY <1>1, <1>5, <1>7, <1>8, <1>9
<1>14. CASE Joined(i, cs)
  <2>1. ASSUME NEW j \in DOMAIN cs, Done(cs[j])
        PROVE  j \in DOMAIN ds /\ Carried(cs[j], ds[j])
    <3>1. CallOK(cs[j]) /\ Lives(cs[j])
      BY <1>12, SceneFacts
    <3>2. ds[j] = cs[j] \/ Opened(cs[j], ds[j])
      BY <1>4 DEF OneChanges
    <3> QED BY <1>4, <2>1, <3>1, <3>2, DoneCarried
  <2>2. Joined(i, ds)
    BY <1>7, <1>14, <2>1, JoinedKept
  <2> QED BY <1>10, <1>11, <1>13, <2>2, Follows
<1>15. CASE Negotiates(i, a, b, cs, t, r) /\ k # i
  <2>1. \A j \in DOMAIN cs : j # k => Marked(cs[j], ds[j])
    BY <1>4, <1>12, SceneFacts, MarkIs DEF OneChanges
  <2>2. Elsewhere(i, a, b, cs, ds)
    BY <1>4, <1>5, <1>15, <2>1 DEF Elsewhere, OfCaller, OfPeer
  <2>3. Negotiates(i, a, b, ds, t, r)
    BY <1>12, <1>15, <2>2, NegotiationStays
  <2> QED BY <1>10, <1>11, <1>13, <2>3, Follows
<1>16. CASE Negotiates(i, a, b, cs, t, r) /\ k = i
  <2>1. PICK j \in DOMAIN cs :
           /\ cs[i].cur.local # NoDesc
           /\ cs[i].cur.local = cs[j].cur.remote /\ cs[i].cur.remote = cs[j].cur.local
           /\ cs[i].cur.remote \in cs[i].added \/ cs[j].cur.remote \in cs[j].added
    BY <1>1, <1>16 DEF ChannelOpens, CanOpen, Reachable, Agree
  <2>2. Agreed(cs[i], i)
    BY <1>12, <1>16, <2>1, NegotiationAgrees
  <2>3. cs[j].cur.local # NoDesc /\ cs[i].cur.local = OfferOf(i)
    BY <2>1, <2>2 DEF Agreed
  <2>4. cs[j].cur.local.by = j
    BY <1>12, <2>3, SceneFacts DEF Own
  <2>5. Reached(i, cs)
    BY <2>1, <2>3, <2>4 DEF Reached
  <2>6. Negotiates(i, a, b, ds, t, r)
    BY <1>4, <1>12, <1>16, <2>1, <2>5, NegotiationOpens
  <2> QED BY <1>10, <1>11, <1>13, <2>6, Follows
<1> QED BY <1>12, <1>14, <1>15, <1>16

\* A send whose channel is open at both ends is joined.
LEMMA OpenJoins ==
    ASSUME General, SendsInv, NEW i \in DOMAIN calls, calls[i].initiator, calls[i].undisturbed, OpenAtBothEnds(i)
    PROVE  Joined(i, calls)
<1>1. PICK cs : cs = calls
  OBVIOUS
<1>2. PICK a : a = calls[i].page
  OBVIOUS
<1>3. PICK b : b = calls[i].peer
  OBVIOUS
<1>4. /\ Scene(i, a, b, cs)
      /\ Joined(i, cs) \/ Negotiates(i, a, b, cs, wire[<<a, b>>], wire[<<b, a>>])
  BY <1>1, <1>2, <1>3, Sender
<1>5. PICK j \in DOMAIN cs : cs[j].state = "open" /\ cs[i].cur.remote = cs[j].cur.local
  BY <1>1 DEF OpenAtBothEnds, Agree
<1>6. cs[i].state = "open"
  BY <1>1 DEF OpenAtBothEnds
<1> QED BY <1>1, <1>4, <1>5, <1>6, NegotiationJoins

LEMMA SendSends ==
    ASSUME General, SendsInv, NEW from \in Device, NEW to \in Device, from # to, Send(from, to)
    PROVE  SendsInv'
<1>1. Sent(from, to)
  BY SendIs
<1>2. PICK cs : cs = calls
  OBVIOUS
<1>3. PICK ds : ds = calls'
  OBVIOUS
<1>4. PICK n : n = Len(cs) + 1
  OBVIOUS
<1>5. /\ DOMAIN ds = DOMAIN cs \cup {n} /\ n \notin DOMAIN cs /\ wire' = wire
      /\ \A j \in DOMAIN cs : Marked(cs[j], ds[j])
      /\ \E c : c = NewCall(from, to, TRUE) /\ Marked(c, ds[n])
      /\ ds[n].undisturbed => Quiet(from, to)
  BY <1>1, <1>2, <1>3, <1>4 DEF Sent
<1>6. \A j \in DOMAIN calls : calls'[j].undisturbed => ~(Between(calls[j], from, to) /\ ~OpenAtBothEnds(j))
  BY <1>1 DEF Sent
<1>7. \A j \in DOMAIN cs : /\ ds[j].page = cs[j].page /\ ds[j].peer = cs[j].peer
                           /\ ds[j].initiator = cs[j].initiator /\ (ds[j].undisturbed => cs[j].undisturbed)
  BY <1>5 DEF Marked, SameNegotiation
<1>8. PICK e : Begins(e, from, to) /\ Marked(e, ds[n])
  BY <1>5 DEF Begins
<1>9. e.page = from /\ e.peer = to
  <2>1. PICK yes \in BOOLEAN : yes = TRUE
    OBVIOUS
  <2>2. e = NewCall(from, to, yes)
    BY <1>8, <2>1 DEF Begins
  <2> QED BY <2>2, NewCallIs
<1>10. ds[n].page = from /\ ds[n].peer = to
  BY <1>8, <1>9 DEF Marked, SameNegotiation
<1>11. SUFFICES ASSUME NEW i \in DOMAIN ds, ds[i].initiator, ds[i].undisturbed
                PROVE  SendGoes(i, ds, wire)
  BY <1>3, <1>5 DEF SendsInv, Undisturbed
<1>12. CASE i = n
  <2>1. Quiet(from, to)
    BY <1>5, <1>11, <1>12
  <2>2. wire[<<from, to>>] = <<>> /\ wire[<<to, from>>] = <<>>
    BY <2>1 DEF Quiet
  <2>3. ASSUME NEW k \in DOMAIN ds, k # n, OfCaller(ds[k], from, to) \/ OfPeer(ds[k], from, to)
        PROVE  /\ ds[k].ops = <<>>
               /\ OfPeer(ds[k], from, to) =>
                     /\ ds[k].initiator => ~ds[k].subscribed
                     /\ ds[k].cur.remote.by # n /\ ds[k].pend.by # n
    <3>1. k \in DOMAIN cs /\ k \in DOMAIN calls /\ Marked(cs[k], ds[k])
      BY <1>2, <1>5, <2>3
    <3>2. /\ ds[k].page = cs[k].page /\ ds[k].peer = cs[k].peer /\ ds[k].ops = cs[k].ops
          /\ ds[k].initiator = cs[k].initiator /\ ds[k].subscribed = cs[k].subscribed
          /\ ds[k].cur = cs[k].cur /\ ds[k].pend = cs[k].pend
      BY <3>1 DEF Marked, SameNegotiation, SameDescriptions
    <3>3. Between(calls[k], from, to)
      BY <1>2, <2>3, <3>2 DEF Between, OfCaller, OfPeer
    <3>4. calls[k].ops = <<>> /\ (calls[k].page = to /\ calls[k].initiator => ~calls[k].subscribed)
      BY <2>1, <3>1, <3>3 DEF Quiet
    <3>5. Known(cs[k].pend, Len(cs)) /\ Known(cs[k].cur.remote, Len(cs)) /\ Len(cs) \in Nat /\ cs[k] \in Call
      BY <1>2, <3>1, Calls DEF Good, Own
    <3>6. cs[k].pend.by \in Nat /\ cs[k].cur.remote.by \in Nat
      BY <3>5, CallFields, DescriptionTypes
    <3>7. cs[k].pend.by # n /\ cs[k].cur.remote.by # n
      BY <1>4, <3>5, <3>6 DEF Known
    <3> QED BY <1>2, <3>2, <3>4, <3>7 DEF OfPeer
  <2>4. PICK t : t = wire[<<from, to>>]
    OBVIOUS
  <2>5. PICK r : r = wire[<<to, from>>]
    OBVIOUS
  <2>6. n \in DOMAIN ds /\ n \in Nat
    <3>1. Len(cs) \in Nat
      BY <1>2, Calls
    <3> QED BY <1>4, <1>5, <3>1
  <2>7. Negotiates(n, from, to, ds, t, r)
    BY <1>8, <2>2, <2>3, <2>4, <2>5, <2>6, NegotiationStarts
  <2> QED BY <1>10, <1>12, <2>4, <2>5, <2>7, Follows
<1>13. CASE i # n
  <2>1. i \in DOMAIN cs /\ i \in DOMAIN calls /\ calls[i].initiator /\ calls[i].undisturbed
    BY <1>2, <1>5, <1>7, <1>11, <1>13
  <2>2. PICK a : a = calls[i].page
    OBVIOUS
  <2>3. PICK b : b = calls[i].peer
    OBVIOUS
  <2>4. PICK t : t = wire[<<a, b>>]
    OBVIOUS
  <2>5. PICK r : r = wire[<<b, a>>]
    OBVIOUS
  <2>6. /\ Scene(i, a, b, cs)
        /\ Joined(i, cs) \/ Negotiates(i, a, b, cs, t, r)
    BY <1>2, <2>1, <2>2, <2>3, <2>4, <2>5, Sender
  <2>7. ds[i].page = a /\ ds[i].peer = b
    BY <1>2, <1>7, <2>1, <2>2, <2>3
  <2>8. CASE Joined(i, cs)
    <3>1. ASSUME NEW j \in DOMAIN cs, Done(cs[j])
          PROVE  j \in DOMAIN ds /\ Carried(cs[j], ds[j])
      BY <1>5, <2>6, <3>1, SceneFacts, DoneCarried
    <3>2. Joined(i, ds)
      BY <2>1, <2>8, <3>1, JoinedKept
    <3> QED BY <2>4, <2>5, <2>7, <3>2, Follows
  <2>9. CASE Negotiates(i, a, b, cs, t, r) /\ ~Joined(i, cs)
    <3>1. ~OpenAtBothEnds(i)
      BY <1>2, <2>1, <2>9, OpenJoins
    <3>2. ~Between(calls[i], from, to)
      BY <1>3, <1>6, <1>11, <2>1, <3>1
    <3>3. ~(from = a /\ to = b) /\ ~(from = b /\ to = a)
      BY <2>2, <2>3, <3>2 DEF Between
    <3>4. Elsewhere(i, a, b, cs, ds)
      BY <1>5, <1>7, <1>10, <3>3 DEF Elsewhere, OfCaller, OfPeer
    <3>5. Negotiates(i, a, b, ds, t, r)
      BY <2>6, <2>9, <3>4, NegotiationStays
    <3> QED BY <2>4, <2>5, <2>7, <3>5, Follows
  <2> QED BY <2>6, <2>8, <2>9
<1> QED BY <1>12, <1>13

LEMMA LoseSignalSends ==
    ASSUME General, SendsInv, NEW from \in Device, NEW to \in Device, LoseSignal(from, to)
    PROVE  SendsInv'
<1>1. PICK cs : cs = calls
  OBVIOUS
<1>2. PICK ds : ds = calls'
  OBVIOUS
<1>3. PICK w : w = wire'
  OBVIOUS
<1>4. /\ calls' \in Seq(Call) /\ DOMAIN calls' = DOMAIN calls /\ Len(calls') = Len(calls)
      /\ \A k \in DOMAIN calls :
            /\ Marked(calls[k], calls'[k])
            /\ Between(calls[k], from, to) /\ ~OpenAtBothEnds(k) => ~calls'[k].undisturbed
      /\ wire' \in [Pair -> Seq(Signal)] /\ wire[<<from, to>>] # <<>>
      /\ wire'[<<from, to>>] = Tail(wire[<<from, to>>])
      /\ \A p \in Pair : p # <<from, to>> => wire'[p] = wire[p]
      /\ faults' \in Nat
  BY LoseSignalIs
<1>5. /\ DOMAIN ds = DOMAIN cs
      /\ \A j \in DOMAIN cs : Marked(cs[j], ds[j])
      /\ \A p \in Pair : p # <<from, to>> => w[p] = wire[p]
  BY <1>1, <1>2, <1>3, <1>4
<1>6. \A j \in DOMAIN cs : /\ ds[j].page = cs[j].page /\ ds[j].peer = cs[j].peer
                           /\ ds[j].initiator = cs[j].initiator /\ (ds[j].undisturbed => cs[j].undisturbed)
  BY <1>5 DEF Marked, SameNegotiation
<1>7. SUFFICES ASSUME NEW i \in DOMAIN ds, ds[i].initiator, ds[i].undisturbed
               PROVE  SendGoes(i, ds, w)
  BY <1>2, <1>3 DEF SendsInv, Undisturbed
<1>8. i \in DOMAIN cs /\ i \in DOMAIN calls /\ calls[i].initiator /\ calls[i].undisturbed
  BY <1>1, <1>5, <1>6, <1>7
<1>9. PICK a : a = calls[i].page
  OBVIOUS
<1>10. PICK b : b = calls[i].peer
  OBVIOUS
<1>11. PICK t : t = wire[<<a, b>>]
  OBVIOUS
<1>12. PICK r : r = wire[<<b, a>>]
  OBVIOUS
<1>13. /\ Scene(i, a, b, cs)
       /\ <<a, b>> \in Pair /\ <<b, a>> \in Pair
       /\ Joined(i, cs) \/ Negotiates(i, a, b, cs, t, r)
  BY <1>1, <1>8, <1>9, <1>10, <1>11, <1>12, Sender
<1>14. ds[i].page = a /\ ds[i].peer = b
  BY <1>1, <1>6, <1>8, <1>9, <1>10
<1>15. CASE Joined(i, cs)
  <2>1. ASSUME NEW j \in DOMAIN cs, Done(cs[j])
        PROVE  j \in DOMAIN ds /\ Carried(cs[j], ds[j])
    BY <1>5, <1>13, <2>1, SceneFacts, DoneCarried
  <2>2. Joined(i, ds)
    BY <1>8, <1>15, <2>1, JoinedKept
  <2> QED BY <1>14, <2>2, Follows
<1>16. CASE Negotiates(i, a, b, cs, t, r) /\ ~Joined(i, cs)
  <2>1. ~OpenAtBothEnds(i)
    BY <1>1, <1>8, <1>16, OpenJoins
  <2>2. ~Between(calls[i], from, to)
    BY <1>2, <1>4, <1>7, <1>8, <2>1
  <2>3. <<a, b>> # <<from, to>> /\ <<b, a>> # <<from, to>>
    BY <1>9, <1>10, <2>2 DEF Between
  <2>4. w[<<a, b>>] = t /\ w[<<b, a>>] = r
    BY <1>5, <1>11, <1>12, <1>13, <2>3
  <2>5. Elsewhere(i, a, b, cs, ds)
    BY <1>5, <1>6 DEF Elsewhere, OfCaller, OfPeer
  <2>6. Negotiates(i, a, b, ds, t, r)
    BY <1>13, <1>16, <2>5, NegotiationStays
  <2> QED BY <1>14, <2>4, <2>6, Follows
<1> QED BY <1>13, <1>15, <1>16

LEMMA ReloadSends ==
    ASSUME General, SendsInv, NEW x \in Device, Reload(x)
    PROVE  SendsInv'
<1>1. PICK cs : cs = calls
  OBVIOUS
<1>2. PICK ds : ds = calls'
  OBVIOUS
<1>3. /\ DOMAIN calls' = DOMAIN calls
      /\ \A k \in DOMAIN calls :
            /\ calls[k].page = x => Killed(calls[k], calls'[k])
            /\ calls[k].page # x => Marked(calls[k], calls'[k])
            /\ x \in {calls[k].page, calls[k].peer} => ~calls'[k].undisturbed
      /\ wire' = wire
  BY ReloadIs
<1>4. /\ DOMAIN ds = DOMAIN cs
      /\ \A j \in DOMAIN cs : /\ cs[j].page = x => Killed(cs[j], ds[j])
                              /\ cs[j].page # x => Marked(cs[j], ds[j])
                              /\ x \in {cs[j].page, cs[j].peer} => ~ds[j].undisturbed
  BY <1>1, <1>2, <1>3
<1>5. \A j \in DOMAIN cs : /\ ds[j].page = cs[j].page /\ ds[j].peer = cs[j].peer
                           /\ ds[j].initiator = cs[j].initiator /\ (ds[j].undisturbed => cs[j].undisturbed)
  BY <1>4 DEF Marked, Killed, SameNegotiation
<1>6. SUFFICES ASSUME NEW i \in DOMAIN ds, ds[i].initiator, ds[i].undisturbed
               PROVE  SendGoes(i, ds, wire)
  BY <1>2, <1>3 DEF SendsInv, Undisturbed
<1>7. i \in DOMAIN cs /\ i \in DOMAIN calls /\ calls[i].initiator /\ calls[i].undisturbed
  BY <1>1, <1>4, <1>5, <1>6
<1>8. PICK a : a = calls[i].page
  OBVIOUS
<1>9. PICK b : b = calls[i].peer
  OBVIOUS
<1>10. PICK t : t = wire[<<a, b>>]
  OBVIOUS
<1>11. PICK r : r = wire[<<b, a>>]
  OBVIOUS
<1>12. /\ Scene(i, a, b, cs)
       /\ Joined(i, cs) \/ Negotiates(i, a, b, cs, t, r)
  BY <1>1, <1>7, <1>8, <1>9, <1>10, <1>11, Sender
<1>13. cs[i].page = a /\ cs[i].peer = b /\ ds[i].page = a /\ ds[i].peer = b
  BY <1>1, <1>5, <1>7, <1>8, <1>9
<1>14. x # a /\ x # b
  BY <1>4, <1>6, <1>7, <1>13
<1>15. CASE Joined(i, cs)
  <2>1. ASSUME NEW j \in DOMAIN cs, Done(cs[j]), j = i \/ cs[j].page = cs[i].peer
        PROVE  j \in DOMAIN ds /\ Carried(cs[j], ds[j])
    <3>1. Marked(cs[j], ds[j])
      BY <1>4, <1>13, <1>14, <2>1
    <3> QED BY <1>4, <1>12, <2>1, <3>1, SceneFacts, DoneCarried
  <2>2. Joined(i, ds)
    BY <1>7, <1>15, <2>1, JoinedKept
  <2> QED BY <1>10, <1>11, <1>13, <2>2, Follows
<1>16. CASE Negotiates(i, a, b, cs, t, r)
  <2>1. Elsewhere(i, a, b, cs, ds)
    BY <1>4, <1>5, <1>14 DEF Elsewhere, OfCaller, OfPeer
  <2>2. Negotiates(i, a, b, ds, t, r)
    BY <1>12, <1>16, <2>1, NegotiationStays
  <2> QED BY <1>10, <1>11, <1>13, <2>2, Follows
<1> QED BY <1>12, <1>15, <1>16

LEMMA SendsStay ==
    ASSUME General, SendsInv, [Next]_vars
    PROVE  SendsInv'
<1>1. ASSUME NEW k \in DOMAIN calls, PcStep(k) PROVE SendsInv'
  BY <1>1, PcStepSends
<1>2. ASSUME NEW k \in DOMAIN calls, ChannelOpens(k) PROVE SendsInv'
  BY <1>2, ChannelOpensSends
<1>3. ASSUME NEW p \in Pair, Deliver(p[1], p[2]) PROVE SendsInv'
  BY <1>3, DeliverSends DEF Pair
<1>4. ASSUME NEW r \in Routes, Send(r[1], r[2]) PROVE SendsInv'
  <2>1. r[1] \in Device /\ r[2] \in Device /\ r[1] # r[2]
    BY RoutesAssumption
  <2> QED BY <1>4, <2>1, SendSends
<1>5. ASSUME NEW p \in Pair, LoseSignal(p[1], p[2]) PROVE SendsInv'
  BY <1>5, LoseSignalSends DEF Pair
<1>6. ASSUME NEW x \in Device, Reload(x) PROVE SendsInv'
  BY <1>6, ReloadSends
<1>7. ASSUME UNCHANGED vars PROVE SendsInv'
  BY <1>7 DEF vars, SendsInv, Undisturbed
<1> QED BY <1>1, <1>2, <1>3, <1>4, <1>5, <1>6, <1>7 DEF Next, SystemStep, UserStep, Fault, CallStep

LEMMA SendsInit ==
    ASSUME Init PROVE SendsInv
  BY DEF Init, SendsInv

\* What holds in every state of the negotiations, about the calls and the sends.
LEMMA Negotiated ==
    Spec => [](General /\ SendsInv)
<1>1. Init => General /\ SendsInv
  BY GeneralInit, SendsInit
<1>2. General /\ SendsInv /\ [Next]_vars => (General /\ SendsInv)'
  <2>1. SUFFICES ASSUME General, SendsInv, [Next]_vars
                 PROVE  General' /\ SendsInv'
    OBVIOUS
  <2>2. General'
    BY <2>1, GeneralStays
  <2>3. SendsInv'
    BY <2>1, SendsStay
  <2> QED BY <2>2, <2>3
<1> QED BY <1>1, <1>2, PTL DEF Spec

\* A send that nothing disturbed, as the properties need it.
LEMMA Sends ==
    ASSUME General, SendsInv, NEW i \in DOMAIN calls, Undisturbed(i)
    PROVE  \E a, b, t, r :
              /\ Scene(i, a, b, calls) /\ a = calls[i].page /\ b = calls[i].peer /\ calls[i].initiator
              /\ <<a, b>> \in Pair /\ <<b, a>> \in Pair
              /\ t = wire[<<a, b>>] /\ r = wire[<<b, a>>]
              /\ Joined(i, calls) \/ Negotiates(i, a, b, calls, t, r)
<1>1. calls[i].initiator /\ calls[i].undisturbed
  BY DEF Undisturbed
<1>2. PICK a : a = calls[i].page
  OBVIOUS
<1>3. PICK b : b = calls[i].peer
  OBVIOUS
<1>4. PICK cs : cs = calls
  OBVIOUS
<1>5. /\ Scene(i, a, b, cs) /\ <<a, b>> \in Pair /\ <<b, a>> \in Pair
      /\ Joined(i, cs) \/ Negotiates(i, a, b, cs, wire[<<a, b>>], wire[<<b, a>>])
  BY <1>1, <1>2, <1>3, <1>4, Sender
<1> QED BY <1>1, <1>2, <1>3, <1>4, <1>5

\* The answer a call accepts is one to the offer it made, although nothing in an
\* answer says so (connection.ts 56-62) and several calls of the page listen.
THEOREM AnswersAreOwn == Spec => []AnswersOwnOffer
<1>1. General /\ SendsInv => AnswersOwnOffer
  <2>1. SUFFICES ASSUME General, SendsInv, NEW i \in DOMAIN calls, Undisturbed(i),
                        calls[i].cur.remote # NoDesc
                 PROVE  calls[i].cur.remote.kind = "answer" /\ calls[i].cur.remote.to = i
    BY DEF AnswersOwnOffer
  <2>2. PICK a, b, t, r : /\ Scene(i, a, b, calls)
                          /\ Joined(i, calls) \/ Negotiates(i, a, b, calls, t, r)
    BY <2>1, Sends
  <2>3. CASE Joined(i, calls)
    BY <2>3 DEF Joined
  <2>4. CASE Negotiates(i, a, b, calls, t, r)
    <3>1. PICK cs : cs = calls
      OBVIOUS
    <3>2. Scene(i, a, b, cs) /\ Negotiates(i, a, b, cs, t, r) /\ cs[i].cur.remote # NoDesc
      BY <2>1, <2>2, <2>4, <3>1
    <3>3. cs[i].cur.remote.kind = "answer" /\ cs[i].cur.remote.to = i
      BY <3>2, NegotiationAgrees
    <3> QED BY <3>1, <3>3
  <2> QED BY <2>2, <2>3, <2>4
<1> QED BY <1>1, Negotiated, PTL

\* A channel that is open has the other end at a listening call of the peer, and
\* keeps it whatever the devices send next (connection.ts 84-87).
THEOREM OpenStaysHeard == Spec => []OpenIsHeard
<1>1. General /\ SendsInv => OpenIsHeard
  <2>1. SUFFICES ASSUME General, SendsInv, NEW i \in DOMAIN calls, Undisturbed(i), calls[i].state = "open"
                 PROVE  \E j \in DOMAIN calls :
                            Agree(i, j) /\ ~calls[j].initiator /\ calls[j].page = calls[i].peer
    BY DEF OpenIsHeard
  <2>2. PICK a, b, t, r : /\ Scene(i, a, b, calls) /\ b = calls[i].peer
                          /\ Joined(i, calls) \/ Negotiates(i, a, b, calls, t, r)
    BY <2>1, Sends
  <2>3. CASE Joined(i, calls)
    <3>1. PICK j \in DOMAIN calls :
             /\ Done(calls[j]) /\ ~calls[j].initiator /\ calls[j].page = calls[i].peer
             /\ calls[i].cur.local # NoDesc
             /\ calls[i].cur.local = calls[j].cur.remote /\ calls[i].cur.remote = calls[j].cur.local
      BY <2>3 DEF Joined
    <3>2. Alive(i) /\ Alive(j)
      BY <2>1, <3>1 DEF Alive, Done
    <3> QED BY <3>1, <3>2 DEF Agree
  <2>4. CASE Negotiates(i, a, b, calls, t, r)
    <3>1. PICK cs : cs = calls
      OBVIOUS
    <3>2. Scene(i, a, b, cs) /\ Negotiates(i, a, b, cs, t, r) /\ cs[i].state = "open"
      BY <2>1, <2>2, <2>4, <3>1
    <3>3. Agreed(cs[i], i) /\ AnswerTo(i, a, b, cs, cs[i].cur.remote)
      BY <3>2, NegotiationAgrees
    <3>4. PICK k : k = cs[i].cur.remote.by
      OBVIOUS
    <3>5. /\ k \in DOMAIN cs /\ OfPeer(cs[k], a, b) /\ AnswerMade(cs[k], k, OfferOf(i))
          /\ cs[i].cur.remote = AnswerOf(k, OfferOf(i))
      BY <3>3, <3>4 DEF AnswerTo
    <3>6. i \in Nat /\ OfferOf(i) # NoDesc
      BY <3>2, SceneFacts, DescriptionTypes
    <3>7. Alive(i) /\ Alive(k)
      BY <2>1, <3>1, <3>5 DEF Alive, AnswerMade
    <3>8. Agree(i, k)
      BY <3>1, <3>3, <3>5, <3>6, <3>7 DEF Agree, Agreed, AnswerMade
    <3> QED BY <2>2, <3>1, <3>5, <3>8 DEF OfPeer, AnswerMade
  <2> QED BY <2>2, <2>3, <2>4
<1> QED BY <1>1, Negotiated, PTL

\* Once all has arrived and settled, a send that nothing disturbed has its channel,
\* open at both ends: no candidate came too early (connection.ts 72-77), and no call
\* that an earlier page left listening keeps it waiting.
THEOREM NoSendIsStuck == Spec => []NoStuckSend
<1>1. General /\ SendsInv => NoStuckSend
  <2>1. SUFFICES ASSUME General, SendsInv, Settled, NEW i \in DOMAIN calls, Undisturbed(i)
                 PROVE  OpenAtBothEnds(i)
    BY DEF NoStuckSend
  <2>2. PICK a, b, t, r : /\ Scene(i, a, b, calls) /\ calls[i].initiator
                          /\ <<a, b>> \in Pair /\ <<b, a>> \in Pair
                          /\ t = wire[<<a, b>>] /\ r = wire[<<b, a>>]
                          /\ Joined(i, calls) \/ Negotiates(i, a, b, calls, t, r)
    BY <2>1, Sends
  <2>3. /\ t = <<>> /\ r = <<>>
        /\ \A k \in DOMAIN calls : calls[k].ops = <<>> /\ ~CanOpen(k)
    BY <2>1, <2>2 DEF Settled
  <2>4. CASE Joined(i, calls)
    <3>1. PICK j \in DOMAIN calls :
             /\ Done(calls[j]) /\ ~calls[j].initiator
             /\ calls[i].cur.local # NoDesc
             /\ calls[i].cur.local = calls[j].cur.remote /\ calls[i].cur.remote = calls[j].cur.local
      BY <2>4 DEF Joined
    <3>2. calls[i].state = "open" /\ calls[j].state = "open"
      BY <2>4, <3>1 DEF Joined, Done
    <3>3. Agree(i, j)
      BY <3>1, <3>2 DEF Agree, Alive
    <3> QED BY <3>1, <3>2, <3>3 DEF OpenAtBothEnds
  <2>5. CASE Negotiates(i, a, b, calls, t, r)
    <3>1. PICK cs : cs = calls
      OBVIOUS
    <3>2. Scene(i, a, b, cs) /\ Negotiates(i, a, b, cs, t, r) /\ cs[i].ops = <<>>
      BY <2>1, <2>2, <2>3, <2>5, <3>1
    <3>3. ~Offering(i, a, b, cs, t, r)
      BY <2>3, <3>2 DEF Offering, Unsent
    <3>4. Exchanging(i, a, b, cs, t, r)
      BY <3>2, <3>3 DEF Negotiates
    <3>5. PICK k \in DOMAIN cs : OfPeer(cs[k], a, b) /\ AnswerMade(cs[k], k, OfferOf(i))
      <4>1. PICK k \in DOMAIN cs : /\ OfPeer(cs[k], a, b)
                                   /\ Answering(cs[k], k, OfferOf(i)) \/ AnswerMade(cs[k], k, OfferOf(i))
        BY <3>4 DEF Exchanging, PeerSide
      <4>2. ~Answering(cs[k], k, OfferOf(i))
        BY <2>3, <3>1 DEF Answering
      <4> QED BY <4>1, <4>2
    <3>6. ~FirstAnswer(i, a, b, cs, r)
      BY <2>3, <3>2, <3>5 DEF FirstAnswer
    <3>7. Agreed(cs[i], i) /\ AnswerTo(i, a, b, cs, cs[i].cur.remote) /\ Reaching(i, cs, r)
      BY <3>4, <3>6 DEF Exchanging, CallerSide
    <3>8. Reached(i, cs)
      BY <2>3, <3>2, <3>7 DEF Reaching
    <3>9. PICK j : j = cs[i].cur.remote.by
      OBVIOUS
    <3>10. /\ j \in DOMAIN cs /\ OfPeer(cs[j], a, b) /\ AnswerMade(cs[j], j, OfferOf(i))
           /\ cs[i].cur.remote = AnswerOf(j, OfferOf(i))
      BY <3>7, <3>9 DEF AnswerTo
    <3>11. i \in Nat /\ OfferOf(i) # NoDesc /\ cs[i].cur.remote # NoDesc
      BY <3>2, <3>7, SceneFacts, DescriptionTypes DEF Agreed
    <3>12. Alive(i) /\ Alive(j)
      BY <3>1, <3>7, <3>10 DEF Alive, Agreed, AnswerMade
    <3>13. Agree(i, j) /\ Agree(j, i)
      BY <3>1, <3>7, <3>10, <3>11, <3>12 DEF Agree, Agreed, AnswerMade
    <3>14. Reachable(i, j) /\ Reachable(j, i)
      BY <3>1, <3>7, <3>8, <3>9, <3>10, <3>13 DEF Reachable, Reached, Agreed, AnswerMade
    <3>15. ~cs[i].subscribed /\ ~cs[j].subscribed
      BY <2>2, <2>3, <3>1, <3>10, <3>14 DEF CanOpen
    <3>16. Lives(cs[i]) /\ Lives(cs[j]) /\ cs[j] \in Call /\ ~cs[j].initiator /\ cs[j].state # "gone"
      BY <3>2, <3>10, SceneFacts DEF AnswerMade, Scene
    <3>17. cs[i].state = "open" /\ cs[j].state = "open"
      BY <3>7, <3>15, <3>16, CallFields DEF Lives, Agreed
    <3> QED BY <3>1, <3>10, <3>13, <3>16, <3>17 DEF OpenAtBothEnds
  <2> QED BY <2>2, <2>4, <2>5
<1> QED BY <1>1, Negotiated, PTL
=============================================================================

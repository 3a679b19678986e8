------------------------- MODULE AuctionServerProofs --------------------------
(* Proofs about the WebSocket front, for any number of sessions, of threads,  *)
(* of requests and of changes.                                                *)
(*                                                                            *)
(* The argument: for each session and each change, either the event is in     *)
(* what was delivered to the session, or it is on its way there (the handler  *)
(* that made the change has still to copy the set of sessions, or has the     *)
(* session on its copy), or the session was not there when it was made; and   *)
(* never two of these.                                                        *)
EXTENDS AuctionServer, FiniteSetTheorems, DataLemmas

\* The handler of h has made a change and is telling the sessions.
Making(h) == handler[h].pc \in {"snapshot", "deliver"}

\* The event of h's change is on its way to s.
OnItsWay(h, s) ==
    \/ handler[h].pc = "snapshot"
    \/ handler[h].pc = "deliver" /\ s \in handler[h].todo

Told(s, v) == \E k \in DOMAIN Log(s) : Log(s)[k] = Event(v)

\* What a handler holds, depending on where it is.
FormOf(h) ==
    /\ phase[h] = "handling" <=> handler[h].pc # "idle"
    /\ handler[h].pc # "deliver" => handler[h].todo = {}
    /\ handler[h].pc = "manage" => handler[h].reply = Response(0)
    /\ handler[h].pc = "reply" =>
         handler[h].reply = Response(0) \/ handler[h].reply.kind = "state"
    /\ Making(h) => /\ handler[h].ver \in 1..version
                    /\ handler[h].reply = Response(handler[h].ver)

HandlersInForm == \A h \in Sessions : FormOf(h)

\* Nothing is there of a session that was not accepted yet.
NotYetThere ==
    \A s \in Sessions :
      phase[s] = "none" =>
        /\ ~broken[s] /\ writes[s] = 0
        /\ sent[s] = <<>> /\ write_queue[s] = <<>> /\ posted[s] = <<>>
        /\ \A h \in Sessions : s \notin handler[h].todo

ControlInv ==
    TypeOK /\ OneWriteAtATime /\ LiveSessionsRegistered /\ HandlersInForm /\ NotYetThere

\* No two handlers tell of the same change.
ChangesApart ==
    \A g, h \in Sessions :
      (Making(g) /\ Making(h) /\ g # h) => handler[g].ver # handler[h].ver

EventsKnown ==
    \A s \in Sessions : \A k \in DOMAIN Log(s) :
      Log(s)[k].kind = "event" => Log(s)[k].ver \in 1..version

ToldOnce ==
    \A s \in Sessions : \A j, k \in DOMAIN Log(s) :
      (Log(s)[j].kind = "event" /\ Log(s)[j] = Log(s)[k]) => j = k

\* What is on its way has not arrived.
NotToldTwice ==
    \A h, s \in Sessions :
      OnItsWay(h, s) => ~Told(s, handler[h].ver)

ToldOrOnItsWay ==
    \A s \in sessions : \A v \in 1..version :
      joined[s] < v =>
        Told(s, v) \/ \E h \in Sessions : OnItsWay(h, s) /\ handler[h].ver = v

\* A handler's own session is told before the handler answers.
TellsItself ==
    \A h \in Sessions :
      (handler[h].pc = "deliver" /\ ~broken[h]) =>
        h \in handler[h].todo \/ Told(h, handler[h].ver)

LogInv ==
    /\ ChangesApart /\ EventsKnown /\ ToldOnce /\ NotToldTwice /\ ToldOrOnItsWay
    /\ TellsItself /\ EventBeforeResponse

\* One thread runs one handler, which holds what the auction is now.
AloneAndCurrent ==
    threads = 1 =>
      /\ \A g, h \in Sessions : phase[g] = "handling" /\ phase[h] = "handling" => g = h
      /\ \A h \in Sessions :
           /\ Making(h) \/ handler[h].pc = "items" => handler[h].ver = version
           /\ handler[h].pc = "reply" /\ handler[h].reply.kind = "state" =>
                handler[h].reply.users = version

OneThreadInv == AloneAndCurrent /\ ClientsDoNotGoBack

-----------------------------------------------------------------------------
(* Messages *)

LEMMA MessageForms ==
    /\ \A v \in Versions : /\ Event(v) \in Message /\ Response(v) \in Message
                           /\ Event(v).kind = "event" /\ Event(v).ver = v
                           /\ Response(v).kind = "response" /\ Response(v).ver = v
    /\ \A u, i \in Versions : /\ State(u, i) \in Message /\ State(u, i).kind = "state"
                              /\ State(u, i).users = u /\ State(u, i).items = i
    /\ \A m \in Message : /\ m.kind = "event" => m.ver \in Versions /\ m = Event(m.ver)
                          /\ m.kind = "response" => m.ver \in Versions
                          /\ m.kind \in {"event", "response", "state"}
                          /\ m.kind = "state" => m.users \in Versions
  BY DEF Message, Event, Response, State

LEMMA VersionForms ==
    /\ MaxVersion \in Nat /\ 0 \in Versions /\ Versions \subseteq Nat
    /\ \A v \in Versions : v < MaxVersion => v + 1 \in Versions
  BY ServerAssumption DEF Versions

HandlerType == [pc : Steps, ver : Versions, todo : SUBSET Sessions, reply : Message]

LEMMA NoHandlerType ==
    /\ NoHandler \in HandlerType
    /\ NoHandler.pc = "idle" /\ NoHandler.todo = {}
  <1>1. Response(0) \in Message /\ 0 \in Versions
    BY MessageForms, VersionForms
  <1> QED
    BY <1>1 DEF NoHandler, HandlerType, Steps

-----------------------------------------------------------------------------
(* Types *)

ReadTypeOK ==
    /\ threads \in ThreadCounts
    /\ version \in Versions
    /\ sessions \subseteq Sessions
    /\ phase \in [Sessions -> Phases]
    /\ broken \in [Sessions -> BOOLEAN]
    /\ handler \in [Sessions -> HandlerType]
    /\ received \in [Sessions -> Nat]
    /\ joined \in [Sessions -> Versions]

WriteTypeOK ==
    /\ posted \in [Sessions -> Seq(Message)]
    /\ write_queue \in [Sessions -> Seq(Message)]
    /\ writes \in [Sessions -> Nat]
    /\ \A s \in Sessions : writes[s] <= Len(write_queue[s])
    /\ sent \in [Sessions -> Seq(Message)]

LEMMA TypeParts == TypeOK <=> ReadTypeOK /\ WriteTypeOK
  BY DEF TypeOK, ReadTypeOK, WriteTypeOK, HandlerType

LEMMA TypePartsNext == TypeOK' <=> ReadTypeOK' /\ WriteTypeOK'
  BY DEF TypeOK, ReadTypeOK, WriteTypeOK, HandlerType

LEMMA ReadTypeStep ==
    ASSUME ReadTypeOK, NEW s \in Sessions,
           \/ Accept(s) \/ HandshakeDone(s) \/ ReadSideFails(s)
           \/ ReadChange(s) \/ ReadMalformed(s) \/ ReadGetState(s)
           \/ ReadStep(s)
           \/ WriteStep(s) \/ OnWriteError(s)
    PROVE  ReadTypeOK'
  <1> USE DEF ReadTypeOK
  <1>1. CASE Accept(s)
    BY <1>1 DEF Accept, Phases
  <1>2. CASE HandshakeDone(s)
    BY <1>2 DEF HandshakeDone, Phases
  <1>3. CASE ReadSideFails(s)
    BY <1>3 DEF ReadSideFails, Phases, Unregister
  <1>4. ASSUME NEW h \in HandlerType, Enter(s, h)
        PROVE  ReadTypeOK'
    BY <1>4 DEF Enter, Phases
  <1>5. CASE ReadChange(s)
    <2>1. [NoHandler EXCEPT !.pc = "manage"] \in HandlerType
      BY NoHandlerType DEF HandlerType, Steps
    <2> QED
      BY <1>4, <1>5, <2>1 DEF ReadChange
  <1>6. CASE ReadMalformed(s)
    <2>1. [NoHandler EXCEPT !.pc = "reply"] \in HandlerType
      BY NoHandlerType DEF HandlerType, Steps
    <2> QED
      BY <1>4, <1>6, <2>1 DEF ReadMalformed
  <1>7. CASE ReadGetState(s)
    <2>1. [NoHandler EXCEPT !.pc = "items", !.ver = version] \in HandlerType
      BY NoHandlerType DEF HandlerType, Steps
    <2> QED
      BY <1>4, <1>7, <2>1 DEF ReadGetState
  <1>8. ASSUME NEW h \in HandlerType, handler' = [handler EXCEPT ![s] = h],
               UNCHANGED <<threads, sessions, broken, received, joined>>,
               phase' \in [Sessions -> Phases], version' \in Versions
        PROVE  ReadTypeOK'
    BY <1>8
  <1>9. handler[s] \in HandlerType
    OBVIOUS
  <1>10. CASE Refuse(s)
    <2> DEFINE h == [handler[s] EXCEPT !.pc = "reply"]
    <2>1. h \in HandlerType
      BY <1>9 DEF HandlerType, Steps
    <2>2. handler' = [handler EXCEPT ![s] = h]
      BY <1>10 DEF Refuse
    <2> HIDE DEF h
    <2> QED
      BY <1>8, <1>10, <2>1, <2>2 DEF Refuse
  <1>11. CASE Change(s)
    <2> DEFINE v == version + 1
               h == [handler[s] EXCEPT !.pc = "snapshot", !.ver = v, !.reply = Response(v)]
    <2>1. v \in Versions
      BY <1>11, VersionForms DEF Change
    <2>2. Response(v) \in Message
      BY <2>1, MessageForms
    <2> HIDE DEF v
    <2>3. h \in HandlerType
      BY <1>9, <2>1, <2>2 DEF HandlerType, Steps
    <2>4. handler' = [handler EXCEPT ![s] = h] /\ version' = v
      BY <1>11 DEF Change, v
    <2> HIDE DEF h
    <2> QED
      BY <1>8, <1>11, <2>1, <2>3, <2>4 DEF Change
  <1>12. CASE Snapshot(s)
    <2> DEFINE h == [handler[s] EXCEPT !.pc = "deliver", !.todo = sessions]
    <2>1. h \in HandlerType
      BY <1>9 DEF HandlerType, Steps
    <2>2. handler' = [handler EXCEPT ![s] = h]
      BY <1>12 DEF Snapshot, Recipients
    <2> HIDE DEF h
    <2> QED
      BY <1>8, <1>12, <2>1, <2>2 DEF Snapshot
  <1>13. ASSUME NEW t \in Sessions, DeliverTo(s, t)
         PROVE  ReadTypeOK'
    <2> DEFINE h == [handler[s] EXCEPT !.todo = @ \ {t}]
    <2>1. h \in HandlerType
      BY <1>9 DEF HandlerType, Steps
    <2>2. handler' = [handler EXCEPT ![s] = h]
      BY <1>13 DEF DeliverTo
    <2> HIDE DEF h
    <2> QED
      BY <1>8, <1>13, <2>1, <2>2 DEF DeliverTo
  <1>14. CASE CopyItems(s)
    <2> DEFINE m == State(handler[s].ver, version)
               h == [handler[s] EXCEPT !.pc = "reply", !.reply = m]
    <2>1. handler[s].ver \in Versions
      BY <1>9 DEF HandlerType
    <2>2. m \in Message
      BY <2>1, MessageForms
    <2>3. handler' = [handler EXCEPT ![s] = h]
      BY <1>14 DEF CopyItems
    <2> HIDE DEF m
    <2>4. h \in HandlerType
      BY <1>9, <2>2 DEF HandlerType, Steps
    <2> HIDE DEF h
    <2> QED
      BY <1>8, <1>14, <2>3, <2>4 DEF CopyItems
  <1>15. CASE Reply(s)
    BY <1>8, <1>15, NoHandlerType DEF Reply, Phases
  <1>16. CASE RunPosted(s)
    BY <1>16 DEF RunPosted, readVars
  <1>17. CASE OnWrite(s)
    BY <1>17 DEF OnWrite, readVars
  <1>18. CASE OnWriteError(s)
    BY <1>18 DEF OnWriteError, readVars, Unregister
  <1> QED
    BY <1>1, <1>2, <1>3, <1>5, <1>6, <1>7, <1>10, <1>11, <1>12, <1>13, <1>14, <1>15,
       <1>16, <1>17, <1>18 DEF ReadStep, WriteStep

-----------------------------------------------------------------------------
(* Writes *)

\* The steps that put nothing on a queue and take nothing from one.
ReadOnly(s) ==
    \/ Accept(s) \/ HandshakeDone(s) \/ ReadSideFails(s)
    \/ ReadChange(s) \/ ReadMalformed(s) \/ ReadGetState(s)
    \/ Refuse(s) \/ Change(s) \/ Snapshot(s) \/ CopyItems(s)

LEMMA ReadOnlyForm ==
    ASSUME NEW s \in Sessions, ReadOnly(s)
    PROVE  UNCHANGED writeVars
  BY DEF ReadOnly, Accept, HandshakeDone, ReadSideFails, ReadChange, ReadMalformed,
         ReadGetState, Enter, Refuse, Change, Snapshot, CopyItems

LEMMA ReplyTypes ==
    ASSUME ReadTypeOK, NEW h \in Sessions
    PROVE  handler[h].reply \in Message /\ Event(handler[h].ver) \in Message
  BY MessageForms DEF ReadTypeOK, HandlerType

\* Something is posted: by DeliverTo or by Reply.
LEMMA PostHolds ==
    ASSUME WriteTypeOK, OneWriteAtATime, NEW t \in Sessions, NEW m \in Message,
           Post(t, m), UNCHANGED <<broken, write_queue, writes, sent>>
    PROVE  WriteTypeOK' /\ OneWriteAtATime'
  <1>1. /\ posted \in [Sessions -> Seq(Message)]
        /\ posted' = [posted EXCEPT ![t] = Append(posted[t], m)]
    BY DEF WriteTypeOK, Post
  <1>2. Append(posted[t], m) \in Seq(Message)
    BY <1>1, SeqAppend
  <1>3. posted' \in [Sessions -> Seq(Message)]
    BY <1>1, <1>2
  <1> QED
    BY <1>3 DEF WriteTypeOK, OneWriteAtATime

LEMMA RunPostedHolds ==
    ASSUME WriteTypeOK, OneWriteAtATime, NEW s \in Sessions, RunPosted(s)
    PROVE  WriteTypeOK' /\ OneWriteAtATime'
  <1> DEFINE q == write_queue[s]
             r == Append(q, Head(posted[s]))
             w == writes[s] + WritesToStart(q)
  <1>1. /\ posted[s] \in Seq(Message) /\ q \in Seq(Message) /\ posted[s] # <<>>
        /\ writes[s] \in Nat /\ Len(q) \in Nat /\ writes[s] <= Len(q) /\ writes[s] <= 1
        /\ ~broken[s] /\ q # <<>> => writes[s] = 1
    BY LenProperties DEF WriteTypeOK, OneWriteAtATime, RunPosted
  <1>2. Head(posted[s]) \in Message /\ Tail(posted[s]) \in Seq(Message)
    BY <1>1, HeadTailProperties
  <1>3. r \in Seq(Message) /\ Len(r) = Len(q) + 1 /\ r # <<>>
    <2> DEFINE e == Head(posted[s])
    <2>1. q \in Seq(Message) /\ e \in Message
      BY <1>1, <1>2
    <2> HIDE DEF q, e
    <2>2. /\ Append(q, e) \in Seq(Message) /\ Len(Append(q, e)) = Len(q) + 1
          /\ Append(q, e) # <<>>
      BY <2>1, SeqAppend
    <2> QED
      BY <2>2 DEF e
  <1>4. w \in Nat /\ w <= 1 /\ w <= Len(r) /\ (~broken[s] => w = 1)
    <2>1. CASE q = <<>>
      <3>1. Len(q) = 0
        BY <2>1, EmptySeq
      <3> QED
        BY <1>1, <1>3, <2>1, <3>1 DEF WritesToStart
    <2>2. CASE q # <<>>
      BY <1>1, <1>3, <2>2 DEF WritesToStart
    <2> QED
      BY <2>1, <2>2
  <1>5. /\ posted' = [posted EXCEPT ![s] = Tail(posted[s])]
        /\ write_queue' = [write_queue EXCEPT ![s] = r]
        /\ writes' = [writes EXCEPT ![s] = w]
        /\ sent' = sent /\ broken' = broken
    BY DEF RunPosted, WriteTypeOK
  <1> HIDE DEF q, r, w
  <1>6. WriteTypeOK'
    BY <1>2, <1>3, <1>4, <1>5 DEF WriteTypeOK
  <1>7. OneWriteAtATime'
    BY <1>3, <1>4, <1>5 DEF WriteTypeOK, OneWriteAtATime
  <1> QED
    BY <1>6, <1>7

LEMMA OnWriteHolds ==
    ASSUME WriteTypeOK, OneWriteAtATime, NEW s \in Sessions, OnWrite(s)
    PROVE  WriteTypeOK' /\ OneWriteAtATime'
  <1> DEFINE q == write_queue[s]
             w == IF Len(q) > 1 THEN writes[s] ELSE writes[s] - 1
  <1>1. /\ q \in Seq(Message) /\ sent[s] \in Seq(Message) /\ writes[s] = 1
        /\ Len(q) \in Nat /\ writes[s] <= Len(q)
    BY LenProperties DEF WriteTypeOK, OneWriteAtATime, OnWrite
  <1>2. q # <<>>
    BY <1>1, EmptySeq
  <1>3. /\ Head(q) \in Message /\ Tail(q) \in Seq(Message) /\ Len(Tail(q)) = Len(q) - 1
    BY <1>1, <1>2, HeadTailProperties
  <1>4. Append(sent[s], Head(q)) \in Seq(Message)
    BY <1>1, <1>3, SeqAppend
  <1>5. /\ w \in Nat /\ w <= 1 /\ w <= Len(Tail(q))
        /\ Tail(q) # <<>> => w = 1
    <2>1. Tail(q) # <<>> => Len(Tail(q)) \in Nat \ {0}
      BY <1>3, EmptySeq
    <2> QED
      BY <1>1, <1>3, <2>1
  <1>6. /\ sent' = [sent EXCEPT ![s] = Append(sent[s], Head(q))]
        /\ write_queue' = [write_queue EXCEPT ![s] = Tail(q)]
        /\ writes' = [writes EXCEPT ![s] = w]
        /\ posted' = posted /\ broken' = broken
    BY DEF OnWrite, WriteTypeOK
  <1> DEFINE tl == Tail(q)
             out == Append(sent[s], Head(q))
  <1>7. tl \in Seq(Message) /\ out \in Seq(Message) /\ w <= Len(tl) /\ (tl # <<>> => w = 1)
    BY <1>3, <1>4, <1>5
  <1>8. write_queue' = [write_queue EXCEPT ![s] = tl] /\ sent' = [sent EXCEPT ![s] = out]
    BY <1>6
  <1> HIDE DEF q, w, tl, out
  <1>9. WriteTypeOK'
    <2>1. /\ posted' \in [Sessions -> Seq(Message)]
          /\ write_queue' \in [Sessions -> Seq(Message)]
          /\ sent' \in [Sessions -> Seq(Message)]
      <3>1. posted' = posted
        BY <1>6
      <3>2. /\ write_queue \in [Sessions -> Seq(Message)]
            /\ sent \in [Sessions -> Seq(Message)]
            /\ posted \in [Sessions -> Seq(Message)]
        BY DEF WriteTypeOK
      <3>3. tl \in Seq(Message) /\ out \in Seq(Message)
        BY <1>7
      <3> QED
        BY <1>8, <3>1, <3>2, <3>3
    <2>2. w \in Nat /\ writes \in [Sessions -> Nat]
      BY <1>5 DEF WriteTypeOK
    <2>3. writes' \in [Sessions -> Nat]
      BY <1>6, <2>2
    <2>4. ASSUME NEW t \in Sessions
          PROVE  writes'[t] <= Len(write_queue'[t])
      <3>1. CASE t = s
        BY <1>6, <1>7, <1>8, <3>1 DEF WriteTypeOK
      <3>2. CASE t # s
        <4>1. writes'[t] = writes[t] /\ write_queue'[t] = write_queue[t]
          BY <1>6, <1>8, <3>2 DEF WriteTypeOK
        <4> QED
          BY <4>1 DEF WriteTypeOK
      <3> QED
        BY <3>1, <3>2
    <2> QED
      BY <2>1, <2>3, <2>4 DEF WriteTypeOK
  <1>10. OneWriteAtATime'
    BY <1>5, <1>6, <1>7, <1>8 DEF WriteTypeOK, OneWriteAtATime
  <1> QED
    BY <1>9, <1>10

LEMMA WritesHold ==
    ASSUME ReadTypeOK, WriteTypeOK, OneWriteAtATime, NEW s \in Sessions,
           \/ Accept(s) \/ HandshakeDone(s) \/ ReadSideFails(s)
           \/ ReadChange(s) \/ ReadMalformed(s) \/ ReadGetState(s)
           \/ ReadStep(s)
           \/ WriteStep(s) \/ OnWriteError(s)
    PROVE  WriteTypeOK' /\ OneWriteAtATime'
  <1>1. CASE ReadOnly(s)
    <2>1. UNCHANGED writeVars
      BY <1>1, ReadOnlyForm
    <2>2. WriteTypeOK'
      BY <2>1 DEF writeVars, WriteTypeOK
    <2>3. \A t \in Sessions : ~broken'[t] => ~broken[t]
      BY <1>1 DEF ReadTypeOK, ReadOnly, Accept, HandshakeDone, ReadSideFails, ReadChange,
                  ReadMalformed, ReadGetState, Enter, Refuse, Change, Snapshot, CopyItems
    <2>4. OneWriteAtATime'
      BY <2>1, <2>3 DEF writeVars, OneWriteAtATime
    <2> QED
      BY <2>2, <2>4
  <1>2. ASSUME NEW t \in Sessions, DeliverTo(s, t)
        PROVE  WriteTypeOK' /\ OneWriteAtATime'
    <2>1. /\ Post(t, Event(handler[s].ver))
          /\ UNCHANGED <<broken, write_queue, writes, sent>>
      BY <1>2 DEF DeliverTo
    <2> QED
      BY <2>1, PostHolds, ReplyTypes
  <1>3. CASE Reply(s)
    <2>1. /\ Post(s, handler[s].reply)
          /\ UNCHANGED <<broken, write_queue, writes, sent>>
      BY <1>3 DEF Reply
    <2> QED
      BY <2>1, PostHolds, ReplyTypes
  <1>4. CASE OnWriteError(s)
    <2>1. /\ writes[s] \in Nat /\ writes[s] > 0 /\ writes' = [writes EXCEPT ![s] = writes[s] - 1]
          /\ broken' = [broken EXCEPT ![s] = TRUE]
          /\ UNCHANGED <<posted, write_queue, sent>>
          /\ Len(write_queue[s]) \in Nat
      BY <1>4, LenProperties DEF OnWriteError, WriteTypeOK
    <2>2. WriteTypeOK'
      BY <2>1 DEF WriteTypeOK
    <2>3. OneWriteAtATime'
      BY <2>1 DEF ReadTypeOK, WriteTypeOK, OneWriteAtATime
    <2> QED
      BY <2>2, <2>3
  <1> QED
    BY <1>1, <1>2, <1>3, <1>4, RunPostedHolds, OnWriteHolds DEF ReadOnly, ReadStep, WriteStep

-----------------------------------------------------------------------------
(* Control *)

SessionStep(s) ==
    \/ Accept(s) \/ HandshakeDone(s) \/ ReadSideFails(s)
    \/ ReadChange(s) \/ ReadMalformed(s) \/ ReadGetState(s)
    \/ ReadStep(s)
    \/ WriteStep(s) \/ OnWriteError(s)

LEMMA LiveStep ==
    ASSUME ControlInv, NEW s \in Sessions, SessionStep(s)
    PROVE  LiveSessionsRegistered'
  <1> USE DEF LiveSessionsRegistered
  <1>0. /\ phase \in [Sessions -> Phases] /\ broken \in [Sessions -> BOOLEAN]
        /\ sessions = {t \in Sessions : phase[t] \notin {"none", "closed"} /\ ~broken[t]}
        /\ phase[s] = "none" => ~broken[s]
    BY DEF ControlInv, TypeOK, NotYetThere
  <1>1. CASE Accept(s)
    BY <1>0, <1>1 DEF Accept
  <1>2. CASE HandshakeDone(s)
    BY <1>0, <1>2 DEF HandshakeDone
  <1>3. CASE ReadSideFails(s)
    BY <1>0, <1>3 DEF ReadSideFails, Unregister
  <1>4. CASE ReadChange(s) \/ ReadMalformed(s) \/ ReadGetState(s)
    BY <1>0, <1>4 DEF ReadChange, ReadMalformed, ReadGetState, Enter
  <1>5. CASE Refuse(s) \/ Change(s) \/ Snapshot(s) \/ CopyItems(s)
    BY <1>0, <1>5 DEF Refuse, Change, Snapshot, CopyItems
  <1>6. ASSUME NEW t \in Sessions, DeliverTo(s, t)
        PROVE  LiveSessionsRegistered'
    BY <1>0, <1>6 DEF DeliverTo
  <1>7. CASE Reply(s)
    <2>1. /\ phase[s] = "handling" /\ phase' = [phase EXCEPT ![s] = "reading"]
          /\ UNCHANGED <<sessions, broken>>
      BY <1>7 DEF Reply, ReadyToReply, At
    <2> QED
      BY <1>0, <2>1
  <1>8. CASE RunPosted(s) \/ OnWrite(s)
    BY <1>0, <1>8 DEF RunPosted, OnWrite, readVars
  <1>9. CASE OnWriteError(s)
    BY <1>0, <1>9 DEF OnWriteError, readVars, Unregister
  <1> QED
    BY <1>1, <1>2, <1>3, <1>4, <1>5, <1>6, <1>7, <1>8, <1>9
    DEF SessionStep, ReadStep, WriteStep

\* What a handler becomes in a step of its own, and that no other one's step
\* touches it.
LEMMA HandlerStep ==
    ASSUME ControlInv, NEW s \in Sessions, SessionStep(s)
    PROVE  /\ \A h \in Sessions \ {s} : handler'[h] = handler[h] /\ phase'[h] = phase[h]
           /\ version' # version => Change(s) /\ version' = version + 1
           /\ \A t \in Sessions : phase'[t] = "none" => phase[t] = "none"
  <1>1. phase \in [Sessions -> Phases] /\ handler \in [Sessions -> HandlerType]
    BY DEF ControlInv, TypeOK, HandlerType
  <1>2. ASSUME NEW t \in Sessions, DeliverTo(s, t)
        PROVE  /\ \A h \in Sessions \ {s} : handler'[h] = handler[h]
               /\ phase' = phase /\ version' = version
    BY <1>1, <1>2 DEF DeliverTo
  <1>3. CASE \E t \in Sessions : DeliverTo(s, t)
    BY <1>2, <1>3
  <1>4. CASE \/ Accept(s) \/ HandshakeDone(s) \/ ReadSideFails(s)
             \/ ReadChange(s) \/ ReadMalformed(s) \/ ReadGetState(s)
    BY <1>1, <1>4 DEF Accept, HandshakeDone, ReadSideFails, ReadChange, ReadMalformed,
                      ReadGetState, Enter
  <1>5. CASE Refuse(s) \/ Change(s) \/ Snapshot(s) \/ CopyItems(s) \/ Reply(s)
    BY <1>1, <1>5 DEF Refuse, Change, Snapshot, CopyItems, Reply
  <1>6. CASE RunPosted(s) \/ OnWrite(s) \/ OnWriteError(s)
    BY <1>1, <1>6 DEF RunPosted, OnWrite, OnWriteError, readVars
  <1> QED
    BY <1>3, <1>4, <1>5, <1>6 DEF SessionStep, ReadStep, WriteStep

LEMMA FormsHold ==
    ASSUME ControlInv, NEW s \in Sessions, SessionStep(s)
    PROVE  HandlersInForm'
  <1>1. /\ phase \in [Sessions -> Phases] /\ handler \in [Sessions -> HandlerType]
        /\ handler[s] \in HandlerType /\ version \in Versions /\ version \in Nat
        /\ \A h \in Sessions : FormOf(h)
    BY VersionForms DEF ControlInv, TypeOK, HandlerType, HandlersInForm, FormOf, Making
  <1>2. FormOf(s)'
    <2> USE DEF FormOf, Making
    <2>0. FormOf(s) /\ NoHandler.reply = Response(0)
      BY <1>1 DEF NoHandler
    <2>1. CASE Accept(s) \/ HandshakeDone(s) \/ ReadSideFails(s)
      BY <1>1, <2>0, <2>1 DEF Accept, HandshakeDone, ReadSideFails
    <2>2. CASE ReadChange(s)
      BY <1>1, <2>0, <2>2, NoHandlerType DEF ReadChange, Enter, HandlerType
    <2>3. CASE ReadMalformed(s)
      BY <1>1, <2>0, <2>3, NoHandlerType DEF ReadMalformed, Enter, HandlerType
    <2>4. CASE ReadGetState(s)
      BY <1>1, <2>0, <2>4, NoHandlerType DEF ReadGetState, Enter, HandlerType
    <2>5. CASE Refuse(s)
      BY <1>1, <2>0, <2>5 DEF Refuse, At, HandlerType
    <2>6. CASE Change(s)
      <3>1. version + 1 \in 1..(version + 1)
        BY <1>1
      <3> QED
        BY <1>1, <2>0, <2>6, <3>1 DEF Change, At, HandlerType
    <2>7. CASE Snapshot(s)
      BY <1>1, <2>0, <2>7 DEF Snapshot, At, HandlerType
    <2>8. CASE \E t \in Sessions : DeliverTo(s, t)
      BY <1>1, <2>0, <2>8 DEF DeliverTo, At, HandlerType
    <2>9. CASE CopyItems(s)
      <3>1. State(handler[s].ver, version).kind = "state"
        BY DEF State
      <3> QED
        BY <1>1, <2>0, <2>9, <3>1 DEF CopyItems, At, HandlerType
    <2>10. CASE Reply(s)
      BY <1>1, <2>0, <2>10, NoHandlerType DEF Reply
    <2>11. CASE RunPosted(s) \/ OnWrite(s) \/ OnWriteError(s)
      BY <1>1, <2>0, <2>11 DEF RunPosted, OnWrite, OnWriteError, readVars
    <2> QED
      BY <2>1, <2>2, <2>3, <2>4, <2>5, <2>6, <2>7, <2>8, <2>9, <2>10, <2>11
      DEF SessionStep, ReadStep, WriteStep
  <1>3. ASSUME NEW h \in Sessions \ {s}
        PROVE  FormOf(h)'
    <2>1. /\ handler'[h] = handler[h] /\ phase'[h] = phase[h]
          /\ version' = version \/ version' = version + 1
      BY HandlerStep
    <2>2. FormOf(h) /\ (1..version) \subseteq (1..version')
      BY <1>1, <2>1
    <2> QED
      BY <2>1, <2>2 DEF FormOf, Making
  <1> QED
    BY <1>2, <1>3 DEF HandlersInForm, FormOf, Making

NothingThere(s) ==
    /\ ~broken[s] /\ writes[s] = 0
    /\ sent[s] = <<>> /\ write_queue[s] = <<>> /\ posted[s] = <<>>
    /\ \A h \in Sessions : s \notin handler[h].todo

LEMMA NotYetThereStep ==
    ASSUME ControlInv, NEW s \in Sessions, SessionStep(s)
    PROVE  NotYetThere'
  <1> SUFFICES ASSUME NEW u \in Sessions, phase'[u] = "none"
               PROVE  NothingThere(u)'
    BY DEF NotYetThere, NothingThere
  <1>1. phase[u] = "none" /\ NothingThere(u)
    BY HandlerStep DEF ControlInv, NotYetThere, NothingThere
  <1>2. /\ broken \in [Sessions -> BOOLEAN] /\ writes \in [Sessions -> Nat]
        /\ phase \in [Sessions -> Phases] /\ handler \in [Sessions -> HandlerType]
        /\ posted \in [Sessions -> Seq(Message)] /\ write_queue \in [Sessions -> Seq(Message)]
        /\ sent \in [Sessions -> Seq(Message)] /\ u \notin sessions
    BY <1>1 DEF ControlInv, TypeOK, HandlerType, LiveSessionsRegistered
  <1>3. ASSUME UNCHANGED writeVars, broken'[u] = broken[u],
               \A h \in Sessions : u \notin handler'[h].todo
        PROVE  NothingThere(u)'
    BY <1>1, <1>3 DEF NothingThere, writeVars
  <1>4. CASE Accept(s)
    BY <1>1, <1>2, <1>3, <1>4 DEF Accept, NothingThere
  <1>5. CASE HandshakeDone(s)
    BY <1>1, <1>2, <1>3, <1>5 DEF HandshakeDone, NothingThere
  <1>6. CASE ReadSideFails(s)
    BY <1>1, <1>2, <1>3, <1>6 DEF ReadSideFails, NothingThere
  <1>7. ASSUME NEW k \in HandlerType, k.todo = {}, Enter(s, k)
        PROVE  NothingThere(u)'
    BY <1>1, <1>2, <1>3, <1>7 DEF Enter, NothingThere
  <1>8. CASE ReadChange(s)
    <2>1. /\ [NoHandler EXCEPT !.pc = "manage"] \in HandlerType
          /\ [NoHandler EXCEPT !.pc = "manage"].todo = {}
      BY NoHandlerType DEF HandlerType, Steps
    <2> QED
      BY <1>7, <1>8, <2>1 DEF ReadChange
  <1>9. CASE ReadMalformed(s)
    <2>1. /\ [NoHandler EXCEPT !.pc = "reply"] \in HandlerType
          /\ [NoHandler EXCEPT !.pc = "reply"].todo = {}
      BY NoHandlerType DEF HandlerType, Steps
    <2> QED
      BY <1>7, <1>9, <2>1 DEF ReadMalformed
  <1>10. CASE ReadGetState(s)
    <2>1. version \in Versions
      BY DEF ControlInv, TypeOK
    <2>2. /\ [NoHandler EXCEPT !.pc = "items", !.ver = version] \in HandlerType
          /\ [NoHandler EXCEPT !.pc = "items", !.ver = version].todo = {}
      BY NoHandlerType, <2>1 DEF HandlerType, Steps
    <2> QED
      BY <1>7, <1>10, <2>2 DEF ReadGetState
  <1>11. CASE Refuse(s) \/ Change(s) \/ Snapshot(s) \/ CopyItems(s)
    <2>1. UNCHANGED writeVars /\ broken' = broken
      BY <1>11 DEF Refuse, Change, Snapshot, CopyItems
    <2>2. u \notin handler'[s].todo
      <3>1. u \notin handler[s].todo /\ handler[s] \in HandlerType
        BY <1>1, <1>2 DEF NothingThere
      <3>2. CASE Snapshot(s)
        BY <1>2, <3>1, <3>2 DEF Snapshot, Recipients, HandlerType
      <3>3. CASE Refuse(s)
        BY <1>2, <3>1, <3>3 DEF Refuse, HandlerType
      <3>4. CASE Change(s)
        BY <1>2, <3>1, <3>4 DEF Change, HandlerType
      <3>5. CASE CopyItems(s)
        BY <1>2, <3>1, <3>5 DEF CopyItems, HandlerType
      <3> QED
        BY <1>11, <3>2, <3>3, <3>4, <3>5
    <2>3. \A h \in Sessions \ {s} : handler'[h] = handler[h]
      BY HandlerStep
    <2> QED
      BY <1>1, <1>3, <2>1, <2>2, <2>3 DEF NothingThere
  <1>12. ASSUME NEW t \in Sessions, DeliverTo(s, t)
         PROVE  NothingThere(u)'
    <2>1. t # u
      BY <1>1, <1>12 DEF DeliverTo, NothingThere
    <2>2. posted'[u] = posted[u] /\ UNCHANGED <<broken, writes, sent, write_queue>>
      BY <1>2, <1>12, <2>1 DEF DeliverTo, Post
    <2>3. handler'[s].todo \subseteq handler[s].todo
      BY <1>2, <1>12 DEF DeliverTo, HandlerType
    <2>4. \A h \in Sessions \ {s} : handler'[h] = handler[h]
      BY <1>2, <1>12 DEF DeliverTo
    <2> QED
      BY <1>1, <2>2, <2>3, <2>4 DEF NothingThere
  <1>13. CASE Reply(s)
    <2>1. u # s
      BY <1>1, <1>13 DEF Reply, ReadyToReply, At
    <2>2. posted'[u] = posted[u] /\ UNCHANGED <<broken, writes, sent, write_queue>>
      BY <1>2, <1>13, <2>1 DEF Reply, Post
    <2>3. /\ handler'[s].todo = {}
          /\ \A h \in Sessions \ {s} : handler'[h] = handler[h]
      BY <1>2, <1>13, NoHandlerType DEF Reply
    <2> QED
      BY <1>1, <2>2, <2>3 DEF NothingThere
  <1>14. CASE RunPosted(s) \/ OnWrite(s) \/ OnWriteError(s)
    <2>1. u # s
      BY <1>1, <1>14 DEF RunPosted, OnWrite, OnWriteError, NothingThere
    <2>2. /\ posted'[u] = posted[u] /\ write_queue'[u] = write_queue[u]
          /\ writes'[u] = writes[u] /\ sent'[u] = sent[u] /\ broken'[u] = broken[u]
          /\ handler' = handler
      BY <1>2, <1>14, <2>1 DEF RunPosted, OnWrite, OnWriteError, readVars
    <2> QED
      BY <1>1, <2>2 DEF NothingThere
  <1> QED
    BY <1>4, <1>5, <1>6, <1>8, <1>9, <1>10, <1>11, <1>12, <1>13, <1>14
    DEF SessionStep, ReadStep, WriteStep

LEMMA ControlStep ==
    ASSUME ControlInv, NEW s \in Sessions, SessionStep(s)
    PROVE  ControlInv'
  <1>1. ReadTypeOK /\ WriteTypeOK /\ OneWriteAtATime
    BY TypeParts DEF ControlInv
  <1>2. ReadTypeOK'
    BY <1>1, ReadTypeStep DEF SessionStep
  <1>3. WriteTypeOK' /\ OneWriteAtATime'
    BY <1>1, WritesHold DEF SessionStep
  <1> QED
    BY <1>2, <1>3, TypePartsNext, LiveStep, FormsHold, NotYetThereStep DEF ControlInv

LEMMA ControlInit == Init => ControlInv
  <1> SUFFICES ASSUME Init PROVE ControlInv
    OBVIOUS
  <1>1. <<>> \in Seq(Message) /\ Len(<<>>) = 0
    BY EmptySeq
  <1>2. 0 \in Versions
    BY VersionForms
  <1>3. ReadTypeOK
    BY <1>2, NoHandlerType DEF Init, ReadTypeOK, Phases
  <1>4. WriteTypeOK
    BY <1>1 DEF Init, WriteTypeOK
  <1>5. OneWriteAtATime /\ LiveSessionsRegistered
    BY DEF Init, OneWriteAtATime, LiveSessionsRegistered
  <1>6. HandlersInForm
    BY NoHandlerType DEF Init, HandlersInForm, FormOf, Making
  <1>7. NotYetThere
    BY NoHandlerType DEF Init, NotYetThere
  <1> QED
    BY <1>3, <1>4, <1>5, <1>6, <1>7, TypeParts DEF ControlInv

-----------------------------------------------------------------------------
(* Logs *)

\* Told, after a step.
ToldNext(u, v) == \E k \in DOMAIN (Log(u)') : Log(u)'[k] = Event(v)

LEMMA LogForm ==
    ASSUME ControlInv, NEW u \in Sessions
    PROVE  Log(u) \in Seq(Message)
  <1>1. sent[u] \in Seq(Message) /\ write_queue[u] \in Seq(Message) /\ posted[u] \in Seq(Message)
    BY DEF ControlInv, TypeOK
  <1>2. sent[u] \o write_queue[u] \in Seq(Message)
    BY <1>1, ConcatProperties
  <1> QED
    BY <1>1, <1>2, ConcatProperties DEF Log

\* A message that moves from one queue to the next stays where it is in the log.
LEMMA LogStays ==
    ASSUME ControlInv, NEW s \in Sessions, NEW u \in Sessions,
           ReadOnly(s) \/ RunPosted(s) \/ OnWrite(s) \/ OnWriteError(s)
    PROVE  Log(u)' = Log(u)
  <1> DEFINE a == sent[u]
             b == write_queue[u]
             c == posted[u]
  <1>0. /\ a \in Seq(Message) /\ b \in Seq(Message) /\ c \in Seq(Message)
        /\ sent \in [Sessions -> Seq(Message)] /\ posted \in [Sessions -> Seq(Message)]
        /\ write_queue \in [Sessions -> Seq(Message)]
    BY DEF ControlInv, TypeOK
  <1>1. CASE ReadOnly(s) \/ OnWriteError(s)
    <2>1. sent' = sent /\ write_queue' = write_queue /\ posted' = posted
      BY <1>1, ReadOnlyForm DEF writeVars, OnWriteError
    <2> QED
      BY <2>1 DEF Log
  <1>2. CASE RunPosted(s) /\ u = s
    <2>1. /\ sent'[u] = a /\ write_queue'[u] = Append(b, Head(c)) /\ posted'[u] = Tail(c)
          /\ c # <<>>
      BY <1>0, <1>2 DEF RunPosted
    <2>0. a \in Seq(Message) /\ b \in Seq(Message) /\ c \in Seq(Message)
      BY <1>0
    <2> HIDE DEF a, b, c
    <2>2. Append(b, Head(c)) \o Tail(c) = b \o c
      BY <1>0, <2>1, SeqMove
    <2>3. Head(c) \in Message /\ Tail(c) \in Seq(Message)
      BY <1>0, <2>1, HeadTailProperties
    <2> DEFINE d == Append(b, Head(c))
               e == Tail(c)
    <2>4. d \in Seq(Message) /\ e \in Seq(Message)
      BY <1>0, <2>3, SeqAppend
    <2>5. d \o e = b \o c /\ Log(u)' = (a \o d) \o e
      BY <2>1, <2>2 DEF Log
    <2> HIDE DEF d, e
    <2>6. (a \o d) \o e = a \o (d \o e)
      <3>1. ASSUME NEW x \in Seq(Message), NEW y \in Seq(Message), NEW z \in Seq(Message)
            PROVE  (x \o y) \o z = x \o (y \o z)
        BY ConcatAssociative
      <3> QED
        BY <2>0, <2>4, <3>1
    <2>7. (a \o b) \o c = a \o (b \o c)
      BY <2>0, ConcatAssociative
    <2>8. Log(u) = (a \o b) \o c
      BY DEF Log, a, b, c
    <2> QED
      BY <2>5, <2>6, <2>7, <2>8
  <1>3. CASE OnWrite(s) /\ u = s
    <2>1. /\ sent'[u] = Append(a, Head(b)) /\ write_queue'[u] = Tail(b) /\ posted'[u] = c
      BY <1>0, <1>3 DEF OnWrite
    <2>2. b # <<>>
      <3>1. writes[s] > 0 /\ writes[s] \in Nat /\ writes[s] <= Len(b) /\ Len(b) \in Nat
        BY <1>0, <1>3, LenProperties DEF OnWrite, ControlInv, TypeOK
      <3> QED
        BY <3>1, EmptySeq
    <2> HIDE DEF a, b, c
    <2>3. Append(a, Head(b)) \o Tail(b) = a \o b
      BY <1>0, <2>2, SeqMove
    <2>4. Log(u)' = (Append(a, Head(b)) \o Tail(b)) \o c
      BY <2>1 DEF Log
    <2>5. Log(u) = (a \o b) \o c
      BY DEF Log, a, b, c
    <2> QED
      BY <2>3, <2>4, <2>5
  <1>4. CASE (RunPosted(s) \/ OnWrite(s)) /\ u # s
    <2>1. sent'[u] = a /\ write_queue'[u] = b /\ posted'[u] = c
      BY <1>0, <1>4 DEF RunPosted, OnWrite
    <2> QED
      BY <2>1 DEF Log
  <1> QED
    BY <1>1, <1>2, <1>3, <1>4

\* What is posted to t comes to the end of its log.
LEMMA LogGrows ==
    ASSUME ControlInv, NEW t \in Sessions, NEW m \in Message, Post(t, m),
           UNCHANGED <<write_queue, sent>>
    PROVE  /\ \A u \in Sessions \ {t} : Log(u)' = Log(u)
           /\ Log(t)' = Append(Log(t), m)
  <1>0. /\ \A u \in Sessions : sent[u] \in Seq(Message) /\ write_queue[u] \in Seq(Message)
                               /\ posted[u] \in Seq(Message)
        /\ posted \in [Sessions -> Seq(Message)]
    BY DEF ControlInv, TypeOK
  <1>1. /\ \A u \in Sessions \ {t} : posted'[u] = posted[u]
        /\ posted'[t] = Append(posted[t], m)
    BY <1>0 DEF Post
  <1>2. \A u \in Sessions \ {t} : Log(u)' = Log(u)
    BY <1>1 DEF Log
  <1>3. Log(t)' = Append(Log(t), m)
    <2> DEFINE a == sent[t] \o write_queue[t]
               c == posted[t]
    <2>1. Log(t)' = a \o Append(c, m) /\ Log(t) = a \o c
      BY <1>1 DEF Log
    <2>2. a \in Seq(Message) /\ c \in Seq(Message)
      BY <1>0, ConcatProperties
    <2> HIDE DEF a, c
    <2> QED
      BY <2>1, <2>2, SeqConcatAppend
  <1> QED
    BY <1>2, <1>3

\* The same, element by element.
LEMMA LogAppend ==
    ASSUME ControlInv, NEW t \in Sessions, NEW m \in Message, Post(t, m),
           UNCHANGED <<write_queue, sent>>
    PROVE  /\ \A u \in Sessions \ {t} : Log(u)' = Log(u)
           /\ Len(Log(t)) \in Nat /\ DOMAIN Log(t) = 1..Len(Log(t))
           /\ DOMAIN (Log(t)') = 1..(Len(Log(t)) + 1)
           /\ Log(t)'[Len(Log(t)) + 1] = m
           /\ \A k \in 1..Len(Log(t)) : Log(t)'[k] = Log(t)[k]
           /\ \A v : ToldNext(t, v) <=> Told(t, v) \/ m = Event(v)
           /\ \A u \in Sessions \ {t} : \A v : ToldNext(u, v) <=> Told(u, v)
  <1> DEFINE old == Log(t)
             new == Log(t)'
  <1>1. /\ \A u \in Sessions \ {t} : Log(u)' = Log(u)
        /\ new = Append(old, m)
    BY LogGrows
  <1>2. old \in Seq(Message)
    BY LogForm
  <1> HIDE DEF old, new
  <1>3. /\ Len(old) \in Nat /\ DOMAIN old = 1..Len(old)
        /\ DOMAIN new = 1..(Len(old) + 1) /\ new[Len(old) + 1] = m
        /\ \A k \in 1..Len(old) : new[k] = old[k]
    BY <1>1, <1>2, SeqAppend, LenProperties
  <1>4. ASSUME NEW v
        PROVE  (\E k \in DOMAIN new : new[k] = Event(v))
                 <=> (\E k \in DOMAIN old : old[k] = Event(v)) \/ m = Event(v)
    <2> DEFINE n == Len(old)
               ev == Event(v)
    <2>1. /\ n \in Nat /\ DOMAIN old = 1..n /\ DOMAIN new = 1..(n + 1)
          /\ new[n + 1] = m /\ \A k \in 1..n : new[k] = old[k]
      BY <1>3
    <2> HIDE DEF n, ev
    <2>2. (\E k \in DOMAIN new : new[k] = ev) <=> (\E k \in DOMAIN old : old[k] = ev) \/ m = ev
      BY <2>1
    <2> QED
      BY <2>2 DEF ev
  <1>5. \A v : ToldNext(t, v) <=> Told(t, v) \/ m = Event(v)
    BY <1>4 DEF Told, ToldNext, old, new
  <1>6. \A u \in Sessions \ {t} : \A v : ToldNext(u, v) <=> Told(u, v)
    BY <1>1 DEF Told, ToldNext
  <1> QED
    BY <1>1, <1>3, <1>5, <1>6 DEF old, new

-----------------------------------------------------------------------------
(* Who was told of what *)

\* A step that adds to no log, makes no change and leaves those alone that have.
LEMMA NothingTold ==
    ASSUME ControlInv, LogInv, \A u \in Sessions : Log(u)' = Log(u),
           version' = version,
           \A h \in Sessions : (Making(h) \/ Making(h)') => handler'[h] = handler[h],
           sessions' \subseteq Sessions,
           \A u \in sessions' : \/ u \in sessions /\ joined'[u] = joined[u]
                                \/ joined'[u] = version,
           \A u \in Sessions : broken[u] => broken'[u]
    PROVE  LogInv'
  <1>1. /\ sessions \subseteq Sessions /\ version \in Nat
        /\ broken \in [Sessions -> BOOLEAN] 
    BY VersionForms DEF ControlInv, TypeOK
  <1>2. \A u \in Sessions : \A v : ToldNext(u, v) <=> Told(u, v)
    BY DEF Told, ToldNext
  <1>3. ASSUME NEW h \in Sessions, NEW u
        PROVE  OnItsWay(h, u)' <=> OnItsWay(h, u)
    BY DEF OnItsWay, Making
  <1>4. \A h \in Sessions : Making(h)' <=> Making(h)
    BY DEF Making
  <1>5. ChangesApart'
    BY <1>4 DEF LogInv, ChangesApart
  <1>6. EventsKnown'
    BY DEF LogInv, EventsKnown
  <1>7. ToldOnce'
    BY DEF LogInv, ToldOnce
  <1>8. NotToldTwice'
    <2> SUFFICES ASSUME NEW h \in Sessions, NEW u \in Sessions, OnItsWay(h, u)'
                 PROVE  ~ToldNext(u, handler'[h].ver)
      BY DEF NotToldTwice, Told, ToldNext, Event
    <2>1. OnItsWay(h, u) /\ handler'[h] = handler[h]
      BY <1>3 DEF OnItsWay, Making
    <2> QED
      BY <1>2, <2>1 DEF LogInv, NotToldTwice
  <1>9. ToldOrOnItsWay'
    <2> SUFFICES ASSUME NEW u \in sessions', NEW v \in 1..version', joined'[u] < v
                 PROVE  \/ ToldNext(u, v)
                        \/ \E h \in Sessions : OnItsWay(h, u)' /\ handler'[h].ver = v
      BY DEF ToldOrOnItsWay, Told, ToldNext, Event
    <2>1. u \in sessions /\ joined[u] < v /\ u \in Sessions
      BY <1>1
    <2>2. CASE Told(u, v)
      BY <1>2, <2>1, <2>2
    <2>3. CASE \E h \in Sessions : OnItsWay(h, u) /\ handler[h].ver = v
      <3>1. PICK h \in Sessions : OnItsWay(h, u) /\ handler[h].ver = v
        BY <2>3
      <3>2. Making(h)
        BY <3>1 DEF OnItsWay, Making
      <3> QED
        BY <1>3, <3>1, <3>2
    <2> QED
      BY <2>1, <2>2, <2>3 DEF LogInv, ToldOrOnItsWay
  <1>10. TellsItself'
    <2> SUFFICES ASSUME NEW h \in Sessions, handler'[h].pc = "deliver", ~broken'[h]
                 PROVE  h \in handler'[h].todo \/ ToldNext(h, handler'[h].ver)
      BY DEF TellsItself, Told, ToldNext, Event
    <2>1. handler'[h] = handler[h] /\ ~broken[h]
      BY DEF Making
    <2> QED
      BY <1>2, <2>1 DEF LogInv, TellsItself
  <1>11. EventBeforeResponse'
    BY DEF LogInv, EventBeforeResponse, Event
  <1> QED
    BY <1>5, <1>6, <1>7, <1>8, <1>9, <1>10, <1>11 DEF LogInv

\* Most steps are of this kind.
LEMMA QuietStep ==
    ASSUME ControlInv, LogInv, NEW s \in Sessions,
           \/ Accept(s) \/ HandshakeDone(s) \/ ReadSideFails(s)
           \/ ReadChange(s) \/ ReadMalformed(s) \/ ReadGetState(s)
           \/ Refuse(s) \/ CopyItems(s)
           \/ RunPosted(s) \/ OnWrite(s) \/ OnWriteError(s)
    PROVE  LogInv'
  <1>1. /\ phase \in [Sessions -> Phases] /\ handler \in [Sessions -> HandlerType]
        /\ joined \in [Sessions -> Versions] /\ broken \in [Sessions -> BOOLEAN]
        /\ sessions \subseteq Sessions /\ FormOf(s)
    BY DEF ControlInv, TypeOK, HandlerType, HandlersInForm
  <1>2. \A u \in Sessions : Log(u)' = Log(u)
    BY LogStays DEF ReadOnly
  <1>3. CASE Accept(s) \/ HandshakeDone(s) \/ ReadSideFails(s)
    <2>1. /\ version' = version /\ handler' = handler /\ sessions' \subseteq Sessions
          /\ \A u \in sessions' : \/ u \in sessions /\ joined'[u] = joined[u]
                                  \/ joined'[u] = version
          /\ \A u \in Sessions : broken[u] => broken'[u]
      BY <1>1, <1>3 DEF Accept, HandshakeDone, ReadSideFails, Unregister
    <2> QED
      BY <1>2, <2>1, NothingTold
  <1>4. CASE \/ ReadChange(s) \/ ReadMalformed(s) \/ ReadGetState(s)
             \/ Refuse(s) \/ CopyItems(s)
    <2>1. UNCHANGED <<version, sessions, broken, joined>>
      BY <1>4 DEF ReadChange, ReadMalformed, ReadGetState, Enter, Refuse, CopyItems
    <2>2. handler[s].pc \in {"idle", "manage", "items"}
      BY <1>1, <1>4 DEF ReadChange, ReadMalformed, ReadGetState, Enter, Refuse, CopyItems,
                        At, FormOf
    <2>3. handler'[s].pc \in {"manage", "reply", "items"}
      <3>1. CASE ReadChange(s)
        BY <1>1, <3>1, NoHandlerType DEF ReadChange, Enter, HandlerType
      <3>2. CASE ReadMalformed(s)
        BY <1>1, <3>2, NoHandlerType DEF ReadMalformed, Enter, HandlerType
      <3>3. CASE ReadGetState(s)
        BY <1>1, <3>3, NoHandlerType DEF ReadGetState, Enter, HandlerType
      <3>4. CASE Refuse(s)
        BY <1>1, <3>4 DEF Refuse, HandlerType
      <3>5. CASE CopyItems(s)
        BY <1>1, <3>5 DEF CopyItems, HandlerType
      <3> QED
        BY <1>4, <3>1, <3>2, <3>3, <3>4, <3>5
    <2>4. \A h \in Sessions \ {s} : handler'[h] = handler[h]
      BY <1>4, HandlerStep DEF SessionStep, ReadStep
    <2>5. \A h \in Sessions : (Making(h) \/ Making(h)') => handler'[h] = handler[h]
      BY <2>2, <2>3, <2>4 DEF Making
    <2> QED
      BY <1>1, <1>2, <2>1, <2>5, NothingTold
  <1>5. CASE RunPosted(s) \/ OnWrite(s) \/ OnWriteError(s)
    <2>1. /\ version' = version /\ handler' = handler /\ sessions' \subseteq sessions
          /\ joined' = joined /\ \A u \in Sessions : broken[u] => broken'[u]
      BY <1>1, <1>5 DEF RunPosted, OnWrite, OnWriteError, readVars, Unregister
    <2> QED
      BY <1>1, <1>2, <2>1, NothingTold
  <1> QED
    BY <1>3, <1>4, <1>5

\* A change is news to everyone.
LEMMA ChangeTold ==
    ASSUME ControlInv, LogInv, NEW s \in Sessions, Change(s)
    PROVE  LogInv'
  <1>1. /\ handler \in [Sessions -> HandlerType] /\ handler[s] \in HandlerType
        /\ version \in Nat /\ version' = version + 1
        /\ sessions \subseteq Sessions /\ joined \in [Sessions -> Versions]
        /\ \A h \in Sessions : Making(h) => handler[h].ver \in 1..version
        /\ UNCHANGED <<sessions, broken, joined>>
    BY VersionForms DEF ControlInv, TypeOK, HandlerType, HandlersInForm, FormOf, Change
  <1>2. \A u \in Sessions : Log(u)' = Log(u)
    BY LogStays DEF ReadOnly
  <1>3. handler'[s].pc = "snapshot" /\ handler'[s].ver = version + 1
    BY <1>1 DEF Change, HandlerType
  <1>4. \A h \in Sessions \ {s} : handler'[h] = handler[h]
    BY <1>1 DEF Change
  <1>5. \A u \in Sessions : \A v : ToldNext(u, v) <=> Told(u, v)
    BY <1>2 DEF Told, ToldNext
  <1>6. \A h \in Sessions \ {s} : Making(h)' <=> Making(h)
    BY <1>4 DEF Making
  <1>7. \A h \in Sessions \ {s} : \A u : OnItsWay(h, u)' <=> OnItsWay(h, u)
    BY <1>4 DEF OnItsWay
  <1>8. ChangesApart'
    <2> SUFFICES ASSUME NEW g \in Sessions, NEW h \in Sessions,
                        Making(g)', Making(h)', g # h
                 PROVE  handler'[g].ver # handler'[h].ver
      BY DEF ChangesApart
    <2>1. CASE g # s /\ h # s
      BY <1>4, <1>6, <2>1 DEF LogInv, ChangesApart
    <2>2. CASE g = s
      BY <1>1, <1>3, <1>4, <1>6, <2>2
    <2>3. CASE h = s
      BY <1>1, <1>3, <1>4, <1>6, <2>3
    <2> QED
      BY <2>1, <2>2, <2>3
  <1>9. EventsKnown'
    <2>1. 1..version \subseteq 1..version'
      BY <1>1
    <2> QED
      BY <1>2, <2>1 DEF LogInv, EventsKnown
  <1>10. ToldOnce'
    BY <1>2 DEF LogInv, ToldOnce
  <1>11. \A u \in Sessions : ~Told(u, version + 1)
    <2> SUFFICES ASSUME NEW u \in Sessions, NEW k \in DOMAIN Log(u),
                        Log(u)[k] = Event(version + 1)
                 PROVE  FALSE
      BY DEF Told
    <2>1. Log(u)[k].kind = "event" /\ Log(u)[k].ver = version + 1
      BY DEF Event
    <2>2. version + 1 \in 1..version
      BY <2>1 DEF LogInv, EventsKnown
    <2> QED
      BY <1>1, <2>2
  <1>12. NotToldTwice'
    <2> SUFFICES ASSUME NEW h \in Sessions, NEW u \in Sessions, OnItsWay(h, u)'
                 PROVE  ~ToldNext(u, handler'[h].ver)
      BY DEF NotToldTwice, Told, ToldNext, Event
    <2>1. CASE h = s
      BY <1>3, <1>5, <1>11, <2>1
    <2>2. CASE h # s
      BY <1>4, <1>5, <1>7, <2>2 DEF LogInv, NotToldTwice
    <2> QED
      BY <2>1, <2>2
  <1>13. ToldOrOnItsWay'
    <2> SUFFICES ASSUME NEW u \in sessions', NEW v \in 1..version', joined'[u] < v
                 PROVE  \/ ToldNext(u, v)
                        \/ \E h \in Sessions : OnItsWay(h, u)' /\ handler'[h].ver = v
      BY DEF ToldOrOnItsWay, Told, ToldNext, Event
    <2>1. u \in sessions /\ u \in Sessions /\ joined[u] < v
      BY <1>1
    <2>2. CASE v = version + 1
      BY <1>3, <2>2 DEF OnItsWay
    <2>3. CASE v \in 1..version
      <3>1. CASE Told(u, v)
        BY <1>5, <2>1, <3>1
      <3>2. CASE \E h \in Sessions : OnItsWay(h, u) /\ handler[h].ver = v
        <4>1. PICK h \in Sessions : OnItsWay(h, u) /\ handler[h].ver = v
          BY <3>2
        <4>2. h # s
          BY <4>1 DEF Change, At, OnItsWay
        <4> QED
          BY <1>4, <1>7, <4>1, <4>2
      <3> QED
        BY <2>1, <2>3, <3>1, <3>2 DEF LogInv, ToldOrOnItsWay
    <2> QED
      BY <1>1, <2>2, <2>3
  <1>14. TellsItself'
    <2> SUFFICES ASSUME NEW h \in Sessions, handler'[h].pc = "deliver", ~broken'[h]
                 PROVE  h \in handler'[h].todo \/ ToldNext(h, handler'[h].ver)
      BY DEF TellsItself, Told, ToldNext, Event
    <2>1. h # s
      BY <1>3
    <2> QED
      BY <1>1, <1>4, <1>5, <2>1 DEF LogInv, TellsItself
  <1>15. EventBeforeResponse'
    BY <1>1, <1>2 DEF LogInv, EventBeforeResponse, Event
  <1> QED
    BY <1>8, <1>9, <1>10, <1>12, <1>13, <1>14, <1>15 DEF LogInv

\* Copying the set of sessions leaves the change on its way to all of them.
LEMMA SnapshotTold ==
    ASSUME ControlInv, LogInv, NEW s \in Sessions, Snapshot(s)
    PROVE  LogInv'
  <1>1. /\ handler \in [Sessions -> HandlerType] /\ handler[s] \in HandlerType
        /\ handler[s].pc = "snapshot" /\ phase[s] = "handling"
        /\ sessions \subseteq Sessions
        /\ UNCHANGED <<version, sessions, broken, joined>>
    BY DEF ControlInv, TypeOK, HandlerType, Snapshot, At
  <1>2. \A u \in Sessions : Log(u)' = Log(u)
    BY LogStays DEF ReadOnly
  <1>3. /\ handler'[s].pc = "deliver" /\ handler'[s].ver = handler[s].ver
        /\ handler'[s].todo = sessions
    BY <1>1 DEF Snapshot, Recipients, HandlerType
  <1>4. \A h \in Sessions \ {s} : handler'[h] = handler[h]
    BY <1>1 DEF Snapshot
  <1>5. \A u \in Sessions : \A v : ToldNext(u, v) <=> Told(u, v)
    BY <1>2 DEF Told, ToldNext
  <1>6. /\ \A h \in Sessions : handler'[h].ver = handler[h].ver
        /\ \A h \in Sessions : Making(h)' <=> Making(h)
    BY <1>1, <1>3, <1>4 DEF Making
  <1>7. /\ \A h \in Sessions : \A u : OnItsWay(h, u)' => OnItsWay(h, u)
        /\ \A h \in Sessions, u \in sessions : OnItsWay(h, u) => OnItsWay(h, u)'
    BY <1>1, <1>3, <1>4 DEF OnItsWay
  <1>8. ChangesApart'
    BY <1>6 DEF LogInv, ChangesApart
  <1>9. EventsKnown' /\ ToldOnce'
    BY <1>1, <1>2 DEF LogInv, EventsKnown, ToldOnce
  <1>10. NotToldTwice'
    <2> SUFFICES ASSUME NEW h \in Sessions, NEW u \in Sessions, OnItsWay(h, u)'
                 PROVE  ~ToldNext(u, handler'[h].ver)
      BY DEF NotToldTwice, Told, ToldNext, Event
    <2> QED
      BY <1>5, <1>6, <1>7 DEF LogInv, NotToldTwice
  <1>11. ToldOrOnItsWay'
    <2> SUFFICES ASSUME NEW u \in sessions', NEW v \in 1..version', joined'[u] < v
                 PROVE  \/ ToldNext(u, v)
                        \/ \E h \in Sessions : OnItsWay(h, u)' /\ handler'[h].ver = v
      BY DEF ToldOrOnItsWay, Told, ToldNext, Event
    <2> QED
      BY <1>1, <1>5, <1>6, <1>7 DEF LogInv, ToldOrOnItsWay
  <1>12. TellsItself'
    <2> SUFFICES ASSUME NEW h \in Sessions, handler'[h].pc = "deliver", ~broken'[h]
                 PROVE  h \in handler'[h].todo \/ ToldNext(h, handler'[h].ver)
      BY DEF TellsItself, Told, ToldNext, Event
    <2>1. CASE h = s
      BY <1>1, <1>3, <2>1 DEF ControlInv, LiveSessionsRegistered
    <2>2. CASE h # s
      BY <1>1, <1>4, <1>5, <2>2 DEF LogInv, TellsItself
    <2> QED
      BY <2>1, <2>2
  <1>13. EventBeforeResponse'
    BY <1>1, <1>2 DEF LogInv, EventBeforeResponse, Event
  <1> QED
    BY <1>8, <1>9, <1>10, <1>11, <1>12, <1>13 DEF LogInv

\* A message at the end of a log keeps the events known and single, if it is
\* no event, or one of a change that was made and that the log does not have.
LEMMA LogsStayInForm ==
    ASSUME ControlInv, LogInv, NEW t \in Sessions, NEW m \in Message, Post(t, m),
           UNCHANGED <<version, broken, write_queue, sent>>,
           m.kind = "event" => m.ver \in 1..version /\ ~Told(t, m.ver),
           (m.kind = "response" /\ m.ver # 0 /\ ~broken[t]) => Told(t, m.ver)
    PROVE  EventsKnown' /\ ToldOnce' /\ EventBeforeResponse'
  <1> DEFINE n == Len(Log(t))
             old == Log(t)
             new == Log(t)'
  <1>1. /\ n \in Nat /\ DOMAIN old = 1..n /\ DOMAIN new = 1..(n + 1)
        /\ new[n + 1] = m /\ \A k \in 1..n : new[k] = old[k]
        /\ \A u \in Sessions \ {t} : Log(u)' = Log(u)
    BY LogAppend
  <1>2. old \in Seq(Message)
    BY LogForm
  <1> HIDE DEF n
  <1>3. \A k \in 1..n : old[k] \in Message
    BY <1>1, <1>2, ElementOfSeq DEF n
  <1>4. /\ \A k \in 1..n : old[k].kind = "event" => old[k].ver \in 1..version
        /\ \A j, k \in 1..n : (old[j].kind = "event" /\ old[j] = old[k]) => j = k
        /\ \A k \in 1..n :
             (old[k].kind = "response" /\ old[k].ver # 0 /\ ~broken[t]) =>
               \E j \in 1..(k - 1) : old[j] = Event(old[k].ver)
    BY <1>1 DEF LogInv, EventsKnown, ToldOnce, EventBeforeResponse
  <1> HIDE DEF old, new
  <1>5. \A k \in DOMAIN new : new[k].kind = "event" => new[k].ver \in 1..version
    BY <1>1, <1>4
  <1>6. m.kind = "event" => \A k \in 1..n : old[k] # m
    <2> SUFFICES ASSUME m.kind = "event", NEW k \in 1..n, old[k] = m
                 PROVE  FALSE
      OBVIOUS
    <2>1. m = Event(m.ver)
      BY MessageForms
    <2> QED
      BY <1>1, <2>1 DEF Told, old
  <1>7. \A j, k \in DOMAIN new : (new[j].kind = "event" /\ new[j] = new[k]) => j = k
    <2> SUFFICES ASSUME NEW j \in DOMAIN new, NEW k \in DOMAIN new,
                        new[j].kind = "event", new[j] = new[k]
                 PROVE  j = k
      OBVIOUS
    <2>1. CASE j \in 1..n /\ k \in 1..n
      BY <1>1, <1>4, <2>1
    <2>2. CASE j \in 1..n /\ k = n + 1
      BY <1>1, <1>6, <2>2
    <2>3. CASE j = n + 1 /\ k \in 1..n
      BY <1>1, <1>6, <2>3
    <2> QED
      BY <1>1, <2>1, <2>2, <2>3
  <1>8. ASSUME NEW k \in DOMAIN new,
               new[k].kind = "response", new[k].ver # 0, ~broken[t]
        PROVE  \E j \in 1..(k - 1) : new[j] = Event(new[k].ver)
    <2>1. CASE k \in 1..n
      <3>1. PICK j \in 1..(k - 1) : old[j] = Event(old[k].ver)
        BY <1>1, <1>4, <1>8, <2>1
      <3>2. j \in 1..n /\ k \in 1..n
        BY <1>1, <2>1
      <3> QED
        BY <1>1, <3>1, <3>2
    <2>2. CASE k = n + 1
      <3>1. PICK j \in DOMAIN old : old[j] = Event(m.ver)
        BY <1>1, <1>8, <2>2 DEF Told, old
      <3>2. j \in 1..n /\ j \in 1..(k - 1)
        BY <1>1, <2>2, <3>1
      <3> QED
        BY <1>1, <2>2, <3>1, <3>2
    <2> QED
      BY <1>1, <2>1, <2>2
  <1>9. EventsKnown'
    <2>1. \A u \in Sessions \ {t} : \A k \in DOMAIN (Log(u)') :
            Log(u)'[k].kind = "event" => Log(u)'[k].ver \in 1..version
      BY <1>1 DEF LogInv, EventsKnown
    <2> QED
      BY <1>5, <2>1 DEF EventsKnown, new
  <1>10. ToldOnce'
    <2>1. \A u \in Sessions \ {t} : \A j, k \in DOMAIN (Log(u)') :
            (Log(u)'[j].kind = "event" /\ Log(u)'[j] = Log(u)'[k]) => j = k
      BY <1>1 DEF LogInv, ToldOnce
    <2> QED
      BY <1>7, <2>1 DEF ToldOnce, new
  <1>11. EventBeforeResponse'
    <2>1. \A u \in Sessions \ {t} : \A k \in DOMAIN (Log(u)') :
            (Log(u)'[k].kind = "response" /\ Log(u)'[k].ver # 0 /\ ~broken[u]) =>
              \E j \in 1..(k - 1) : Log(u)'[j] = Event(Log(u)'[k].ver)
      BY <1>1 DEF LogInv, EventBeforeResponse
    <2> QED
      BY <1>8, <2>1 DEF EventBeforeResponse, new, Event
  <1> QED
    BY <1>9, <1>10, <1>11

\* Delivering the event of a change to one session.
LEMMA DeliverTold ==
    ASSUME ControlInv, LogInv, NEW s \in Sessions, NEW t \in Sessions, DeliverTo(s, t)
    PROVE  LogInv'
  <1> DEFINE ver == handler[s].ver
             m == Event(ver)
  <1>1. /\ handler \in [Sessions -> HandlerType] /\ handler[s] \in HandlerType
        /\ handler[s].pc = "deliver" /\ t \in handler[s].todo
        /\ sessions \subseteq Sessions
        /\ UNCHANGED <<version, sessions, broken, joined, write_queue, sent>>
        /\ Post(t, m) /\ Making(s) /\ OnItsWay(s, t)
    BY DEF ControlInv, TypeOK, HandlerType, DeliverTo, At, Making, OnItsWay
  <1>2. ver \in Versions /\ ver \in 1..version
    BY <1>1 DEF ControlInv, HandlersInForm, FormOf, HandlerType
  <1>3. m \in Message /\ m.kind = "event" /\ m.ver = ver /\ \A v : m = Event(v) <=> v = ver
    BY <1>2, MessageForms DEF Event
  <1>4. ~Told(t, ver)
    BY <1>1 DEF LogInv, NotToldTwice
  <1>5. /\ handler'[s].pc = "deliver" /\ handler'[s].ver = ver
        /\ handler'[s].todo = handler[s].todo \ {t}
        /\ \A h \in Sessions \ {s} : handler'[h] = handler[h]
    BY <1>1 DEF DeliverTo, HandlerType
  <1> HIDE DEF ver, m
  <1>6. EventsKnown' /\ ToldOnce' /\ EventBeforeResponse'
    BY <1>1, <1>2, <1>3, <1>4, LogsStayInForm
  <1>7. /\ \A v : ToldNext(t, v) <=> Told(t, v) \/ v = ver
        /\ \A u \in Sessions \ {t} : \A v : ToldNext(u, v) <=> Told(u, v)
    BY <1>1, <1>3, LogAppend
  <1>8. /\ \A h \in Sessions : handler'[h].ver = handler[h].ver
        /\ \A h \in Sessions : Making(h)' <=> Making(h)
    BY <1>1, <1>5 DEF Making, ver
  <1>9. \A h \in Sessions : \A u : OnItsWay(h, u)' <=> OnItsWay(h, u) /\ ~(h = s /\ u = t)
    BY <1>1, <1>5 DEF OnItsWay
  <1>10. ChangesApart'
    BY <1>8 DEF LogInv, ChangesApart
  <1>11. NotToldTwice'
    <2> SUFFICES ASSUME NEW h \in Sessions, NEW u \in Sessions, OnItsWay(h, u)'
                 PROVE  ~ToldNext(u, handler'[h].ver)
      BY DEF NotToldTwice, Told, ToldNext, Event
    <2>1. OnItsWay(h, u) /\ ~Told(u, handler[h].ver) /\ Making(h)
      BY <1>9 DEF LogInv, NotToldTwice, OnItsWay, Making
    <2>2. u = t => handler[h].ver # ver
      BY <1>1, <1>9, <2>1 DEF LogInv, ChangesApart, ver
    <2> QED
      BY <1>7, <1>8, <2>1, <2>2
  <1>12. ToldOrOnItsWay'
    <2> SUFFICES ASSUME NEW u \in sessions', NEW v \in 1..version', joined'[u] < v
                 PROVE  \/ ToldNext(u, v)
                        \/ \E h \in Sessions : OnItsWay(h, u)' /\ handler'[h].ver = v
      BY DEF ToldOrOnItsWay, Told, ToldNext, Event
    <2>1. u \in sessions /\ u \in Sessions /\ v \in 1..version /\ joined[u] < v
      BY <1>1
    <2>2. CASE Told(u, v)
      BY <1>7, <2>1, <2>2
    <2>3. CASE \E h \in Sessions : OnItsWay(h, u) /\ handler[h].ver = v
      <3>1. PICK h \in Sessions : OnItsWay(h, u) /\ handler[h].ver = v
        BY <2>3
      <3>2. CASE h = s /\ u = t
        BY <1>7, <3>1, <3>2 DEF ver
      <3>3. CASE ~(h = s /\ u = t)
        BY <1>8, <1>9, <3>1, <3>3
      <3> QED
        BY <3>2, <3>3
    <2> QED
      BY <2>1, <2>2, <2>3 DEF LogInv, ToldOrOnItsWay
  <1>13. TellsItself'
    <2> SUFFICES ASSUME NEW h \in Sessions, handler'[h].pc = "deliver", ~broken'[h]
                 PROVE  h \in handler'[h].todo \/ ToldNext(h, handler'[h].ver)
      BY DEF TellsItself, Told, ToldNext, Event
    <2>1. h \in handler[h].todo \/ Told(h, handler[h].ver)
      BY <1>1, <1>5 DEF LogInv, TellsItself
    <2> QED
      BY <1>5, <1>7, <1>8, <2>1
  <1> QED
    BY <1>6, <1>10, <1>11, <1>12, <1>13 DEF LogInv

\* A handler that answers has told everyone.
LEMMA ReplyTold ==
    ASSUME ControlInv, LogInv, NEW s \in Sessions, Reply(s)
    PROVE  LogInv'
  <1> DEFINE m == handler[s].reply
  <1>1. /\ handler \in [Sessions -> HandlerType] /\ handler[s] \in HandlerType
        /\ sessions \subseteq Sessions /\ m \in Message
        /\ UNCHANGED <<version, sessions, broken, joined, write_queue, sent>>
        /\ Post(s, m) /\ FormOf(s)
    BY DEF ControlInv, TypeOK, HandlerType, HandlersInForm, Reply
  <1>2. \/ handler[s].pc = "reply" /\ (m = Response(0) \/ m.kind = "state")
        \/ /\ handler[s].pc = "deliver" /\ handler[s].todo = {}
           /\ m = Response(handler[s].ver) /\ handler[s].ver \in Versions
    BY <1>1 DEF Reply, ReadyToReply, At, FormOf, Making, HandlerType
  <1>3. m.kind # "event" /\ \A v : m # Event(v)
    BY <1>2, MessageForms, VersionForms DEF Event, Response
  <1>4. (m.kind = "response" /\ m.ver # 0 /\ ~broken[s]) => Told(s, m.ver)
    <2> SUFFICES ASSUME m.kind = "response", m.ver # 0, ~broken[s]
                 PROVE  Told(s, m.ver)
      OBVIOUS
    <2>0. 0 \in Versions /\ \A v \in Versions : Response(v).ver = v
      BY MessageForms, VersionForms
    <2>1. /\ handler[s].pc = "deliver" /\ handler[s].todo = {} /\ m.ver = handler[s].ver
      <3> HIDE DEF m
      <3>1. m # Response(0) /\ m.kind # "state"
        BY <2>0
      <3> QED
        BY <1>2, <2>0, <3>1
    <2> QED
      BY <2>1 DEF LogInv, TellsItself
  <1>5. \A u : ~OnItsWay(s, u)
    BY <1>2 DEF OnItsWay
  <1>6. /\ handler'[s].pc = "idle" /\ \A h \in Sessions \ {s} : handler'[h] = handler[h]
    BY <1>1, NoHandlerType DEF Reply
  <1> HIDE DEF m
  <1>7. EventsKnown' /\ ToldOnce' /\ EventBeforeResponse'
    BY <1>1, <1>3, <1>4, LogsStayInForm
  <1>8. \A u \in Sessions : \A v : ToldNext(u, v) <=> Told(u, v)
    BY <1>1, <1>3, LogAppend
  <1>9. \A h \in Sessions : Making(h)' => Making(h) /\ h # s
    BY <1>6 DEF Making
  <1>10. \A h \in Sessions : \A u : OnItsWay(h, u)' <=> OnItsWay(h, u)
    BY <1>5, <1>6 DEF OnItsWay
  <1>11. ChangesApart'
    BY <1>6, <1>9 DEF LogInv, ChangesApart
  <1>12. NotToldTwice'
    <2> SUFFICES ASSUME NEW h \in Sessions, NEW u \in Sessions, OnItsWay(h, u)'
                 PROVE  ~ToldNext(u, handler'[h].ver)
      BY DEF NotToldTwice, Told, ToldNext, Event
    <2>1. OnItsWay(h, u) /\ handler'[h] = handler[h]
      BY <1>5, <1>6, <1>10
    <2> QED
      BY <1>8, <2>1 DEF LogInv, NotToldTwice
  <1>13. ToldOrOnItsWay'
    <2> SUFFICES ASSUME NEW u \in sessions', NEW v \in 1..version', joined'[u] < v
                 PROVE  \/ ToldNext(u, v)
                        \/ \E h \in Sessions : OnItsWay(h, u)' /\ handler'[h].ver = v
      BY DEF ToldOrOnItsWay, Told, ToldNext, Event
    <2>1. \A h \in Sessions : OnItsWay(h, u) => OnItsWay(h, u)' /\ handler'[h] = handler[h]
      BY <1>5, <1>6, <1>10
    <2> QED
      BY <1>1, <1>8, <2>1 DEF LogInv, ToldOrOnItsWay
  <1>14. TellsItself'
    <2> SUFFICES ASSUME NEW h \in Sessions, handler'[h].pc = "deliver", ~broken'[h]
                 PROVE  h \in handler'[h].todo \/ ToldNext(h, handler'[h].ver)
      BY DEF TellsItself, Told, ToldNext, Event
    <2>1. handler'[h] = handler[h]
      BY <1>6
    <2> QED
      BY <1>1, <1>8, <2>1 DEF LogInv, TellsItself
  <1> QED
    BY <1>7, <1>11, <1>12, <1>13, <1>14 DEF LogInv

LEMMA LogInit == Init => LogInv
  <1> SUFFICES ASSUME Init PROVE LogInv
    OBVIOUS
  <1>1. \A u \in Sessions : Log(u) = <<>>
    BY DEF Init, Log
  <1>2. \A h \in Sessions : handler[h].pc = "idle"
    BY NoHandlerType DEF Init
  <1> QED
    BY <1>1, <1>2 DEF Init, LogInv, ChangesApart, EventsKnown, ToldOnce, NotToldTwice,
       ToldOrOnItsWay, TellsItself, EventBeforeResponse, Making, OnItsWay

LEMMA LogStep ==
    ASSUME ControlInv, LogInv, NEW s \in Sessions, SessionStep(s)
    PROVE  LogInv'
  BY QuietStep, ChangeTold, SnapshotTold, DeliverTold, ReplyTold
  DEF SessionStep, ReadStep, WriteStep

-----------------------------------------------------------------------------
(* One thread *)

\* Nobody's handler runs when another one starts, if there is one thread.
LEMMA OneThreadFree ==
    ASSUME ControlInv, threads = 1, FreeThread, NEW h \in Sessions
    PROVE  phase[h] # "handling"
  <1>1. Handling \subseteq Sessions /\ IsFiniteSet(Sessions)
    BY ServerAssumption DEF Handling
  <1>2. IsFiniteSet(Handling) /\ Cardinality(Handling) \in Nat
    BY <1>1, FS_Subset, FS_CardinalityType
  <1>3. Cardinality(Handling) = 0
    BY <1>2 DEF FreeThread
  <1>4. Handling = {}
    BY <1>2, <1>3, FS_EmptySet
  <1> QED
    BY <1>4 DEF Handling

Current(h) ==
    /\ Making(h) \/ handler[h].pc = "items" => handler[h].ver = version
    /\ handler[h].pc = "reply" /\ handler[h].reply.kind = "state" =>
         handler[h].reply.users = version

\* The step of the one handler that runs keeps it alone and up to date.
LEMMA AloneStep ==
    ASSUME ControlInv, AloneAndCurrent, NEW s \in Sessions, SessionStep(s)
    PROVE  AloneAndCurrent'
  <1>1. threads' = threads
    BY DEF SessionStep, ReadStep, WriteStep, Accept, HandshakeDone, ReadSideFails,
           ReadChange, ReadMalformed, ReadGetState, Enter, Refuse, Change, Snapshot,
           DeliverTo, CopyItems, Reply, RunPosted, OnWrite, OnWriteError
  <1> SUFFICES ASSUME threads = 1
               PROVE  /\ \A g, h \in Sessions :
                           phase'[g] = "handling" /\ phase'[h] = "handling" => g = h
                      /\ \A h \in Sessions : Current(h)'
    BY <1>1 DEF AloneAndCurrent, Current, Making
  <1>2. /\ phase \in [Sessions -> Phases] /\ handler \in [Sessions -> HandlerType]
        /\ version \in Versions /\ version \in Nat
        /\ \A h \in Sessions : FormOf(h)
        /\ \A g, h \in Sessions : phase[g] = "handling" /\ phase[h] = "handling" => g = h
        /\ \A h \in Sessions : Current(h)
    BY VersionForms DEF ControlInv, TypeOK, HandlerType, HandlersInForm, AloneAndCurrent,
       Current
  <1>3. \A h \in Sessions \ {s} : handler'[h] = handler[h] /\ phase'[h] = phase[h]
    BY HandlerStep
  <1>4. phase'[s] = "handling" => phase[s] = "handling" \/ FreeThread
    BY <1>2 DEF SessionStep, ReadStep, WriteStep, Accept, HandshakeDone, ReadSideFails,
           ReadChange, ReadMalformed, ReadGetState, Enter, CanRun, Refuse, Change, Snapshot,
           DeliverTo, CopyItems, Reply, RunPosted, OnWrite, OnWriteError, readVars
  <1>5. \A g, h \in Sessions : phase'[g] = "handling" /\ phase'[h] = "handling" => g = h
    BY <1>2, <1>3, <1>4, OneThreadFree
  <1>6. ASSUME NEW h \in Sessions \ {s}
        PROVE  Current(h)'
    <2>1. CASE version' = version
      BY <1>2, <1>3, <2>1 DEF Current, Making
    <2>2. CASE version' # version
      <3>1. phase[s] = "handling"
        BY <2>2, HandlerStep DEF Change, At
      <3>2. handler'[h].pc = "idle"
        BY <1>2, <1>3, <3>1 DEF FormOf
      <3> QED
        BY <3>2 DEF Current, Making
    <2> QED
      BY <2>1, <2>2
  <1>7. Current(s)'
    <2> USE DEF Current, Making
    <2>0. Current(s) /\ FormOf(s) /\ handler[s] \in HandlerType
      BY <1>2
    <2>1. CASE \/ Accept(s) \/ HandshakeDone(s) \/ ReadSideFails(s)
               \/ RunPosted(s) \/ OnWrite(s) \/ OnWriteError(s)
      BY <1>2, <2>0, <2>1 DEF Accept, HandshakeDone, ReadSideFails, RunPosted, OnWrite,
         OnWriteError, readVars
    <2>2. CASE ReadChange(s)
      BY <1>2, <2>2, NoHandlerType DEF ReadChange, Enter, HandlerType
    <2>3. CASE ReadMalformed(s)
      <3>1. NoHandler.reply.kind = "response"
        BY DEF NoHandler, Response
      <3> QED
        BY <1>2, <2>3, <3>1, NoHandlerType DEF ReadMalformed, Enter, HandlerType
    <2>4. CASE ReadGetState(s)
      BY <1>2, <2>4, NoHandlerType DEF ReadGetState, Enter, HandlerType
    <2>5. CASE Refuse(s)
      <3>1. handler[s].reply.kind = "response"
        BY <2>0, <2>5 DEF Refuse, At, FormOf, Response
      <3> QED
        BY <1>2, <2>0, <2>5, <3>1 DEF Refuse, At, HandlerType
    <2>6. CASE Change(s)
      BY <1>2, <2>0, <2>6 DEF Change, At, HandlerType
    <2>7. CASE Snapshot(s)
      BY <1>2, <2>0, <2>7 DEF Snapshot, At, HandlerType
    <2>8. CASE \E t \in Sessions : DeliverTo(s, t)
      BY <1>2, <2>0, <2>8 DEF DeliverTo, At, HandlerType
    <2>9. CASE CopyItems(s)
      <3>1. State(handler[s].ver, version).users = handler[s].ver
        BY DEF State
      <3>2. /\ handler'[s].pc = "reply" /\ handler'[s].reply = State(handler[s].ver, version)
            /\ handler[s].pc = "items" /\ version' = version
        BY <1>2, <2>0, <2>9 DEF CopyItems, At, HandlerType
      <3> QED
        BY <2>0, <3>1, <3>2
    <2>10. CASE Reply(s)
      BY <1>2, <2>10, NoHandlerType DEF Reply
    <2> QED
      BY <2>1, <2>2, <2>3, <2>4, <2>5, <2>6, <2>7, <2>8, <2>9, <2>10
      DEF SessionStep, ReadStep, WriteStep
  <1> QED
    BY <1>5, <1>6, <1>7

\* What is put at the end of a log goes back on nothing if no event there is of
\* a later change.
LEMMA OrderAppend ==
    ASSUME NEW n \in Nat, NEW old, NEW new, DOMAIN old = 1..n, DOMAIN new = 1..(n + 1),
           \A k \in 1..n : new[k] = old[k],
           EventsInOrder(old), SnapshotsAreFresh(old),
           new[n + 1].kind = "event" =>
             \A k \in 1..n : old[k].kind = "event" => old[k].ver < new[n + 1].ver,
           new[n + 1].kind = "state" =>
             \A k \in 1..n : old[k].kind = "event" => old[k].ver <= new[n + 1].users
    PROVE  EventsInOrder(new) /\ SnapshotsAreFresh(new)
  <1>1. ASSUME NEW j \in 1..(n + 1), NEW k \in 1..(n + 1), j < k
        PROVE  j \in 1..n /\ (k \in 1..n \/ k = n + 1)
    BY <1>1
  <1>2. EventsInOrder(new)
    BY <1>1 DEF EventsInOrder
  <1>3. SnapshotsAreFresh(new)
    BY <1>1 DEF SnapshotsAreFresh
  <1> QED
    BY <1>2, <1>3

LEMMA OrderHolds ==
    ASSUME ControlInv, LogInv, AloneAndCurrent, ClientsDoNotGoBack,
           NEW s \in Sessions, SessionStep(s)
    PROVE  ClientsDoNotGoBack'
  <1>1. threads' = threads
    BY DEF SessionStep, ReadStep, WriteStep, Accept, HandshakeDone, ReadSideFails,
           ReadChange, ReadMalformed, ReadGetState, Enter, Refuse, Change, Snapshot,
           DeliverTo, CopyItems, Reply, RunPosted, OnWrite, OnWriteError
  <1> SUFFICES ASSUME threads = 1, NEW u \in Sessions
               PROVE  EventsInOrder(Log(u)') /\ SnapshotsAreFresh(Log(u)')
    BY <1>1 DEF ClientsDoNotGoBack, EventsInOrder, SnapshotsAreFresh
  <1>2. EventsInOrder(Log(u)) /\ SnapshotsAreFresh(Log(u))
    BY DEF ClientsDoNotGoBack
  <1>3. CASE Log(u)' = Log(u)
    BY <1>2, <1>3
  <1>4. /\ handler[s] \in HandlerType /\ FormOf(s) /\ Current(s)
        /\ version \in Nat /\ handler[s].reply \in Message
        /\ \A k \in DOMAIN Log(u) : Log(u)[k].kind = "event" =>
             Log(u)[k].ver \in Nat /\ Log(u)[k].ver <= version
    BY VersionForms DEF ControlInv, TypeOK, HandlerType, HandlersInForm, AloneAndCurrent,
       Current, LogInv, EventsKnown
  <1>5. ASSUME NEW m \in Message, Post(u, m), UNCHANGED <<write_queue, sent>>,
               m.kind = "event" => m.ver = version /\ ~Told(u, version),
               m.kind = "state" => m.users = version
        PROVE  EventsInOrder(Log(u)') /\ SnapshotsAreFresh(Log(u)')
    <2> DEFINE n == Len(Log(u))
               old == Log(u)
               new == Log(u)'
    <2>1. /\ n \in Nat /\ DOMAIN old = 1..n /\ DOMAIN new = 1..(n + 1)
          /\ new[n + 1] = m /\ \A k \in 1..n : new[k] = old[k]
      BY <1>5, LogAppend
    <2>2. old \in Seq(Message)
      BY LogForm
    <2>3. ASSUME NEW k \in 1..n, old[k].kind = "event"
          PROVE  /\ old[k].ver \in Nat /\ old[k].ver <= version
                 /\ m.kind = "event" => old[k].ver # version
      <3>1. old[k] \in Message
        BY <2>2, ElementOfSeq
      <3>2. old[k] = Event(old[k].ver)
        BY <2>3, <3>1, MessageForms
      <3>3. k \in DOMAIN old
        BY <2>1
      <3> QED
        BY <1>4, <1>5, <2>3, <3>2, <3>3 DEF Told
    <2>4. EventsInOrder(old) /\ SnapshotsAreFresh(old)
      BY <1>2
    <2> HIDE DEF n, old, new
    <2>5. m.kind = "event" => \A k \in 1..n : old[k].kind = "event" => old[k].ver < m.ver
      BY <1>4, <1>5, <2>3
    <2>6. m.kind = "state" => \A k \in 1..n : old[k].kind = "event" => old[k].ver <= m.users
      BY <1>4, <1>5, <2>3
    <2>7. EventsInOrder(new) /\ SnapshotsAreFresh(new)
      BY <2>1, <2>4, <2>5, <2>6, OrderAppend
    <2> QED
      BY <2>7 DEF new
  <1>6. CASE DeliverTo(s, u)
    <2>1. /\ Post(u, Event(handler[s].ver)) /\ UNCHANGED <<write_queue, sent>>
          /\ OnItsWay(s, u) /\ handler[s].pc = "deliver"
      BY <1>6 DEF DeliverTo, At, OnItsWay
    <2>2. handler[s].ver = version /\ version \in Versions
      BY <1>4, <2>1 DEF Current, Making, HandlerType
    <2>3. ~Told(u, version)
      BY <2>1, <2>2 DEF LogInv, NotToldTwice
    <2>4. Event(version) \in Message /\ Event(version).kind = "event" /\ Event(version).ver = version
      BY <2>2, MessageForms
    <2> QED
      BY <1>5, <2>1, <2>2, <2>3, <2>4
  <1>7. CASE Reply(s) /\ u = s
    <2> DEFINE m == handler[s].reply
    <2>1. /\ Post(u, m) /\ UNCHANGED <<write_queue, sent>> /\ m \in Message
      BY <1>4, <1>7 DEF Reply
    <2>2. \/ handler[s].pc = "reply" /\ (m = Response(0) \/ m.kind = "state")
          \/ m = Response(handler[s].ver)
      BY <1>4, <1>7 DEF Reply, ReadyToReply, At, FormOf, Making
    <2>3. \A v : Response(v).kind = "response"
      BY DEF Response
    <2>4. m.kind # "event"
      <3> HIDE DEF m
      <3> QED
        BY <2>2, <2>3
    <2>5. m.kind = "state" => m.users = version
      BY <1>4, <2>2, <2>3 DEF Current
    <2> HIDE DEF m
    <2> QED
      BY <1>5, <2>1, <2>4, <2>5
  <1>8. ASSUME NEW t \in Sessions, NEW m \in Message, Post(t, m), t # u,
               UNCHANGED <<write_queue, sent>>
        PROVE  Log(u)' = Log(u)
    BY <1>8, LogGrows
  <1>9. CASE \E t \in Sessions : DeliverTo(s, t) /\ t # u
    <2>1. Event(handler[s].ver) \in Message
      BY <1>4, MessageForms DEF HandlerType
    <2> QED
      BY <1>3, <1>8, <1>9, <2>1 DEF DeliverTo
  <1>10. CASE Reply(s) /\ u # s
    BY <1>3, <1>4, <1>8, <1>10 DEF Reply
  <1>11. CASE ReadOnly(s) \/ RunPosted(s) \/ OnWrite(s) \/ OnWriteError(s)
    BY <1>3, <1>11, LogStays
  <1> QED
    BY <1>6, <1>7, <1>9, <1>10, <1>11 DEF SessionStep, ReadStep, WriteStep, ReadOnly

-----------------------------------------------------------------------------
(* Theorems *)

LEMMA InvariantHolds == Spec => [](ControlInv /\ LogInv)
  <1>1. Init => ControlInv /\ LogInv
    BY ControlInit, LogInit
  <1>2. ControlInv /\ LogInv /\ [Next]_vars => (ControlInv /\ LogInv)'
    <2> SUFFICES ASSUME ControlInv, LogInv, [Next]_vars
                 PROVE  ControlInv' /\ LogInv'
      OBVIOUS
    <2>1. CASE Next
      <3>1. PICK s \in Sessions : SessionStep(s)
        BY <2>1 DEF Next, SessionStep
      <3> QED
        BY <3>1, ControlStep, LogStep
    <2>2. CASE UNCHANGED vars
      <3>1. ControlInv'
        BY <2>2 DEF vars, readVars, writeVars, ControlInv, TypeOK, OneWriteAtATime,
           LiveSessionsRegistered, HandlersInForm, FormOf, Making, NotYetThere
      <3>2. /\ \A u \in Sessions : Log(u)' = Log(u)
            /\ UNCHANGED <<version, handler, sessions, joined, broken>>
        BY <2>2 DEF vars, readVars, writeVars, Log
      <3>3. sessions \subseteq Sessions
        BY DEF ControlInv, TypeOK
      <3>4. LogInv'
        BY <3>2, <3>3, NothingTold
      <3> QED
        BY <3>1, <3>4
    <2> QED
      BY <2>1, <2>2
  <1> QED
    BY <1>1, <1>2, PTL DEF Spec

\* The queues and handlers keep their form, and the message that a write refers
\* to stays in the queue until the write is over (Session::DoWrite).
THEOREM SessionTypes == Spec => []TypeOK
  <1>1. ControlInv => TypeOK
    BY DEF ControlInv
  <1> QED
    BY <1>1, InvariantHolds, PTL

\* On each connection one write is under way while messages wait, and never
\* two, whatever threads, requests and broadcasts there are.
THEOREM WritesNeverOverlap == Spec => []OneWriteAtATime
  <1>1. ControlInv => OneWriteAtATime
    BY DEF ControlInv
  <1> QED
    BY <1>1, InvariantHolds, PTL

\* Server::sessions_ is the set of the connections that live.
THEOREM RegistryIsExact == Spec => []LiveSessionsRegistered
  <1>1. ControlInv => LiveSessionsRegistered
    BY DEF ControlInv
  <1> QED
    BY <1>1, InvariantHolds, PTL

\* The response to a change comes after its event on the same connection.
THEOREM OwnEventFirst == Spec => []EventBeforeResponse
  <1>1. LogInv => EventBeforeResponse
    BY DEF LogInv
  <1> QED
    BY <1>1, InvariantHolds, PTL

\* Each client that is connected is told once of every change since it came.
THEOREM EveryChangeToldOnce == Spec => []NoChangeMissed
  <1>1. ASSUME ControlInv, LogInv
        PROVE  NoChangeMissed
    <2> SUFFICES ASSUME NEW s \in Sessions, NEW v \in 1..version
                 PROVE  LET Seen == {k \in DOMAIN Log(s) : Log(s)[k] = Event(v)} IN
                        /\ Cardinality(Seen) <= 1
                        /\ (s \in sessions /\ joined[s] < v /\ ~Pending(v)) => Seen # {}
      BY DEF NoChangeMissed
    <2> DEFINE Seen == {k \in DOMAIN Log(s) : Log(s)[k] = Event(v)}
    <2>1. \A j, k \in Seen : j = k
      <3>1. Event(v).kind = "event"
        BY DEF Event
      <3> QED
        BY <1>1, <3>1 DEF LogInv, ToldOnce
    <2>2. (s \in sessions /\ joined[s] < v /\ ~Pending(v)) => Seen # {}
      <3> SUFFICES ASSUME s \in sessions, joined[s] < v, ~Pending(v)
                   PROVE  Told(s, v)
        BY DEF Told
      <3>1. ASSUME NEW h \in Sessions, OnItsWay(h, s), handler[h].ver = v
            PROVE  FALSE
        <4>1. phase[h] = "handling"
          BY <1>1, <3>1 DEF ControlInv, HandlersInForm, FormOf, OnItsWay
        <4> QED
          BY <3>1, <4>1 DEF Pending
      <3> QED
        BY <1>1, <3>1 DEF LogInv, ToldOrOnItsWay
    <2> HIDE DEF Seen
    <2>3. CASE Seen = {}
      BY <2>2, <2>3, FS_EmptySet DEF Seen
    <2>4. CASE Seen # {}
      <3>1. PICK k \in Seen : TRUE
        BY <2>4
      <3>2. Seen = {k}
        BY <2>1, <3>1
      <3>3. Cardinality(Seen) = 1
        BY <3>2, FS_Singleton
      <3> QED
        BY <2>2, <3>3 DEF Seen
    <2> QED
      BY <2>3, <2>4
  <1> QED
    BY <1>1, InvariantHolds, PTL

\* With one thread, events come in the order of the changes, and no snapshot is
\* older than an event that came before it.
THEOREM OneThreadNeverGoesBack == Spec => []ClientsDoNotGoBack
  <1>1. Init => OneThreadInv
    <2> SUFFICES ASSUME Init PROVE OneThreadInv
      OBVIOUS
    <2>1. \A u \in Sessions : Log(u) = <<>>
      BY DEF Init, Log
    <2>2. \A h \in Sessions : phase[h] = "none" /\ handler[h].pc = "idle"
      BY NoHandlerType DEF Init
    <2> QED
      BY <2>1, <2>2 DEF OneThreadInv, AloneAndCurrent, ClientsDoNotGoBack, EventsInOrder,
         SnapshotsAreFresh, Making
  <1>2. (ControlInv /\ LogInv) /\ OneThreadInv /\ [Next]_vars => OneThreadInv'
    <2> SUFFICES ASSUME ControlInv, LogInv, AloneAndCurrent, ClientsDoNotGoBack, [Next]_vars
                 PROVE  AloneAndCurrent' /\ ClientsDoNotGoBack'
      BY DEF OneThreadInv
    <2>1. CASE Next
      <3>1. PICK s \in Sessions : SessionStep(s)
        BY <2>1 DEF Next, SessionStep
      <3> QED
        BY <3>1, AloneStep, OrderHolds
    <2>2. CASE UNCHANGED vars
      <3>1. \A u \in Sessions : Log(u)' = Log(u)
        BY <2>2 DEF vars, readVars, writeVars, Log
      <3>2. UNCHANGED <<threads, phase, handler, version>>
        BY <2>2 DEF vars, readVars
      <3>3. AloneAndCurrent'
        BY <3>2 DEF AloneAndCurrent, Making
      <3>4. ClientsDoNotGoBack'
        BY <3>1, <3>2 DEF ClientsDoNotGoBack, EventsInOrder, SnapshotsAreFresh
      <3> QED
        BY <3>3, <3>4
    <2> QED
      BY <2>1, <2>2
  <1>3. OneThreadInv => ClientsDoNotGoBack
    BY DEF OneThreadInv
  <1> QED
    BY <1>1, <1>2, <1>3, InvariantHolds, PTL DEF Spec

=============================================================================

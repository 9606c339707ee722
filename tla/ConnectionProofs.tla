---------------------------- MODULE ConnectionProofs ----------------------------
(***************************************************************************)
(* Proofs about Connection, for every set of networks and every number of  *)
(* commands.                                                               *)
(***************************************************************************)
EXTENDS Connection, FiniteSetTheorems, SequenceTheorems, TLAPS

Command   == [type : {"auth", "assoc"}, bss : Bss]
Responses == {"assoc_ok", "assoc_fail"}

ConnTypes ==
  /\ target \in Bss /\ bss \in Bss \union {NULL} /\ connected \in Bss \union {NULL}
  /\ asked \in Seq(Command) /\ Len(asked) <= MaxReq /\ fw \subseteq DOMAIN asked
  /\ events \in Seq(Event)
  /\ held \in [Bss -> Int]
  /\ reported \in [Reqs -> Bss \union {NULL, Unsaid}]

\* The firmware answers a command at most once: a response on its way is the
\* only one of an association command that has not been reported yet.
AnswerInv ==
  /\ \A n \in fw : reported[n] = Unsaid
  /\ \A n \in Reqs : reported[n] # Unsaid => n \in DOMAIN asked
  /\ \A i \in DOMAIN events : events[i].type \in Responses =>
       /\ events[i].req \in DOMAIN asked /\ asked[events[i].req].type = "assoc"
       /\ reported[events[i].req] = Unsaid /\ events[i].req \notin fw
  /\ \A i, j \in DOMAIN events :
       /\ events[i].type \in Responses /\ events[j].type \in Responses
       /\ events[i].req = events[j].req
       => i = j

\* The driver remembers the network of every unanswered association command,
\* or has changed it since.
BssInv == \A n \in Unanswered : bss = asked[n].bss \/ n \in overtaken

ConnInv == ConnTypes /\ AnswerInv /\ BssInv /\ ResponseKeepsBss

\* The association commands for network b without a reported response.
Open(b) == {n \in DOMAIN asked : asked[n] = [type |-> "assoc", bss |-> b]
                                   /\ reported[n] = Unsaid}
-----------------------------------------------------------------------------
(* What the pieces of the actions do to the queues *)

\* A command the firmware takes has the next number.
LEMMA AskEffect ==
  ASSUME ConnTypes, AnswerInv, NEW t \in {"auth", "assoc"}, NEW b \in Bss, Ask(t, b)
  PROVE  LET n == Len(asked) + 1 IN
         /\ asked' \in Seq(Command) /\ Len(asked') <= MaxReq
         /\ n \in Reqs /\ n \notin DOMAIN asked /\ DOMAIN asked' = DOMAIN asked \union {n}
         /\ \A m \in DOMAIN asked : asked'[m] = asked[m]
         /\ asked'[n] = [type |-> t, bss |-> b]
         /\ fw' = fw \union {n} /\ reported[n] = Unsaid
<1> DEFINE n == Len(asked) + 1
           c == [type |-> t, bss |-> b]
<1>1. /\ asked \in Seq(Command) /\ Len(asked) \in Nat /\ DOMAIN asked = 1..Len(asked)
      /\ c \in Command
  BY LenProperties DEF ConnTypes, Command
<1>2. asked' = Append(asked, c) /\ fw' = fw \union {n} /\ Len(asked) < MaxReq
  BY DEF Ask
<1>3. /\ asked' \in Seq(Command) /\ Len(asked') = n
      /\ \A m \in 1..Len(asked) : asked'[m] = asked[m]
      /\ asked'[n] = c
  BY <1>1, <1>2, AppendProperties
<1>4. DOMAIN asked' = 1..n
  BY <1>3, LenProperties
<1>5. n \in Reqs /\ n \notin DOMAIN asked /\ DOMAIN asked' = DOMAIN asked \union {n}
  BY <1>1, <1>2, <1>4, ConnectionAssumption DEF Reqs
<1>6. reported[n] = Unsaid
  BY <1>5 DEF AnswerInv
<1>7. Len(asked') <= MaxReq
  BY <1>1, <1>2, <1>3, ConnectionAssumption
<1> HIDE DEF n, c
<1> QED BY <1>1, <1>2, <1>3, <1>5, <1>6, <1>7 DEF n, c

\* The callbacks take the first event.
LEMMA TailEffect ==
  ASSUME ConnTypes, events # <<>>, events' = Tail(events)
  PROVE  /\ events' \in Seq(Event) /\ Head(events) = events[1] /\ 1 \in DOMAIN events
         /\ Head(events) \in Event
         /\ \A i \in DOMAIN events' : i \in Nat /\ i + 1 \in DOMAIN events
                                        /\ i + 1 # 1 /\ events'[i] = events[i + 1]
<1>1. /\ events \in Seq(Event) /\ Len(events) \in Nat \ {0}
      /\ DOMAIN events = 1..Len(events)
  BY EmptySeq, LenProperties DEF ConnTypes
<1>2. /\ events' \in Seq(Event) /\ Head(events) \in Event
      /\ Len(events') = Len(events) - 1
      /\ \A i \in 1..Len(events') : events'[i] = events[i + 1]
  BY <1>1, HeadTailProperties
<1>3. DOMAIN events' = 1..Len(events')
  BY <1>2, LenProperties
<1>4. Head(events) = events[1]
  BY <1>1
<1> QED BY <1>1, <1>2, <1>3, <1>4

\* The firmware's events queue up behind the others.
LEMMA AppendEffect ==
  ASSUME ConnTypes, NEW e \in Event, events' = Append(events, e)
  PROVE  LET k == Len(events) + 1 IN
         /\ events' \in Seq(Event) /\ k \notin DOMAIN events
         /\ DOMAIN events' = DOMAIN events \union {k}
         /\ \A i \in DOMAIN events : events'[i] = events[i]
         /\ events'[k] = e
<1> DEFINE k == Len(events) + 1
<1>1. events \in Seq(Event) /\ Len(events) \in Nat /\ DOMAIN events = 1..Len(events)
  BY LenProperties DEF ConnTypes
<1>2. /\ events' \in Seq(Event) /\ Len(events') = k
      /\ \A i \in 1..Len(events) : events'[i] = events[i]
      /\ events'[k] = e
  BY <1>1, AppendProperties
<1>3. DOMAIN events' = 1..k
  BY <1>2, LenProperties
<1>4. k \notin DOMAIN events /\ DOMAIN events' = DOMAIN events \union {k}
  BY <1>1, <1>3
<1> HIDE DEF k
<1> QED BY <1>1, <1>2, <1>4 DEF k

\* Numbers of commands are numbers reported knows.
LEMMA AskedAreReqs == ConnTypes => DOMAIN asked \subseteq Reqs
<1> SUFFICES ASSUME ConnTypes PROVE DOMAIN asked \subseteq Reqs
  OBVIOUS
<1>1. DOMAIN asked = 1..Len(asked) /\ Len(asked) \in Nat
  BY LenProperties DEF ConnTypes
<1> QED BY <1>1, ConnectionAssumption DEF ConnTypes, Reqs

-----------------------------------------------------------------------------
(* ConnInv *)

\* The initial state.
LEMMA ConnStart == Init => ConnInv
<1> SUFFICES ASSUME Init PROVE ConnInv
  OBVIOUS
<1> USE DEF Init
<1>1. ConnTypes
  <2>1. asked \in Seq(Command) /\ events \in Seq(Event) /\ Len(asked) = 0
    BY EmptySeq
  <2>2. Len(asked) <= MaxReq
    BY <2>1, ConnectionAssumption
  <2>3. held \in [Bss -> Int]
    OBVIOUS
  <2> QED BY <2>1, <2>2, <2>3 DEF ConnTypes
<1>2. AnswerInv /\ BssInv /\ ResponseKeepsBss
  BY DEF AnswerInv, BssInv, ResponseKeepsBss, Unanswered
<1> QED BY <1>1, <1>2 DEF ConnInv

\* Types.
LEMMA ConnTypeStep == ConnTypes /\ AnswerInv /\ [Next]_vars => ConnTypes'
<1> SUFFICES ASSUME ConnTypes, AnswerInv, [Next]_vars PROVE ConnTypes'
  OBVIOUS
<1>0. Disconnected => connected' \in Bss \union {NULL} /\ held' \in [Bss -> Int]
  BY DEF Disconnected, ConnTypes
<1>1. ASSUME NEW b \in Bss, Auth(b) PROVE ConnTypes'
  BY <1>1, AskEffect DEF Auth, ConnTypes, cfgVars, history
<1>2. ASSUME NEW b \in Bss, AuthRefused(b) PROVE ConnTypes'
  BY <1>2 DEF AuthRefused, ConnTypes, cfgVars, history
<1>3. CASE Assoc
  <2>1. target \in Bss
    BY DEF ConnTypes
  <2>2. held' \in [Bss -> Int]
    BY <1>3 DEF Assoc, ConnTypes
  <2> QED BY <1>3, <2>1, <2>2, AskEffect DEF Assoc, AssocStore, SetBss, ConnTypes
<1>4. CASE AssocRefused
  BY <1>4 DEF AssocRefused, AssocStore, SetBss, ConnTypes, cfgVars
<1>5. CASE Deauth
  BY <1>0, <1>5 DEF Deauth, ConnTypes, history
<1>6. CASE Disassoc
  BY <1>0, <1>6 DEF Disassoc, DisassocClear, SetBss, ConnTypes
<1>7. CASE AuthResp
  BY <1>7, TailEffect DEF AuthResp, Handle, ConnTypes, cfgVars, history
<1>8. CASE LeaveEvent
  BY <1>0, <1>8, TailEffect DEF LeaveEvent, Handle, ConnTypes, cfgVars, history
<1>9. CASE AssocResp
  <2>1. events' \in Seq(Event)
    BY <1>9, TailEffect DEF AssocResp, Handle
  <2>2. reported' \in [Reqs -> Bss \union {NULL, Unsaid}]
    BY <1>9 DEF AssocResp, ReportedBss, ConnTypes
  <2>3. connected' \in Bss \union {NULL} /\ held' \in [Bss -> Int]
    BY <1>9 DEF AssocResp, ReportedBss, ConnTypes, cfgVars
  <2> QED BY <1>9, <2>1, <2>2, <2>3 DEF AssocResp, ConnTypes
<1>10. ASSUME NEW n \in Reqs, FwAnswer(n) PROVE ConnTypes'
  <2>1. PICK t \in {"auth_resp", "assoc_ok", "assoc_fail"} :
          events' = Append(events, [type |-> t, req |-> n])
    BY <1>10 DEF FwAnswer
  <2>2. [type |-> t, req |-> n] \in Event
    BY DEF Event
  <2> QED BY <1>10, <2>1, <2>2, AppendEffect DEF FwAnswer, ConnTypes, cfgVars, history
<1>11. ASSUME NEW n \in Reqs, FwDrops(n) PROVE ConnTypes'
  BY <1>11 DEF FwDrops, ConnTypes, cfgVars, history
<1>12. ASSUME NEW t \in {"deauth", "disassoc"}, NEW b \in Bss, FwLeave(t, b)
       PROVE  ConnTypes'
  <2>1. [type |-> t, bss |-> b] \in Event
    BY DEF Event
  <2> QED BY <1>12, <2>1, AppendEffect DEF FwLeave, ConnTypes, cfgVars, history
<1>13. CASE UNCHANGED vars
  BY <1>13 DEF vars, ConnTypes
<1> QED BY <1>1, <1>2, <1>3, <1>4, <1>5, <1>6, <1>7, <1>8, <1>9, <1>10, <1>11, <1>12,
           <1>13 DEF Next, Operation, Callback, Firmware

\* A new command has no response yet.
LEMMA AskKeepsAnswers ==
  ASSUME ConnTypes, AnswerInv, NEW t \in {"auth", "assoc"}, NEW b \in Bss, Ask(t, b),
         UNCHANGED <<events, reported>>
  PROVE  AnswerInv'
<1> DEFINE n == Len(asked) + 1
<1>1. /\ n \notin DOMAIN asked /\ DOMAIN asked' = DOMAIN asked \union {n}
      /\ \A m \in DOMAIN asked : asked'[m] = asked[m]
      /\ fw' = fw \union {n} /\ reported[n] = Unsaid
  BY AskEffect
<1> HIDE DEF n
<1> QED BY <1>1 DEF AnswerInv

\* Taking an event that is no response, or the response that is reported, leaves
\* the others.
LEMMA TailKeepsAnswers ==
  ASSUME ConnTypes, AnswerInv, events # <<>>, events' = Tail(events),
         UNCHANGED <<asked, fw>>,
         \/ UNCHANGED reported
         \/ /\ Head(events).type \in Responses
            /\ \E b : reported' = [reported EXCEPT ![Head(events).req] = b]
  PROVE  AnswerInv'
<1>1. /\ Head(events) = events[1] /\ 1 \in DOMAIN events
      /\ \A i \in DOMAIN events' : i \in Nat /\ i + 1 \in DOMAIN events
                                    /\ i + 1 # 1 /\ events'[i] = events[i + 1]
  BY TailEffect
<1>2. DOMAIN asked \subseteq Reqs /\ reported \in [Reqs -> Bss \union {NULL, Unsaid}]
      /\ fw \subseteq DOMAIN asked
  BY AskedAreReqs DEF ConnTypes
<1>3. \A i, j \in DOMAIN events' :
       /\ events'[i].type \in Responses /\ events'[j].type \in Responses
       /\ events'[i].req = events'[j].req
       => i = j
  <2> SUFFICES ASSUME NEW i \in DOMAIN events', NEW j \in DOMAIN events',
                      events'[i].type \in Responses, events'[j].type \in Responses,
                      events'[i].req = events'[j].req
               PROVE  i = j
    OBVIOUS
  <2>1. i + 1 = j + 1
    BY <1>1 DEF AnswerInv
  <2> QED BY <1>1, <2>1
<1>4. CASE UNCHANGED reported
  BY <1>1, <1>3, <1>4 DEF AnswerInv
<1>5. ASSUME Head(events).type \in Responses, NEW b,
             reported' = [reported EXCEPT ![Head(events).req] = b]
      PROVE  AnswerInv'
  <2> DEFINE n == Head(events).req
  <2>1. n \in DOMAIN asked /\ n \notin fw
    BY <1>1, <1>5 DEF AnswerInv
  <2>2. \A m \in Reqs : m # n => reported'[m] = reported[m]
    BY <1>2, <1>5
  <2>3. \A i \in DOMAIN events' : events'[i].type \in Responses => events'[i].req # n
    BY <1>1, <1>5 DEF AnswerInv
  <2>4. \A m \in fw' : reported'[m] = Unsaid
    BY <1>2, <2>1, <2>2 DEF AnswerInv
  <2>5. \A m \in Reqs : reported'[m] # Unsaid => m \in DOMAIN asked'
    BY <2>1, <2>2 DEF AnswerInv
  <2>6. \A i \in DOMAIN events' : events'[i].type \in Responses =>
          /\ events'[i].req \in DOMAIN asked' /\ asked'[events'[i].req].type = "assoc"
          /\ reported'[events'[i].req] = Unsaid /\ events'[i].req \notin fw'
    BY <1>1, <1>2, <2>2, <2>3 DEF AnswerInv
  <2> QED BY <1>3, <2>4, <2>5, <2>6 DEF AnswerInv
<1> QED BY <1>4, <1>5

\* Responses keep their place.
LEMMA AnswerStep == ConnTypes /\ AnswerInv /\ [Next]_vars => AnswerInv'
<1> SUFFICES ASSUME ConnTypes, AnswerInv, [Next]_vars PROVE AnswerInv'
  OBVIOUS
<1>1. CASE UNCHANGED <<asked, fw, events, reported>>
  BY <1>1 DEF AnswerInv
<1>2. ASSUME NEW b \in Bss, Auth(b) PROVE AnswerInv'
  BY <1>2, AskKeepsAnswers DEF Auth, history
<1>3. CASE Assoc
  BY <1>3, AskKeepsAnswers DEF Assoc, ConnTypes
<1>4. CASE AuthResp
  BY <1>4, TailKeepsAnswers DEF AuthResp, Handle, history
<1>5. CASE LeaveEvent
  BY <1>5, TailKeepsAnswers DEF LeaveEvent, Handle, history
<1>6. CASE AssocResp
  <2>1. /\ events # <<>> /\ events' = Tail(events) /\ Head(events).type \in Responses
        /\ UNCHANGED <<asked, fw>>
    BY <1>6 DEF AssocResp, Handle, Responses
  <2>2. \E b : reported' = [reported EXCEPT ![Head(events).req] = b]
    BY <1>6 DEF AssocResp
  <2> QED BY <2>1, <2>2, TailKeepsAnswers
<1>7. ASSUME NEW n \in Reqs, FwAnswer(n) PROVE AnswerInv'
  <2>1. PICK t \in {"auth_resp", "assoc_ok", "assoc_fail"} :
          /\ events' = Append(events, [type |-> t, req |-> n])
          /\ t \in Responses => asked[n].type # "auth"
    BY <1>7 DEF FwAnswer, Responses
  <2>2. [type |-> t, req |-> n] \in Event
    BY DEF Event
  <2> DEFINE k == Len(events) + 1
  <2>3. /\ k \notin DOMAIN events /\ DOMAIN events' = DOMAIN events \union {k}
        /\ \A i \in DOMAIN events : events'[i] = events[i]
        /\ events'[k] = [type |-> t, req |-> n]
    BY <2>1, <2>2, AppendEffect
  <2>4. /\ n \in fw /\ n \in DOMAIN asked /\ fw' = fw \ {n} /\ UNCHANGED <<asked, reported>>
        /\ asked[n].type \in {"auth", "assoc"}
    <3>1. n \in fw /\ fw' = fw \ {n} /\ UNCHANGED <<asked, reported>>
      BY <1>7 DEF FwAnswer, history
    <3>2. n \in DOMAIN asked
      BY <3>1 DEF ConnTypes
    <3>3. asked[n] \in Command
      BY <3>2, ElementOfSeq, LenProperties DEF ConnTypes
    <3> QED BY <3>1, <3>2, <3>3 DEF Command
  <2> HIDE DEF k
  <2>5. \A i \in DOMAIN events : events[i].type \in Responses => events[i].req # n
    BY <2>4 DEF AnswerInv
  <2> QED BY <2>1, <2>3, <2>4, <2>5 DEF AnswerInv
<1>8. ASSUME NEW n \in Reqs, FwDrops(n) PROVE AnswerInv'
  BY <1>8 DEF FwDrops, AnswerInv, history
<1>9. ASSUME NEW t \in {"deauth", "disassoc"}, NEW b \in Bss, FwLeave(t, b)
      PROVE  AnswerInv'
  <2> DEFINE k == Len(events) + 1
  <2>1. [type |-> t, bss |-> b] \in Event
    BY DEF Event
  <2>2. /\ k \notin DOMAIN events /\ DOMAIN events' = DOMAIN events \union {k}
        /\ \A i \in DOMAIN events : events'[i] = events[i]
        /\ events'[k].type \notin Responses
    BY <1>9, <2>1, AppendEffect DEF FwLeave, Responses
  <2> HIDE DEF k
  <2>3. UNCHANGED <<asked, fw, reported>>
    BY <1>9 DEF FwLeave, history
  <2> QED BY <2>2, <2>3 DEF AnswerInv
<1> QED BY <1>1, <1>2, <1>3, <1>4, <1>5, <1>6, <1>7, <1>8, <1>9
        DEF Next, Operation, Callback, Firmware, AuthRefused, AssocRefused, Deauth,
            Disassoc, cfgVars, history, vars

\* No action but an association command adds to the unanswered ones.
LEMMA UnansweredShrinks ==
  ConnTypes /\ AnswerInv /\ [Next]_vars /\ ~Assoc
    => Unanswered' \subseteq Unanswered /\ \A n \in Unanswered' : asked'[n] = asked[n]
<1> SUFFICES ASSUME ConnTypes, AnswerInv, [Next]_vars, ~Assoc
             PROVE  Unanswered' \subseteq Unanswered
                    /\ \A n \in Unanswered' : asked'[n] = asked[n]
  OBVIOUS
<1>1. CASE UNCHANGED <<asked, fw, events, reported>>
  BY <1>1 DEF Unanswered
<1>2. ASSUME NEW b \in Bss, Auth(b)
      PROVE  Unanswered' \subseteq Unanswered /\ \A n \in Unanswered' : asked'[n] = asked[n]
  <2> DEFINE n == Len(asked) + 1
  <2>1. /\ DOMAIN asked' = DOMAIN asked \union {n} /\ n \notin DOMAIN asked
        /\ \A m \in DOMAIN asked : asked'[m] = asked[m]
        /\ asked'[n] = [type |-> "auth", bss |-> b] /\ fw' = fw \union {n}
    BY <1>2, AskEffect DEF Auth
  <2>2. UNCHANGED <<events, reported>>
    BY <1>2 DEF Auth, history
  <2> HIDE DEF n
  <2> QED BY <2>1, <2>2 DEF Unanswered
<1>3. CASE AuthResp \/ LeaveEvent \/ AssocResp
  <2>1. events # <<>> /\ events' = Tail(events) /\ UNCHANGED <<asked, fw>>
    BY <1>3 DEF AuthResp, LeaveEvent, AssocResp, Handle
  <2>2. \A i \in DOMAIN events' : i + 1 \in DOMAIN events /\ events'[i] = events[i + 1]
    BY <2>1, TailEffect
  <2>3. \A n \in Reqs : reported'[n] = Unsaid => reported[n] = Unsaid
    <3>1. CASE AuthResp \/ LeaveEvent
      BY <3>1 DEF AuthResp, LeaveEvent, history
    <3>2. CASE AssocResp
      <4>1. /\ Head(events).type \in Responses
            /\ reported' = [reported EXCEPT ![Head(events).req] = bss]
        BY <3>2 DEF AssocResp, Handle, Responses, ReportedBss
      <4>2. reported[Head(events).req] = Unsaid
        BY <2>1, <4>1, TailEffect DEF AnswerInv
      <4> QED BY <4>1, <4>2 DEF ConnTypes
    <3> QED BY <1>3, <3>1, <3>2
  <2> QED BY <2>1, <2>2, <2>3, AskedAreReqs DEF Unanswered
<1>4. ASSUME NEW n \in Reqs, FwAnswer(n)
      PROVE  Unanswered' \subseteq Unanswered /\ \A m \in Unanswered' : asked'[m] = asked[m]
  <2>1. PICK t \in {"auth_resp", "assoc_ok", "assoc_fail"} :
          events' = Append(events, [type |-> t, req |-> n])
    BY <1>4 DEF FwAnswer
  <2>2. [type |-> t, req |-> n] \in Event
    BY DEF Event
  <2> DEFINE k == Len(events) + 1
  <2>3. /\ DOMAIN events' = DOMAIN events \union {k}
        /\ \A i \in DOMAIN events : events'[i] = events[i]
        /\ events'[k] = [type |-> t, req |-> n]
    BY <2>1, <2>2, AppendEffect
  <2>4. n \in fw /\ fw' = fw \ {n} /\ UNCHANGED <<asked, reported>>
    BY <1>4 DEF FwAnswer, history
  <2> HIDE DEF k
  <2> QED BY <2>3, <2>4 DEF Unanswered
<1>5. ASSUME NEW n \in Reqs, FwDrops(n)
      PROVE  Unanswered' \subseteq Unanswered /\ \A m \in Unanswered' : asked'[m] = asked[m]
  BY <1>5 DEF FwDrops, Unanswered, history
<1>6. ASSUME NEW t \in {"deauth", "disassoc"}, NEW b \in Bss, FwLeave(t, b)
      PROVE  Unanswered' \subseteq Unanswered /\ \A m \in Unanswered' : asked'[m] = asked[m]
  <2> DEFINE k == Len(events) + 1
  <2>1. [type |-> t, bss |-> b] \in Event
    BY DEF Event
  <2>2. /\ DOMAIN events' = DOMAIN events \union {k}
        /\ \A i \in DOMAIN events : events'[i] = events[i]
        /\ events'[k].type \notin {"assoc_ok", "assoc_fail"}
    BY <1>6, <2>1, AppendEffect DEF FwLeave
  <2> HIDE DEF k
  <2>3. UNCHANGED <<asked, fw, reported>>
    BY <1>6 DEF FwLeave, history
  <2> QED BY <2>2, <2>3 DEF Unanswered
<1> QED BY <1>1, <1>2, <1>3, <1>4, <1>5, <1>6
        DEF Next, Operation, Callback, Firmware, AuthRefused, AssocRefused, Deauth,
            Disassoc, cfgVars, history, vars

\* The remembered network fits, or the command was overtaken.
LEMMA BssStep == ConnTypes /\ AnswerInv /\ BssInv /\ [Next]_vars => BssInv'
<1> SUFFICES ASSUME ConnTypes, AnswerInv, BssInv, [Next]_vars PROVE BssInv'
  OBVIOUS
<1>1. CASE Assoc
  <2> DEFINE n == Len(asked) + 1
  <2>1. /\ DOMAIN asked' = DOMAIN asked \union {n} /\ n \notin DOMAIN asked
        /\ \A m \in DOMAIN asked : asked'[m] = asked[m]
        /\ asked'[n] = [type |-> "assoc", bss |-> target] /\ fw' = fw \union {n}
    BY <1>1, AskEffect DEF Assoc, ConnTypes
  <2>2. /\ UNCHANGED <<events, reported>> /\ bss' = target
        /\ overtaken' = overtaken \union {m \in Unanswered : asked[m].bss # target}
    BY <1>1 DEF Assoc, AssocStore, SetBss
  <2> HIDE DEF n
  <2>3. Unanswered' \subseteq Unanswered \union {n} /\ Unanswered \subseteq DOMAIN asked
    BY <2>1, <2>2 DEF Unanswered
  <2> QED BY <2>1, <2>2, <2>3 DEF BssInv
<1>2. CASE ~Assoc /\ UNCHANGED <<bss, overtaken>>
  BY <1>2, UnansweredShrinks DEF BssInv
<1>3. CASE ~Assoc /\ \E b : SetBss(b)
  <2>1. PICK b : SetBss(b)
    BY <1>3
  <2>2. bss' = b /\ overtaken' = overtaken \union {m \in Unanswered : asked[m].bss # b}
    BY <2>1 DEF SetBss
  <2> QED BY <1>3, <2>2, UnansweredShrinks DEF BssInv
<1>4. Assoc \/ UNCHANGED <<bss, overtaken>> \/ \E b : SetBss(b)
  BY DEF Next, Operation, Callback, Firmware, Auth, AuthRefused, AssocRefused, AssocStore,
         Deauth, Disassoc, DisassocClear, AuthResp, AssocResp, LeaveEvent, FwAnswer,
         FwDrops, FwLeave, history, vars
<1> QED BY <1>1, <1>2, <1>3, <1>4

\* What is being reported is an unanswered command.
LEMMA ReportedIsUnanswered ==
  ASSUME ConnTypes, AnswerInv, AssocResp
  PROVE  /\ Head(events).req \in Unanswered
         /\ reported[Head(events).req] = Unsaid /\ Head(events).req \in Reqs
         /\ reported' = [reported EXCEPT ![Head(events).req] = bss]
         /\ UNCHANGED asked
<1>1. /\ events # <<>> /\ events' = Tail(events) /\ Head(events).type \in Responses
      /\ UNCHANGED asked /\ reported' = [reported EXCEPT ![Head(events).req] = bss]
  BY DEF AssocResp, Handle, Responses, ReportedBss
<1>2. Head(events) = events[1] /\ 1 \in DOMAIN events
  BY <1>1, TailEffect
<1> QED BY <1>1, <1>2, AskedAreReqs DEF AnswerInv, Unanswered, Responses

\* A response is reported with the network of its command, or was overtaken.
LEMMA KeepsStep == ConnInv /\ [Next]_vars => ResponseKeepsBss'
<1> SUFFICES ASSUME ConnInv, [Next]_vars PROVE ResponseKeepsBss'
  OBVIOUS
<1>0. ConnTypes /\ AnswerInv /\ BssInv /\ ResponseKeepsBss
  BY DEF ConnInv
<1>1. overtaken \subseteq overtaken'
  BY DEF Next, Operation, Callback, Firmware, Auth, AuthRefused, Assoc, AssocRefused,
         AssocStore, SetBss, Deauth, Disassoc, DisassocClear, AuthResp, AssocResp,
         LeaveEvent, FwAnswer, FwDrops, FwLeave, history, vars
<1>2. CASE AssocResp
  <2> DEFINE n == Head(events).req
  <2>1. /\ n \in Unanswered /\ reported' = [reported EXCEPT ![n] = bss]
        /\ n \in Reqs /\ UNCHANGED asked
    BY <1>0, <1>2, ReportedIsUnanswered
  <2>2. bss = asked[n].bss \/ n \in overtaken
    BY <1>0, <2>1 DEF BssInv
  <2>3. \A m \in DOMAIN asked : m \in Reqs
    BY <1>0, AskedAreReqs
  <2> HIDE DEF n
  <2> QED BY <1>0, <1>1, <2>1, <2>2, <2>3 DEF ResponseKeepsBss, ConnTypes
<1>3. ASSUME NEW t \in {"auth", "assoc"}, NEW b \in Bss, Ask(t, b), UNCHANGED reported
      PROVE  ResponseKeepsBss'
  <2> DEFINE n == Len(asked) + 1
  <2>1. /\ DOMAIN asked' = DOMAIN asked \union {n} /\ reported[n] = Unsaid
        /\ \A m \in DOMAIN asked : asked'[m] = asked[m]
    BY <1>0, <1>3, AskEffect
  <2> HIDE DEF n
  <2> QED BY <1>0, <1>1, <1>3, <2>1 DEF ResponseKeepsBss
<1>4. CASE UNCHANGED <<asked, reported>>
  BY <1>0, <1>1, <1>4 DEF ResponseKeepsBss
<1>5. CASE Assoc
  BY <1>0, <1>3, <1>5 DEF Assoc, ConnTypes
<1>6. ASSUME NEW b \in Bss, Auth(b) PROVE ResponseKeepsBss'
  BY <1>3, <1>6 DEF Auth, history
<1> QED
  BY <1>2, <1>4, <1>5, <1>6
  DEF Next, Operation, Callback, Firmware, AuthRefused, AssocRefused, Deauth, Disassoc,
      AuthResp, LeaveEvent, FwAnswer, FwDrops, FwLeave, history, vars

\* All of the invariant.
LEMMA ConnStep == ConnInv /\ [Next]_vars => ConnInv'
BY ConnTypeStep, AnswerStep, BssStep, KeepsStep DEF ConnInv

-----------------------------------------------------------------------------
(* HoldsBalance *)

\* The same with the set named.
HoldsInv ==
  overtaken = {} =>
    \A b \in Bss : held[b] = Cardinality(Open(b)) + (IF connected = b THEN 1 ELSE 0)

\* The commands without a response are finitely many.
LEMMA OpenFinite ==
  ASSUME ConnTypes, NEW b
  PROVE  IsFiniteSet(Open(b)) /\ Cardinality(Open(b)) \in Nat
<1>1. DOMAIN asked = 1..Len(asked) /\ Len(asked) \in Nat
  BY LenProperties DEF ConnTypes
<1>2. IsFiniteSet(DOMAIN asked)
  BY <1>1, FS_Interval
<1>3. Open(b) \in SUBSET (DOMAIN asked)
  BY DEF Open
<1> QED BY <1>2, <1>3, FS_Subset, FS_CardinalityType

\* Ending a connection lets go of its hold.
LEMMA DisconnectKeepsHolds ==
  ASSUME ConnTypes, HoldsInv, Disconnected, UNCHANGED <<asked, reported>>,
         overtaken' = {} => overtaken = {}
  PROVE  HoldsInv'
<1> SUFFICES ASSUME overtaken' = {}, NEW b \in Bss
             PROVE  held'[b] = Cardinality(Open(b)') + (IF connected' = b THEN 1 ELSE 0)
  BY DEF HoldsInv
<1>1. Open(b)' = Open(b)
  BY DEF Open
<1>2. Cardinality(Open(b)) \in Nat /\ held \in [Bss -> Int]
  BY OpenFinite DEF ConnTypes
<1>3. held[b] = Cardinality(Open(b)) + (IF connected = b THEN 1 ELSE 0)
  BY DEF HoldsInv
<1>4. connected' = NULL /\ b # NULL
  BY ConnectionAssumption DEF Disconnected
<1>5. held'[b] = IF connected = b THEN held[b] - 1 ELSE held[b]
  BY <1>2, <1>4 DEF Disconnected
<1> QED BY <1>1, <1>2, <1>3, <1>4, <1>5

\* Every step keeps the balance.
LEMMA HoldsStep == ConnInv /\ HoldsInv /\ [Next]_vars => HoldsInv'
<1> SUFFICES ASSUME ConnInv, HoldsInv, [Next]_vars PROVE HoldsInv'
  OBVIOUS
<1>0. ConnTypes /\ AnswerInv /\ BssInv
  BY DEF ConnInv
<1>1. overtaken' = {} => overtaken = {}
  BY DEF Next, Operation, Callback, Firmware, Auth, AuthRefused, Assoc, AssocRefused,
         AssocStore, SetBss, Deauth, Disassoc, DisassocClear, AuthResp, AssocResp,
         LeaveEvent, FwAnswer, FwDrops, FwLeave, history, vars
<1>2. CASE UNCHANGED <<asked, reported, connected, held>>
  BY <1>1, <1>2 DEF HoldsInv, Open
<1>3. ASSUME NEW b \in Bss, Auth(b) PROVE HoldsInv'
  <2> DEFINE n == Len(asked) + 1
  <2>1. /\ DOMAIN asked' = DOMAIN asked \union {n}
        /\ \A m \in DOMAIN asked : asked'[m] = asked[m]
        /\ asked'[n] = [type |-> "auth", bss |-> b]
    BY <1>0, <1>3, AskEffect DEF Auth
  <2>2. UNCHANGED <<reported, connected, held>>
    BY <1>3 DEF Auth, cfgVars, history
  <2> HIDE DEF n
  <2>3. \A c \in Bss : Open(c)' = Open(c)
    BY <2>1, <2>2 DEF Open
  <2> QED BY <1>1, <2>2, <2>3 DEF HoldsInv
<1>4. CASE Assoc
  <2> DEFINE n == Len(asked) + 1
  <2>1. /\ DOMAIN asked' = DOMAIN asked \union {n} /\ n \notin DOMAIN asked
        /\ \A m \in DOMAIN asked : asked'[m] = asked[m]
        /\ asked'[n] = [type |-> "assoc", bss |-> target] /\ reported[n] = Unsaid
    BY <1>0, <1>4, AskEffect DEF Assoc, ConnTypes
  <2>2. /\ UNCHANGED <<reported, connected>> /\ target \in Bss
        /\ held' = [held EXCEPT ![target] = held[target] + 1]
    BY <1>0, <1>4 DEF Assoc, ConnTypes
  <2> HIDE DEF n
  <2> SUFFICES ASSUME overtaken' = {}, NEW c \in Bss
               PROVE  held'[c] = Cardinality(Open(c)') + (IF connected' = c THEN 1 ELSE 0)
    BY DEF HoldsInv
  <2>3. held[c] = Cardinality(Open(c)) + (IF connected = c THEN 1 ELSE 0)
    BY <1>1 DEF HoldsInv
  <2>4. IsFiniteSet(Open(c)) /\ Cardinality(Open(c)) \in Nat /\ held \in [Bss -> Int]
    BY <1>0, OpenFinite DEF ConnTypes
  <2>5. CASE c = target
    <3>1. Open(c)' = Open(c) \union {n} /\ n \notin Open(c)
      BY <2>1, <2>2, <2>5 DEF Open
    <3>2. Cardinality(Open(c)') = Cardinality(Open(c)) + 1
      BY <2>4, <3>1, FS_AddElement
    <3>3. held'[c] = held[c] + 1
      BY <2>2, <2>4, <2>5
    <3> QED BY <2>2, <2>3, <2>4, <3>2, <3>3
  <2>6. CASE c # target
    <3>1. Open(c)' = Open(c)
      BY <2>1, <2>2, <2>6 DEF Open
    <3>2. held'[c] = held[c]
      BY <2>2, <2>4, <2>6
    <3> QED BY <2>2, <2>3, <3>1, <3>2
  <2> QED BY <2>5, <2>6
<1>5. CASE Deauth \/ Disassoc
  BY <1>0, <1>1, <1>5, DisconnectKeepsHolds DEF Deauth, Disassoc, history
<1>6. CASE LeaveEvent
  <2>1. UNCHANGED <<asked, reported>>
    BY <1>6 DEF LeaveEvent, history
  <2>2. Disconnected \/ UNCHANGED cfgVars
    BY <1>6 DEF LeaveEvent
  <2> QED BY <1>0, <1>1, <1>2, <2>1, <2>2, DisconnectKeepsHolds DEF cfgVars
<1>7. CASE AssocResp
  <2> DEFINE n == Head(events).req
             ok == Head(events).type = "assoc_ok"
  <2>1. /\ n \in Unanswered /\ reported' = [reported EXCEPT ![n] = bss]
        /\ n \in Reqs /\ UNCHANGED asked /\ reported[n] = Unsaid
    BY <1>0, <1>7, ReportedIsUnanswered
  <2>2. /\ UNCHANGED overtaken
        /\ \/ bss = NULL
           \/ /\ bss # NULL /\ ok
              /\ held' = IF connected = NULL THEN held
                         ELSE [held EXCEPT ![connected] = held[connected] - 1]
              /\ connected' = bss
           \/ /\ bss # NULL /\ ~ok
              /\ held' = [held EXCEPT ![bss] = held[bss] - 1]
              /\ UNCHANGED connected
    BY <1>7 DEF AssocResp, ReportedBss
  <2> HIDE DEF n, ok
  <2> SUFFICES ASSUME overtaken = {}, NEW c \in Bss
               PROVE  held'[c] = Cardinality(Open(c)') + (IF connected' = c THEN 1 ELSE 0)
    BY <2>2 DEF HoldsInv
  <2>3. n \in DOMAIN asked /\ asked[n].type = "assoc" /\ asked[n] \in Command
    <3>1. n \in DOMAIN asked /\ asked[n].type = "assoc"
      BY <2>1 DEF Unanswered
    <3>2. asked[n] \in Command
      BY <1>0, <3>1, ElementOfSeq, LenProperties DEF ConnTypes
    <3> QED BY <3>1, <3>2
  <2>4. bss = asked[n].bss
    BY <1>0, <2>1 DEF BssInv
  <2>5. bss \in Bss /\ bss # NULL /\ bss # Unsaid /\ asked[n] = [type |-> "assoc", bss |-> bss]
    BY <2>3, <2>4, ConnectionAssumption DEF Command, Unsaid
  <2>6. /\ held[c] = Cardinality(Open(c)) + (IF connected = c THEN 1 ELSE 0)
        /\ IsFiniteSet(Open(c)) /\ Cardinality(Open(c)) \in Nat /\ held \in [Bss -> Int]
        /\ connected \in Bss \union {NULL} /\ c # NULL
        /\ reported \in [Reqs -> Bss \union {NULL, Unsaid}] /\ DOMAIN asked \subseteq Reqs
    BY <1>0, OpenFinite, AskedAreReqs, ConnectionAssumption DEF ConnTypes, HoldsInv
  <2>7. c = bss => Cardinality(Open(c)') = Cardinality(Open(c)) - 1
    <3> SUFFICES ASSUME c = bss PROVE Cardinality(Open(c)') = Cardinality(Open(c)) - 1
      OBVIOUS
    <3>1. n \in Open(c)
      BY <2>1, <2>3, <2>5 DEF Open
    <3>2. Open(c)' = Open(c) \ {n}
      BY <2>1, <2>5, <2>6 DEF Open
    <3> QED BY <2>6, <3>1, <3>2, FS_RemoveElement
  <2>8. c # bss => Open(c)' = Open(c)
    <3> SUFFICES ASSUME c # bss PROVE Open(c)' = Open(c)
      OBVIOUS
    <3>1. asked[n] # [type |-> "assoc", bss |-> c]
      BY <2>5
    <3> QED BY <2>1, <2>6, <3>1 DEF Open
  <2>9. CASE ok
    <3>1. /\ held' = IF connected = NULL THEN held
                     ELSE [held EXCEPT ![connected] = held[connected] - 1]
          /\ connected' = bss
      BY <2>2, <2>5, <2>9
    <3>2. held'[c] = IF connected = c THEN held[c] - 1 ELSE held[c]
      BY <2>6, <3>1
    <3> QED BY <2>6, <2>7, <2>8, <3>1, <3>2
  <2>10. CASE ~ok
    <3>1. held' = [held EXCEPT ![bss] = held[bss] - 1] /\ UNCHANGED connected
      BY <2>2, <2>5, <2>10
    <3>2. held'[c] = IF bss = c THEN held[c] - 1 ELSE held[c]
      BY <2>6, <3>1
    <3> QED BY <2>6, <2>7, <2>8, <3>1, <3>2
  <2> QED BY <2>9, <2>10
<1> QED
  BY <1>2, <1>3, <1>4, <1>5, <1>6, <1>7
  DEF Next, Operation, Callback, Firmware, AuthRefused, AssocRefused, AuthResp, FwAnswer,
      FwDrops, FwLeave, cfgVars, history, vars

-----------------------------------------------------------------------------
\* The one network the driver remembers is the right one for every association
\* response that was not overtaken, for any number of networks, of commands and
\* of responses the firmware gives late, drops or never gives.
THEOREM ResponsesKeepBss == Spec => []ResponseKeepsBss
<1>1. ConnInv => ResponseKeepsBss
  BY DEF ConnInv
<1> QED BY <1>1, ConnStart, ConnStep, PTL DEF Spec

\* cfg80211's holds on every network balance: none is let go twice, and those
\* that are never let go are those of commands that were never answered.
THEOREM HoldsAreBalanced == Spec => []HoldsBalance
<1>1. Init => HoldsInv
  <2> SUFFICES ASSUME Init, NEW b \in Bss
               PROVE  held[b] = Cardinality(Open(b)) + (IF connected = b THEN 1 ELSE 0)
    BY DEF HoldsInv
  <2>1. Open(b) = {} /\ held[b] = 0 /\ connected # b
    BY ConnectionAssumption DEF Init, Open
  <2> QED BY <2>1, FS_EmptySet
<1>2. HoldsInv <=> HoldsBalance
  BY DEF HoldsInv, HoldsBalance, Open
<1> QED BY <1>1, <1>2, ConnStart, ConnStep, HoldsStep, PTL DEF Spec

\* Every variable stays in its range; with ConnTypes, what is left is that the
\* user's state is one of five and that only commands are overtaken.
THEOREM ConnectionTypeCorrect == Spec => []TypeOK
<1> DEFINE SmeStates == {"idle", "authing", "authed", "associng", "associated"}
           RestInv   == sme \in SmeStates /\ overtaken \subseteq Reqs
<1>1. Init => RestInv
  BY DEF Init
<1>2. ConnInv /\ RestInv /\ [Next]_vars => RestInv'
  <2> SUFFICES ASSUME ConnInv, RestInv, [Next]_vars PROVE RestInv'
    OBVIOUS
  <2>1. sme' \in SmeStates
    BY DEF Next, Operation, Auth, AuthRefused, Assoc, AssocRefused, Deauth, Disassoc,
           Callback, AuthResp, AssocResp, LeaveEvent, Firmware, FwAnswer, FwDrops,
           FwLeave, vars
  <2>2. Unanswered \subseteq Reqs
    BY AskedAreReqs DEF ConnInv, Unanswered
  <2>3. ASSUME NEW b, SetBss(b) PROVE overtaken' \subseteq Reqs
    BY <2>2, <2>3 DEF SetBss
  <2>4. (\E b : SetBss(b)) \/ UNCHANGED overtaken
    BY DEF Next, Operation, Auth, AuthRefused, Assoc, AssocRefused, AssocStore, Deauth,
           Disassoc, DisassocClear, Callback, AuthResp, AssocResp, LeaveEvent, Firmware,
           FwAnswer, FwDrops, FwLeave, history, vars
  <2> QED BY <2>1, <2>3, <2>4
<1>3. ConnInv /\ RestInv => TypeOK
  BY AskedAreReqs DEF TypeOK, ConnInv, ConnTypes, Command
<1> QED BY <1>1, <1>2, <1>3, ConnStart, ConnStep, PTL DEF Spec
===============================================================================

------------------------- MODULE PsseSessionProofs -------------------------
(***************************************************************************)
(* Proofs about the sessions of the remote PSS/E tool, for every set of    *)
(* jobs, episodes and request ids and every bound.                         *)
(***************************************************************************)
EXTENDS PsseSession, SequenceTheorems, TLAPS

-----------------------------------------------------------------------------
(* Values and updates *)

LEMMA Constants ==
  /\ RemoteError \in Result /\ RemoteError.ok = FALSE /\ RemoteError.job = NoJob
  /\ <<>> \in State
  /\ NoObservation \in Observation
  /\ NoObservation.result = RemoteError /\ NoObservation.state = <<>>
  /\ \A p \in Post : p # NoPost
<1>1. RemoteError \in Result /\ RemoteError.ok = FALSE /\ RemoteError.job = NoJob
  BY DEF RemoteError, Result
<1>2. <<>> \in State
  BY DEF State
<1>3. /\ NoObservation \in Observation
      /\ NoObservation.result = RemoteError /\ NoObservation.state = <<>>
  BY <1>1, <1>2 DEF NoObservation, Observation
<1>4. ASSUME NEW p \in Post PROVE p # NoPost
  <2>1. DOMAIN p = {"episode", "life", "request"}
    BY DEF Post
  <2>2. DOMAIN NoPost = {"episode"}
    BY DEF NoPost
  <2> QED  BY <2>1, <2>2
<1> QED  BY <1>1, <1>2, <1>3, <1>4

\* What a session, a call and a reply are made of.
LEMMA Fields ==
  ASSUME TypeOK, NEW e \in Episodes
  PROVE  /\ session[e].alive \in BOOLEAN /\ session[e].state \in State
         /\ session[e].step \in Nat /\ session[e].requests \in [Requests -> Observation]
         /\ call[e] \in Call /\ call[e].request \in Requests \cup {NoRequest}
         /\ call[e].job \in Jobs \cup {NoJob} /\ call[e].result \in Result
         /\ reply[e] \in Reply /\ reply[e].observation \in Observation
         /\ known[e] \in State /\ life[e] \in 0..MaxLives /\ life[e] \in Nat
<1>1. session[e] \in Session /\ call[e] \in Call /\ reply[e] \in Reply
  BY DEF TypeOK
<1>2. /\ session[e].alive \in BOOLEAN /\ session[e].state \in State
      /\ session[e].step \in Nat /\ session[e].requests \in [Requests -> Observation]
  BY <1>1 DEF Session
<1>3. /\ call[e].request \in Requests \cup {NoRequest}
      /\ call[e].job \in Jobs \cup {NoJob} /\ call[e].result \in Result
  BY <1>1 DEF Call
<1>4. reply[e].observation \in Observation
  BY <1>1 DEF Reply
<1>5. known[e] \in State /\ life[e] \in 0..MaxLives /\ life[e] \in Nat
  BY SessionAssumption DEF TypeOK
<1> QED  BY <1>1, <1>2, <1>3, <1>4, <1>5

\* A fresh instance and an absent one.
LEMMA Fresh ==
  /\ NewSession \in Session /\ NoSession \in Session
  /\ NewSession.alive = TRUE /\ NoSession.alive = FALSE
  /\ NewSession.state = <<>> /\ NoSession.state = <<>>
  /\ NewSession.step = 0 /\ NoSession.step = 0
  /\ NewSession.requests = [r \in Requests |-> NoObservation]
  /\ NoSession.requests = [r \in Requests |-> NoObservation]
<1>1. /\ NewSession.alive = TRUE /\ NewSession.state = <<>> /\ NewSession.step = 0
      /\ NewSession.requests = [r \in Requests |-> NoObservation]
      /\ NewSession \in Session
  BY Constants DEF NewSession, Session
<1>2. /\ NoSession.alive = FALSE /\ NoSession.state = <<>> /\ NoSession.step = 0
      /\ NoSession.requests = [r \in Requests |-> NoObservation]
      /\ NoSession \in Session
  BY <1>1 DEF NoSession, NewSession, Session
<1> QED  BY <1>1, <1>2

LEMMA NoCall ==
  /\ IdleCall \in Call /\ IdleCall.pc = "idle" /\ IdleCall.job = NoJob
  /\ NoReply \in Reply /\ NoReply.observation = NoObservation
<1>1. IdleCall \in Call /\ IdleCall.pc = "idle" /\ IdleCall.job = NoJob
  BY Constants, SessionAssumption DEF IdleCall, Call
<1>2. NoReply \in Reply /\ NoReply.observation = NoObservation
  BY Constants DEF NoReply, Reply
<1> QED  BY <1>1, <1>2

\* A call that begins, and one whose job is accepted.
LEMMA BeginCall ==
  ASSUME NEW r \in Requests \cup {NoRequest}
  PROVE  LET c == [IdleCall EXCEPT !.pc = "post", !.request = r]
         IN  c \in Call /\ c.pc = "post" /\ c.request = r /\ c.job = NoJob
<1> DEFINE a == [IdleCall EXCEPT !.pc = "post"]
           d == [pc |-> "post", request |-> r, job |-> NoJob, polls |-> 0,
                 result |-> RemoteError]
<1>1. a = [pc |-> "post", request |-> NoRequest, job |-> NoJob, polls |-> 0,
           result |-> RemoteError]
  BY DEF IdleCall
<1>2. [a EXCEPT !.request = r] = d
  <2> HIDE DEF a
  <2> QED  BY <1>1
<1>3. d \in Call
  BY Constants, SessionAssumption DEF Call
<1> QED  BY <1>2, <1>3

LEMMA SubmitCall ==
  ASSUME TypeOK, NEW e \in Episodes, NEW j \in Jobs
  PROVE  LET c == [call[e] EXCEPT !.pc = "poll", !.job = j]
         IN  c \in Call /\ c.pc = "poll" /\ c.request = call[e].request /\ c.job = j
<1>1. [call[e] EXCEPT !.pc = "poll"].pc = "poll"
  BY Fields DEF Call
<1> QED  BY <1>1, Fields DEF Call

\* The observation that Record makes.
Recorded(e, result) ==
  [result |-> result, step |-> session[e].step, state |-> Append(session[e].state, result)]

\* Record appends the result to the history of its episode, caches it under its
\* request id and answers with it.
LEMMA RecordEffect ==
  ASSUME TypeOK, NEW e \in Episodes, NEW result \in Result, Record(e, result)
  PROVE  LET o == Recorded(e, result) IN
         /\ o \in Observation /\ o.result = result /\ o.step = session[e].step
         /\ o.state = Append(session[e].state, result) /\ o.state # <<>>
         /\ session' \in [Episodes -> Session]
         /\ \A f \in Episodes \ {e} : session'[f] = session[f]
         /\ session'[e].alive = session[e].alive
         /\ session'[e].state = o.state
         /\ session'[e].step = session[e].step + 1
         /\ \A r \in Requests : session'[e].requests[r]
              = IF r = call[e].request THEN o ELSE session[e].requests[r]
         /\ reply' \in [Episodes -> Reply]
         /\ \A f \in Episodes \ {e} : reply'[f] = reply[f]
         /\ reply'[e].observation = o /\ reply'[e].request = call[e].request
         /\ known' \in [Episodes -> State]
         /\ \A f \in Episodes \ {e} : known'[f] = known[f]
         /\ known'[e] = o.state
         /\ call' \in [Episodes -> Call]
         /\ \A f \in Episodes \ {e} : call'[f] = call[f]
         /\ call'[e] = IdleCall
<1> DEFINE o == Recorded(e, result)
<1>1. /\ o.result = result /\ o.step = session[e].step
      /\ o.state = Append(session[e].state, result)
  BY DEF Recorded
<1>2. /\ o.state \in State /\ o.state # <<>> /\ session[e].step + 1 \in Nat
  <2>1. session[e].state \in Seq(Result) /\ session[e].step + 1 \in Nat
    BY Fields DEF State
  <2>2. /\ Append(session[e].state, result) \in Seq(Result)
        /\ Append(session[e].state, result) # <<>>
    BY <2>1, AppendProperties
  <2> QED BY <1>1, <2>1, <2>2 DEF State
<1>3. o \in Observation
  BY <1>2, Fields DEF Recorded, Observation
<1>4. /\ session' = [session EXCEPT ![e].state = o.state, ![e].step = @ + 1,
                       ![e].requests = [r \in Requests |->
                          IF r = call[e].request THEN o ELSE @[r]]]
      /\ reply' = [reply EXCEPT ![e] = [kind |-> "result", request |-> call[e].request,
                                        observation |-> o]]
      /\ known' = [known EXCEPT ![e] = o.state]
      /\ call' = [call EXCEPT ![e] = IdleCall]
  BY DEF Record, Answer, Recorded
<1> HIDE DEF o
<1>5. /\ session[e] \in Session /\ DOMAIN session = Episodes
      /\ session \in [Episodes -> Session]
  BY DEF TypeOK
<1>6. session[e] = [alive |-> session[e].alive, state |-> session[e].state,
                    step |-> session[e].step, requests |-> session[e].requests]
  BY <1>5 DEF Session
<1> DEFINE q == [r \in Requests |-> IF r = call[e].request THEN o ELSE session[e].requests[r]]
           s == [alive |-> session[e].alive, state |-> o.state,
                 step |-> session[e].step + 1, requests |-> q]
<1>7. q \in [Requests -> Observation]
  BY <1>3, Fields
<1> HIDE DEF q
<1>8. s \in Session
  BY <1>2, <1>7, Fields DEF Session
<1>9. session' = [session EXCEPT ![e] = s]
  <2> DEFINE a == [session[e] EXCEPT !.state = o.state]
             b == [a EXCEPT !.step = @ + 1]
             c == [b EXCEPT !.requests = [r \in Requests |->
                              IF r = call[e].request THEN o ELSE @[r]]]
  <2>1. a = [alive |-> session[e].alive, state |-> o.state,
             step |-> session[e].step, requests |-> session[e].requests]
    BY <1>6
  <2>2. a.step + 1 = session[e].step + 1 /\ b = [a EXCEPT !.step = a.step + 1]
    BY <2>1
  <2>3. b = [alive |-> session[e].alive, state |-> o.state,
             step |-> session[e].step + 1, requests |-> session[e].requests]
    <3> HIDE DEF a
    <3> QED  BY <2>1, <2>2
  <2>5. b.requests = session[e].requests
    BY <2>3
  <2>6. c = [b EXCEPT !.requests = q]
    BY <2>5 DEF q
  <2>7. c = s
    <3> HIDE DEF a, b
    <3> QED  BY <2>3, <2>6
  <2>4. session' = [[[session EXCEPT ![e] = a] EXCEPT ![e] = b] EXCEPT ![e] = c]
    BY <1>4, <1>5
  <2> QED  BY <1>5, <2>7, <2>4
<1>10. /\ s.alive = session[e].alive /\ s.state = o.state /\ s.step = session[e].step + 1
       /\ s.requests = q
  OBVIOUS
<1> HIDE DEF s
<1>11. /\ session' \in [Episodes -> Session] /\ session'[e] = s
       /\ \A f \in Episodes \ {e} : session'[f] = session[f]
  BY <1>5, <1>8, <1>9
<1>12. \A r \in Requests : q[r] = IF r = call[e].request THEN o ELSE session[e].requests[r]
  BY DEF q
<1>13. [kind |-> "result", request |-> call[e].request, observation |-> o] \in Reply
  BY <1>3, Fields DEF Reply
<1>14. /\ reply' \in [Episodes -> Reply]
       /\ \A f \in Episodes \ {e} : reply'[f] = reply[f]
       /\ reply'[e].observation = o /\ reply'[e].request = call[e].request
  BY <1>4, <1>13 DEF TypeOK
<1>15. /\ known' \in [Episodes -> State]
       /\ \A f \in Episodes \ {e} : known'[f] = known[f]
       /\ known'[e] = o.state
  BY <1>2, <1>4 DEF TypeOK
<1>16. /\ call' \in [Episodes -> Call]
       /\ \A f \in Episodes \ {e} : call'[f] = call[f]
       /\ call'[e] = IdleCall
  BY <1>4, NoCall DEF TypeOK
<1> QED
  BY <1>1, <1>2, <1>3, <1>10, <1>11, <1>12, <1>14, <1>15, <1>16 DEF o

-----------------------------------------------------------------------------
(* The worker *)

\* The waiting jobs are queued, each at one place of the line.
Waiting ==
  /\ \A i \in 1..Len(line) : phase[line[i]] = "queued"
  /\ \A i, k \in 1..Len(line) : line[i] = line[k] => i = k

\* What may become of a job while no call posts it.
Advanced(p, q) ==
  /\ \/ q = p
     \/ p = "queued" /\ q = "running"
     \/ p = "running" /\ q \in Server!Finished
     \/ q = "lost"
  /\ p # "new" => q # "new"

LEMMA ServeEffect ==
  ASSUME TypeOK, Serve
  PROVE  /\ phase' \in [Jobs -> Server!Phases] /\ line' \in Seq(Jobs)
         /\ Waiting => (Waiting' /\ \A j \in Jobs : Advanced(phase[j], phase'[j]))
<1>0. phase \in [Jobs -> Server!Phases] /\ line \in Seq(Jobs) /\ Len(line) \in Nat
  BY DEF TypeOK
<1>1. CASE Server!Start
  <2>1. /\ line # <<>> /\ line' = Tail(line)
        /\ phase' = [phase EXCEPT ![Head(line)] = "running"]
    BY <1>1 DEF Server!Start
  <2>2. /\ Head(line) \in Jobs /\ Head(line) = line[1] /\ 1 \in 1..Len(line)
        /\ line' \in Seq(Jobs) /\ Len(line') = Len(line) - 1
        /\ \A i \in 1..Len(line') : line'[i] = line[i + 1] /\ i + 1 \in 1..Len(line) /\ i + 1 # 1
    BY <1>0, <2>1
  <2>3. phase' \in [Jobs -> Server!Phases]
    BY <1>0, <2>1, <2>2 DEF Server!Phases
  <2>4. ASSUME Waiting PROVE Waiting' /\ \A j \in Jobs : Advanced(phase[j], phase'[j])
    <3>1. phase[Head(line)] = "queued"
      BY <2>2, <2>4 DEF Waiting
    <3>2. ASSUME NEW i \in 1..Len(line') PROVE phase'[line'[i]] = "queued"
      <4>1. line'[i] \in Jobs /\ line'[i] # Head(line) /\ phase[line'[i]] = "queued"
        BY <1>0, <2>2, <2>4 DEF Waiting
      <4> QED  BY <1>0, <2>1, <4>1
    <3>3. \A i, k \in 1..Len(line') : line'[i] = line'[k] => i = k
      BY <2>2, <2>4 DEF Waiting
    <3>4. \A j \in Jobs : Advanced(phase[j], phase'[j])
      BY <1>0, <2>1, <2>2, <3>1 DEF Advanced
    <3> QED  BY <3>2, <3>3, <3>4 DEF Waiting
  <2> QED  BY <2>2, <2>3, <2>4
<1>2. ASSUME NEW j \in Jobs, Server!Finish(j)
      PROVE  /\ phase' \in [Jobs -> Server!Phases] /\ line' \in Seq(Jobs)
             /\ Waiting => (Waiting' /\ \A k \in Jobs : Advanced(phase[k], phase'[k]))
  <2>1. PICK v \in Server!Finished : phase' = [phase EXCEPT ![j] = v]
    BY <1>2 DEF Server!Finish
  <2>2. phase[j] = "running" /\ line' = line
    BY <1>2 DEF Server!Finish
  <2>3. phase' \in [Jobs -> Server!Phases]
    BY <1>0, <2>1 DEF Server!Phases
  <2>4. \A k \in Jobs : Advanced(phase[k], phase'[k])
    BY <1>0, <2>1, <2>2 DEF Advanced, Server!Finished
  <2>5. Waiting => Waiting'
    BY <1>0, <2>1, <2>2 DEF Waiting
  <2> QED  BY <1>0, <2>2, <2>3, <2>4, <2>5
<1>3. CASE Server!Restart
  <2>1. PICK dropped \in SUBSET {j \in Jobs : phase[j] = "new"} :
          phase' = [j \in Jobs |-> IF phase[j] = "new" /\ j \notin dropped THEN "new" ELSE "lost"]
    BY <1>3 DEF Server!Restart
  <2>2. line' = <<>>
    BY <1>3 DEF Server!Restart
  <2>3. phase' \in [Jobs -> Server!Phases]
    BY <1>0, <2>1 DEF Server!Phases
  <2>4. \A k \in Jobs : Advanced(phase[k], phase'[k])
    BY <1>0, <2>1 DEF Advanced
  <2>5. Waiting'
    BY <2>2 DEF Waiting
  <2> QED  BY <2>2, <2>3, <2>4, <2>5
<1> QED  BY <1>1, <1>2, <1>3 DEF Serve

\* The POST of an episode makes a new job a queued one that is its own.
LEMMA AcceptEffect ==
  ASSUME TypeOK, NEW e \in Episodes, NEW j \in Jobs, Accepted(e, j)
  PROVE  /\ call[e].pc = "post" /\ phase[j] = "new"
         /\ phase' \in [Jobs -> Server!Phases] /\ line' \in Seq(Jobs)
         /\ phase'[j] = "queued" /\ \A k \in Jobs \ {j} : phase'[k] = phase[k]
         /\ Waiting => Waiting'
         /\ posted' \in [Jobs -> Post \cup {NoPost}]
         /\ posted'[j] = [episode |-> e, life |-> life[e], request |-> call[e].request]
         /\ \A k \in Jobs \ {j} : posted'[k] = posted[k]
<1>0. phase \in [Jobs -> Server!Phases] /\ line \in Seq(Jobs) /\ Len(line) \in Nat
  BY DEF TypeOK
<1>1. /\ call[e].pc = "post" /\ phase[j] = "new"
      /\ phase' = [phase EXCEPT ![j] = "queued"] /\ line' = Append(line, j)
  BY DEF Accepted, Server!Accept
<1>2. phase' \in [Jobs -> Server!Phases] /\ line' \in Seq(Jobs)
  BY <1>0, <1>1 DEF Server!Phases
<1>3. ASSUME Waiting PROVE Waiting'
  <2>1. \A i \in 1..Len(line) : line[i] # j /\ line[i] \in Jobs
    BY <1>0, <1>1, <1>3 DEF Waiting
  <2>2. /\ Len(line') = Len(line) + 1 /\ line'[Len(line) + 1] = j
        /\ \A i \in 1..Len(line) : line'[i] = line[i]
    BY <1>0, <1>1
  <2>3. \A i \in 1..Len(line') : i \in 1..Len(line) \/ i = Len(line) + 1
    BY <1>0, <2>2
  <2> QED  BY <1>0, <1>1, <1>3, <2>1, <2>2, <2>3 DEF Waiting
<1>4. [episode |-> e, life |-> life[e], request |-> call[e].request] \in Post
  BY Fields DEF Post
<1>5. /\ posted' \in [Jobs -> Post \cup {NoPost}]
      /\ posted'[j] = [episode |-> e, life |-> life[e], request |-> call[e].request]
      /\ \A k \in Jobs \ {j} : posted'[k] = posted[k]
  BY <1>4 DEF Accepted, TypeOK
<1> QED  BY <1>0, <1>1, <1>2, <1>3, <1>5

-----------------------------------------------------------------------------
(* Types *)

LEMMA InitType == Init => TypeOK
<1> SUFFICES ASSUME Init PROVE TypeOK
  OBVIOUS
<1>1. phase \in [Jobs -> Server!Phases] /\ line \in Seq(Jobs)
  BY DEF Init, Server!Init, Server!Phases
<1>2. posted \in [Jobs -> Post \cup {NoPost}] /\ raised \subseteq Jobs
  BY DEF Init
<1>3. session \in [Episodes -> Session] /\ call \in [Episodes -> Call]
  BY Fresh, NoCall DEF Init
<1>4. reply \in [Episodes -> Reply] /\ known \in [Episodes -> State]
  BY NoCall, Constants DEF Init
<1>5. life \in [Episodes -> 0..MaxLives]
  BY SessionAssumption DEF Init
<1> QED  BY <1>1, <1>2, <1>3, <1>4, <1>5 DEF TypeOK

\* An answer changes the reply of its episode.
LEMMA AnswerEffect ==
  ASSUME TypeOK, NEW e \in Episodes, NEW kind \in {"duplicate", "refused", "raised"},
         NEW request \in Requests \cup {NoRequest}, NEW o \in Observation,
         Answer(e, kind, request, o)
  PROVE  /\ reply' \in [Episodes -> Reply]
         /\ \A f \in Episodes \ {e} : reply'[f] = reply[f]
         /\ reply'[e].observation = o /\ reply'[e].request = request
<1>1. [kind |-> kind, request |-> request, observation |-> o] \in Reply
  BY DEF Reply
<1> QED  BY <1>1 DEF Answer, TypeOK

\* create and reset.
LEMMA RenewEffect ==
  ASSUME TypeOK, NEW e \in Episodes, Renew(e)
  PROVE  /\ life' \in [Episodes -> 0..MaxLives] /\ life'[e] = life[e] + 1
         /\ session' \in [Episodes -> Session] /\ session'[e] = NewSession
         /\ reply' \in [Episodes -> Reply] /\ reply'[e] = NoReply
         /\ \A f \in Episodes \ {e} :
              life'[f] = life[f] /\ session'[f] = session[f] /\ reply'[f] = reply[f]
<1>1. life[e] + 1 \in 0..MaxLives
  BY Fields, SessionAssumption DEF Renew
<1>2. life' \in [Episodes -> 0..MaxLives] /\ life'[e] = life[e] + 1
      /\ \A f \in Episodes \ {e} : life'[f] = life[f]
  BY <1>1 DEF Renew, TypeOK
<1>3. /\ session' \in [Episodes -> Session] /\ session'[e] = NewSession
      /\ \A f \in Episodes \ {e} : session'[f] = session[f]
  BY Fresh DEF Renew, TypeOK
<1>4. /\ reply' \in [Episodes -> Reply] /\ reply'[e] = NoReply
      /\ \A f \in Episodes \ {e} : reply'[f] = reply[f]
  BY NoCall DEF Renew, TypeOK
<1> QED  BY <1>2, <1>3, <1>4

\* What a call that has a result records: an error, or the verdict of its job.
Verdict(e, result) ==
  \/ result = RemoteError
  \/ call[e].pc = "artifacts" /\ result = call[e].result
  \/ /\ call[e].pc = "fetch" /\ phase[call[e].job] # "lost"
     /\ result.job = call[e].job /\ result.ok = (phase[call[e].job] = "completed")

Recording(e) ==
  /\ call[e].pc # "idle"
  /\ \E result \in Result : Verdict(e, result) /\ Record(e, result)
  /\ UNCHANGED <<server, posted, raised, life>>

\* A call that goes on.
Going(e) ==
  /\ \E c \in Call :
       /\ call' = [call EXCEPT ![e] = c] /\ c.request = call[e].request
       /\ \/ call[e].pc = "poll" /\ c.job = call[e].job /\ c.pc = "poll"
          \/ /\ call[e].pc = "poll" /\ c.job = call[e].job /\ c.pc = "fetch"
             /\ phase[c.job] \in Server!Finished
          \/ /\ call[e].pc = "fetch" /\ c.job = call[e].job /\ c.pc = "artifacts"
             /\ phase[c.job] # "lost"
             /\ c.result = [ok |-> phase[c.job] = "completed", job |-> c.job]
  /\ UNCHANGED <<server, posted, raised, session, life, reply, known>>

LEMMA CallRecord ==
  ASSUME TypeOK, NEW e \in Episodes
  PROVE  call[e] = [pc |-> call[e].pc, request |-> call[e].request, job |-> call[e].job,
                    polls |-> call[e].polls, result |-> call[e].result]
BY DEF TypeOK, Call

\* The steps of a call whose job is posted record a result or go on.
LEMMA RequestEffect ==
  ASSUME TypeOK, NEW e \in Episodes,
         Rejected(e) \/ Poll(e) \/ Fetch(e) \/ FetchArtifacts(e) \/ Unreachable(e)
  PROVE  Recording(e) \/ Going(e)
<1> DEFINE c == call[e]
<1>0. c \in Call /\ call \in [Episodes -> Call] /\ c.job \in Jobs \cup {NoJob}
  BY Fields DEF TypeOK
<1>1. c = [pc |-> c.pc, request |-> c.request, job |-> c.job, polls |-> c.polls,
           result |-> c.result]
  BY CallRecord
<1>2. /\ c.request \in Requests \cup {NoRequest} /\ c.result \in Result
      /\ c.polls \in 0..MaxPolls
  BY <1>0 DEF Call
<1>3. CASE Rejected(e) \/ Unreachable(e)
  <2>1. c.pc # "idle" /\ Record(e, RemoteError) /\ UNCHANGED <<server, posted, raised, life>>
    BY <1>3 DEF Rejected, Unreachable
  <2> QED  BY <2>1, Constants DEF Recording, Verdict
<1>4. CASE FetchArtifacts(e)
  <2>1. /\ c.pc = "artifacts" /\ Record(e, c.result)
        /\ UNCHANGED <<server, posted, raised, life>>
    BY <1>4 DEF FetchArtifacts
  <2> QED  BY <1>2, <2>1 DEF Recording, Verdict
<1>5. CASE Poll(e)
  <2>0. c.pc = "poll" /\ UNCHANGED <<server, posted, raised, life>>
    BY <1>5 DEF Poll
  <2>1. ASSUME phase[c.job] \in Server!Finished, call' = [call EXCEPT ![e].pc = "fetch"],
               UNCHANGED <<session, reply, known>>
        PROVE  Going(e)
    <3> DEFINE d == [c EXCEPT !.pc = "fetch"]
    <3>1. /\ d \in Call /\ d.request = c.request /\ d.job = c.job /\ d.pc = "fetch"
          /\ call' = [call EXCEPT ![e] = d]
      BY <1>0, <2>1 DEF Call
    <3> HIDE DEF d
    <3> QED  BY <2>0, <2>1, <3>1 DEF Going
  <2>2. ASSUME c.polls < MaxPolls, call' = [call EXCEPT ![e].polls = @ + 1],
               UNCHANGED <<session, reply, known>>
        PROVE  Going(e)
    <3> DEFINE d == [c EXCEPT !.polls = @ + 1]
    <3>0. c.polls + 1 \in 0..MaxPolls
      BY <1>2, <2>2, SessionAssumption
    <3>1. /\ d \in Call /\ d.request = c.request /\ d.job = c.job /\ d.pc = "poll"
          /\ call' = [call EXCEPT ![e] = d]
      BY <1>0, <1>1, <2>0, <2>2, <3>0 DEF Call
    <3> HIDE DEF d
    <3> QED  BY <2>0, <2>2, <3>1 DEF Going
  <2>3. ASSUME Record(e, RemoteError) PROVE Recording(e)
    BY <2>0, <2>3, Constants DEF Recording, Verdict
  <2> QED  BY <1>5, <2>1, <2>2, <2>3 DEF Poll
<1>6. CASE Fetch(e)
  <2> DEFINE result == [ok |-> phase[c.job] = "completed", job |-> c.job]
  <2>0. c.pc = "fetch" /\ UNCHANGED <<server, posted, raised, life>>
    BY <1>6 DEF Fetch
  <2>1. result \in Result /\ result.job = c.job /\ result.ok = (phase[c.job] = "completed")
    BY <1>0 DEF Result
  <2>2. CASE phase[c.job] = "lost"
    <3>1. Record(e, RemoteError)
      BY <1>6, <2>2 DEF Fetch
    <3> QED  BY <2>0, <3>1, Constants DEF Recording, Verdict
  <2>3. CASE phase[c.job] # "lost"
    <3>1. CASE Record(e, result)
      <4> HIDE DEF result
      <4> QED  BY <2>0, <2>1, <2>3, <3>1 DEF Recording, Verdict
    <3>2. ASSUME call' = [call EXCEPT ![e].pc = "artifacts", ![e].result = result],
                 UNCHANGED <<session, reply, known>>
          PROVE  Going(e)
      <4> DEFINE d == [pc |-> "artifacts", request |-> c.request, job |-> c.job,
                       polls |-> c.polls, result |-> result]
      <4>1. d \in Call
        BY <1>0, <1>2, <2>1 DEF Call
      <4>2. call' = [call EXCEPT ![e] = d]
        <5> DEFINE a == [c EXCEPT !.pc = "artifacts"]
        <5>1. [a EXCEPT !.result = result] = d
          <6>1. a = [pc |-> "artifacts", request |-> c.request, job |-> c.job,
                     polls |-> c.polls, result |-> c.result]
            BY <1>1
          <6> HIDE DEF a
          <6> QED  BY <6>1
        <5> QED  BY <1>0, <3>2, <5>1
      <4>3. /\ d.request = c.request /\ d.job = c.job /\ d.pc = "artifacts"
            /\ d.result = [ok |-> phase[d.job] = "completed", job |-> d.job]
        OBVIOUS
      <4> HIDE DEF d
      <4> QED  BY <2>0, <2>3, <3>2, <4>1, <4>2, <4>3 DEF Going
    <3> QED  BY <1>6, <2>3, <3>1, <3>2 DEF Fetch
  <2> QED  BY <2>2, <2>3
<1> QED  BY <1>3, <1>4, <1>5, <1>6

\* A call that ends in an exception.
LEMMA EscapeEffect ==
  ASSUME TypeOK, NEW e \in Episodes, Escape(e)
  PROVE  /\ UNCHANGED <<session, known>>
         /\ call' \in [Episodes -> Call] /\ call'[e] = IdleCall
         /\ reply' \in [Episodes -> Reply] /\ reply'[e].observation = NoObservation
         /\ \A f \in Episodes \ {e} : call'[f] = call[f] /\ reply'[f] = reply[f]
<1>1. /\ UNCHANGED <<session, known>> /\ call' = [call EXCEPT ![e] = IdleCall]
      /\ Answer(e, "raised", call[e].request, NoObservation)
  BY DEF Escape
<1>2. call[e].request \in Requests \cup {NoRequest}
  BY Fields
<1>3. /\ reply' \in [Episodes -> Reply] /\ reply'[e].observation = NoObservation
      /\ \A f \in Episodes \ {e} : reply'[f] = reply[f]
  BY <1>1, <1>2, AnswerEffect, Constants
<1>4. /\ call' \in [Episodes -> Call] /\ call'[e] = IdleCall
      /\ \A f \in Episodes \ {e} : call'[f] = call[f]
  BY <1>1, NoCall DEF TypeOK
<1> QED  BY <1>1, <1>3, <1>4

\* Every step keeps the types.
LEMMA TypeStep == TypeOK /\ [Next]_vars => TypeOK'
<1> SUFFICES ASSUME TypeOK, [Next]_vars PROVE TypeOK'
  OBVIOUS
<1>0. TypeOK = (/\ phase \in [Jobs -> Server!Phases] /\ line \in Seq(Jobs)
                /\ posted \in [Jobs -> Post \cup {NoPost}] /\ raised \subseteq Jobs
                /\ session \in [Episodes -> Session] /\ life \in [Episodes -> 0..MaxLives]
                /\ call \in [Episodes -> Call] /\ reply \in [Episodes -> Reply]
                /\ known \in [Episodes -> State])
  BY DEF TypeOK
<1> USE DEF server
<1>1. CASE Serve
  BY <1>1, <1>0, ServeEffect DEF Serve, TypeOK
<1>2. ASSUME NEW e \in Episodes, Create(e) \/ Reset(e) PROVE TypeOK'
  <2>1. Renew(e) /\ UNCHANGED <<server, posted, raised, call>>
    BY <1>2 DEF Create, Reset
  <2>2. known' \in [Episodes -> State]
    BY <1>2, Constants DEF Create, Reset, TypeOK
  <2> QED  BY <2>1, <2>2, RenewEffect DEF TypeOK
<1>3. ASSUME NEW e \in Episodes, Release(e) PROVE TypeOK'
  BY <1>3, Fresh DEF Release, TypeOK
<1>4. ASSUME NEW e \in Episodes, Refuse(e) PROVE TypeOK'
  <2>1. /\ Answer(e, "refused", NoRequest, NoObservation)
        /\ UNCHANGED <<server, posted, raised, session, life, call, known>>
    BY <1>4 DEF Refuse
  <2>2. reply' \in [Episodes -> Reply]
    BY <2>1, AnswerEffect, Constants
  <2> QED  BY <2>1, <2>2 DEF TypeOK
<1>5. ASSUME NEW e \in Episodes, Replay(e) PROVE TypeOK'
  <2>1. PICK r \in Requests : Answer(e, "duplicate", r, session[e].requests[r])
    BY <1>5 DEF Replay
  <2>2. reply' \in [Episodes -> Reply]
    BY <2>1, AnswerEffect, Fields
  <2> QED  BY <1>5, <2>2 DEF Replay, TypeOK
<1>6. ASSUME NEW e \in Episodes, Begin(e) PROVE TypeOK'
  <2>1. PICK r \in Requests \cup {NoRequest} :
          call' = [call EXCEPT ![e] = [IdleCall EXCEPT !.pc = "post", !.request = r]]
    BY <1>6 DEF Begin
  <2>2. [IdleCall EXCEPT !.pc = "post", !.request = r] \in Call
    BY BeginCall
  <2> QED  BY <1>6, <2>1, <2>2 DEF Begin, TypeOK
<1>7. ASSUME NEW e \in Episodes, Submit(e) PROVE TypeOK'
  <2>1. PICK j \in Jobs : /\ Accepted(e, j)
                          /\ call' = [call EXCEPT ![e].pc = "poll", ![e].job = j]
                          /\ UNCHANGED <<raised, session, life, reply, known>>
    BY <1>7 DEF Submit
  <2>2. [call[e] EXCEPT !.pc = "poll", !.job = j] \in Call
    BY SubmitCall
  <2>3. call' \in [Episodes -> Call]
    BY <2>1, <2>2 DEF TypeOK
  <2> QED  BY <2>1, <2>3, AcceptEffect DEF TypeOK
<1>8. ASSUME NEW e \in Episodes, Recording(e) PROVE TypeOK'
  <2>1. PICK result \in Result : Record(e, result)
    BY <1>8 DEF Recording
  <2> QED  BY <1>8, <2>1, RecordEffect DEF Recording, TypeOK
<1>9. ASSUME NEW e \in Episodes, Going(e) PROVE TypeOK'
  BY <1>9 DEF Going, TypeOK
<1>10. ASSUME NEW e \in Episodes, Broken(e) PROVE TypeOK'
  <2>1. /\ Escape(e) /\ raised' = raised \cup ({call[e].job} \ {NoJob})
        /\ UNCHANGED <<server, posted, life>>
    BY <1>10 DEF Broken
  <2>2. raised' \subseteq Jobs
    BY <2>1, Fields DEF TypeOK
  <2> QED  BY <2>1, <2>2, EscapeEffect DEF TypeOK
<1>11. ASSUME NEW e \in Episodes, Unanswered(e) PROVE TypeOK'
  <2>1. PICK j \in Jobs : Accepted(e, j) /\ Escape(e) /\ raised' = raised \cup {j} /\ life' = life
    BY <1>11 DEF Unanswered
  <2>2. /\ phase' \in [Jobs -> Server!Phases] /\ line' \in Seq(Jobs)
        /\ posted' \in [Jobs -> Post \cup {NoPost}]
    BY <2>1, AcceptEffect DEF TypeOK
  <2>3. /\ session' = session /\ known' = known
        /\ call' \in [Episodes -> Call] /\ reply' \in [Episodes -> Reply]
    BY <2>1, EscapeEffect
  <2> QED  BY <2>1, <2>2, <2>3 DEF TypeOK
<1>12. CASE UNCHANGED vars
  BY <1>12 DEF vars, TypeOK
<1> QED
  BY <1>1, <1>2, <1>3, <1>4, <1>5, <1>6, <1>7, <1>8, <1>9, <1>10, <1>11, <1>12, RequestEffect
     DEF Next, Episode, Proceed

\* Every variable keeps its type, in every behaviour.
THEOREM TypeCorrect == Spec => []TypeOK
<1> QED  BY InitType, TypeStep, PTL DEF Spec

-----------------------------------------------------------------------------
(* The invariant *)

\* A job that the instance of this life of an episode posted.
Own(e, j) ==
  j \in Jobs /\ posted[j] \in Post /\ posted[j].episode = e /\ posted[j].life = life[e]

History(e) ==
  LET state == session[e].state IN
  /\ session[e].step = Len(state)
  /\ \A i \in 1..Len(state) :
       /\ state[i].ok => state[i].job # NoJob
       /\ state[i].job # NoJob =>
            /\ Own(e, state[i].job)
            /\ phase[state[i].job] \in Verdicts(state[i].ok)
            /\ \A k \in 1..Len(state) : state[k].job = state[i].job => k = i

CacheTrue(e) ==
  \A r \in Requests : Cached(e, r) =>
    LET o == session[e].requests[r] IN
    /\ o.step < session[e].step
    /\ o.state = SubSeq(session[e].state, 1, o.step + 1)
    /\ o.result = session[e].state[o.step + 1]
    /\ o.result.job # NoJob => posted[o.result.job].request = r

\* A call in progress has a job of its own that no other call has a result of.
Calling(e) ==
  LET c == call[e] IN
  /\ c.pc # "idle" => session[e].alive /\ ~Cached(e, c.request)
  /\ c.pc \in {"idle", "post"} => c.job = NoJob
  /\ c.pc \in {"poll", "fetch", "artifacts"} =>
       /\ Own(e, c.job) /\ posted[c.job].request = c.request
       /\ c.job \notin raised
       /\ \A i \in 1..Len(session[e].state) : session[e].state[i].job # c.job
  /\ c.pc = "fetch" => phase[c.job] \in Server!Finished \cup {"lost"}
  /\ c.pc = "artifacts" => c.result.job = c.job /\ phase[c.job] \in Verdicts(c.result.ok)

Replied(e) ==
  LET o == reply[e].observation IN
  o.result.ok =>
    /\ Own(e, o.result.job) /\ posted[o.result.job].request = reply[e].request
    /\ phase[o.result.job] \in Verdicts(TRUE)

\* Where a job with a request id has gone.
Accounted(e) ==
  session[e].alive =>
    \A j \in Jobs : Own(e, j) /\ posted[j].request # NoRequest =>
      j \in raised \/ call[e].job = j \/ Cached(e, posted[j].request)

Posts ==
  /\ \A j \in Jobs : posted[j] \in Post =>
       phase[j] # "new" /\ posted[j].life <= life[posted[j].episode]
  /\ \A j \in raised : posted[j] \in Post

EpisodeInv(e) ==
  History(e) /\ CacheTrue(e) /\ Calling(e) /\ Replied(e) /\ Accounted(e)

SessionInv ==
  Waiting /\ Posts /\ RequestRunsOnce /\ \A e \in Episodes : EpisodeInv(e)

\* A step that takes no post back and lets the worker go on.
Moves ==
  \A j \in Jobs : posted[j] \in Post => posted'[j] = posted[j] /\ Advanced(phase[j], phase'[j])

LEMMA VerdictStays ==
  ASSUME NEW p, NEW q, NEW ok \in BOOLEAN, p \in Verdicts(ok), Advanced(p, q)
  PROVE  q \in Verdicts(ok)
BY DEF Verdicts, Advanced, Server!Finished

LEMMA OwnStays ==
  ASSUME Moves, NEW e \in Episodes, life'[e] = life[e], NEW j, Own(e, j)
  PROVE  Own(e, j)' /\ posted'[j] = posted[j] /\ Advanced(phase[j], phase'[j])
BY DEF Moves, Own

\* The i-th result of a history.
LEMMA StateResult ==
  ASSUME TypeOK, NEW e \in Episodes
  PROVE  /\ session[e].state \in Seq(Result) /\ Len(session[e].state) \in Nat
         /\ \A i \in 1..Len(session[e].state) :
              /\ session[e].state[i] \in Result /\ session[e].state[i].ok \in BOOLEAN
              /\ session[e].state[i].job \in Jobs \cup {NoJob}
<1>1. session[e].state \in Seq(Result)
  BY Fields DEF State
<1>2. \A i \in 1..Len(session[e].state) : session[e].state[i] \in Result
  BY <1>1
<1> QED  BY <1>1, <1>2 DEF Result

\* What is on record of an instance stays true while it is not touched.
LEMMA HistoryStays ==
  ASSUME TypeOK, Moves, NEW e \in Episodes, History(e), CacheTrue(e),
         session'[e] = session[e], life'[e] = life[e]
  PROVE  History(e)' /\ CacheTrue(e)'
<1> DEFINE s == session[e].state
<1>1. ASSUME NEW i \in 1..Len(s), s[i].job # NoJob
      PROVE  /\ Own(e, s[i].job)' /\ phase'[s[i].job] \in Verdicts(s[i].ok)
             /\ posted'[s[i].job] = posted[s[i].job]
  <2>1. Own(e, s[i].job) /\ phase[s[i].job] \in Verdicts(s[i].ok)
    BY <1>1 DEF History
  <2>2. s[i].ok \in BOOLEAN
    BY StateResult
  <2> QED  BY <2>1, <2>2, OwnStays, VerdictStays
<1>2. History(e)'
  BY <1>1 DEF History
<1>3. ASSUME NEW r \in Requests, Cached(e, r)
      PROVE  LET o == session[e].requests[r] IN
             o.result.job # NoJob => posted'[o.result.job] = posted[o.result.job]
  <2> DEFINE o == session[e].requests[r]
  <2>1. o.step < Len(s) /\ o.result = s[o.step + 1]
    BY <1>3 DEF CacheTrue, History
  <2>2. o.step \in Nat
    BY Fields DEF Observation
  <2>3. o.step + 1 \in 1..Len(s)
    BY <2>1, <2>2, StateResult
  <2> QED  BY <2>1, <2>3, <1>1
<1>4. CacheTrue(e)'
  BY <1>3 DEF CacheTrue, Cached
<1> QED  BY <1>2, <1>4

\* A call in progress stays as it is while its episode is not touched.
LEMMA CallingStays ==
  ASSUME TypeOK, Moves, NEW e \in Episodes, Calling(e),
         session'[e] = session[e], life'[e] = life[e], call'[e] = call[e],
         call[e].job \in raised' => call[e].job \in raised \/ call[e].job = NoJob
  PROVE  Calling(e)'
<1> DEFINE c == call[e]
<1>1. ASSUME c.pc \in {"poll", "fetch", "artifacts"}
      PROVE  /\ Own(e, c.job)' /\ posted'[c.job] = posted[c.job]
             /\ Advanced(phase[c.job], phase'[c.job]) /\ c.job \notin raised' 
  <2>1. Own(e, c.job) /\ c.job \notin raised
    BY <1>1 DEF Calling
  <2>2. c.job # NoJob
    BY <2>1, SessionAssumption DEF Own
  <2> QED  BY <2>1, <2>2, OwnStays
<1>2. c.pc = "fetch" => phase'[c.job] \in Server!Finished \cup {"lost"}
  BY <1>1 DEF Calling, Advanced, Server!Finished
<1>3. c.result.ok \in BOOLEAN
  BY Fields DEF Result
<1>4. c.pc = "artifacts" => phase'[c.job] \in Verdicts(c.result.ok)
  BY <1>1, <1>3, VerdictStays DEF Calling
<1> QED  BY <1>1, <1>2, <1>4 DEF Calling, Cached

LEMMA RepliedStays ==
  ASSUME TypeOK, Moves, NEW e \in Episodes, Replied(e),
         life'[e] = life[e], reply'[e] = reply[e]
  PROVE  Replied(e)'
<1> DEFINE o == reply[e].observation
<1>1. CASE o.result.ok
  <2>1. Own(e, o.result.job) /\ phase[o.result.job] \in Verdicts(TRUE)
    BY <1>1 DEF Replied
  <2>2. Own(e, o.result.job)' /\ posted'[o.result.job] = posted[o.result.job]
    BY <2>1, OwnStays
  <2>3. phase'[o.result.job] \in Verdicts(TRUE)
    BY <2>1, OwnStays DEF Verdicts, Advanced, Server!Finished
  <2> QED  BY <1>1, <2>2, <2>3 DEF Replied
<1>2. CASE ~o.result.ok
  BY <1>2 DEF Replied
<1> QED  BY <1>1, <1>2

\* Jobs that others post are not those of an episode.
LEMMA AccountedStays ==
  ASSUME TypeOK, Moves, NEW e \in Episodes, Accounted(e), raised \subseteq raised',
         session'[e] = session[e], life'[e] = life[e], call'[e] = call[e],
         \A j \in Jobs : posted'[j] \in Post /\ posted[j] \notin Post => posted'[j].episode # e
  PROVE  Accounted(e)'
<1>1. ASSUME NEW j \in Jobs, Own(e, j)' PROVE Own(e, j) /\ posted'[j] = posted[j]
  BY <1>1 DEF Own, Moves
<1> QED  BY <1>1 DEF Accounted, Cached

LEMMA EpisodeStays ==
  ASSUME TypeOK, Moves, NEW e \in Episodes, EpisodeInv(e), raised \subseteq raised',
         session'[e] = session[e], life'[e] = life[e], call'[e] = call[e],
         reply'[e] = reply[e],
         call[e].job \in raised' => call[e].job \in raised \/ call[e].job = NoJob,
         \A j \in Jobs : posted'[j] \in Post /\ posted[j] \notin Post => posted'[j].episode # e
  PROVE  EpisodeInv(e)'
<1>1. History(e)' /\ CacheTrue(e)'
  BY HistoryStays DEF EpisodeInv
<1>2. Calling(e)'
  BY CallingStays DEF EpisodeInv
<1>3. Replied(e)' /\ Accounted(e)'
  BY RepliedStays, AccountedStays DEF EpisodeInv
<1> QED  BY <1>1, <1>2, <1>3 DEF EpisodeInv

\* The job of a call in progress is its own.
LEMMA CallJob ==
  ASSUME TypeOK, NEW e \in Episodes, Calling(e), call[e].job # NoJob
  PROVE  /\ Own(e, call[e].job) /\ posted[call[e].job].request = call[e].request
         /\ call[e].pc \in {"poll", "fetch", "artifacts"}
<1>1. call[e].pc \in {"idle", "post", "poll", "fetch", "artifacts"}
  BY Fields DEF Call
<1> QED  BY <1>1 DEF Calling

LEMMA NothingMoves ==
  ASSUME TypeOK, UNCHANGED <<server, posted>>
  PROVE  Moves
BY DEF Moves, Advanced, server

\* Posts that do not change, and exceptions that are added.
LEMMA PostsStay ==
  ASSUME TypeOK, SessionInv, Moves, posted' = posted, raised \subseteq raised',
         \A j \in raised' \ raised : posted[j] \in Post,
         \A e \in Episodes : life'[e] \in Nat /\ life[e] <= life'[e]
  PROVE  Posts' /\ RequestRunsOnce'
<1>1. ASSUME NEW j \in Jobs, posted[j] \in Post
      PROVE  phase'[j] # "new" /\ posted[j].life <= life'[posted[j].episode]
  <2>1. /\ posted[j].episode \in Episodes /\ posted[j].life \in Nat
        /\ phase[j] # "new" /\ posted[j].life <= life[posted[j].episode]
    BY <1>1 DEF SessionInv, Posts, Post
  <2>2. phase'[j] # "new"
    BY <1>1, <2>1 DEF Moves, Advanced
  <2>3. life[posted[j].episode] \in Nat
    BY <2>1, Fields
  <2> QED  BY <2>1, <2>2, <2>3
<1>2. Posts'
  BY <1>1 DEF SessionInv, Posts
<1>3. RequestRunsOnce'
  BY DEF SessionInv, RequestRunsOnce, SameRequest
<1> QED  BY <1>2, <1>3

LEMMA RenewKeeps ==
  ASSUME TypeOK, SessionInv, NEW e \in Episodes, Create(e) \/ Reset(e)
  PROVE  SessionInv'
<1>1. Renew(e) /\ Idle(e) /\ UNCHANGED <<server, posted, raised, call>>
  BY DEF Create, Reset
<1>2. /\ life'[e] = life[e] + 1 /\ session'[e] = NewSession /\ reply'[e] = NoReply
      /\ \A f \in Episodes \ {e} :
           life'[f] = life[f] /\ session'[f] = session[f] /\ reply'[f] = reply[f]
  BY <1>1, RenewEffect
<1>3. /\ ~PerCall => known'[e] = <<>>
      /\ \A f \in Episodes \ {e} : known'[f] = known[f]
  BY DEF Create, Reset, TypeOK
<1>4. Moves
  BY <1>1, NothingMoves
<1>5. Posts' /\ RequestRunsOnce'
  <2>1. \A f \in Episodes : life'[f] \in Nat /\ life[f] <= life'[f]
    BY <1>2, Fields
  <2> QED  BY <1>1, <1>4, <2>1, PostsStay
<1>6. ASSUME NEW f \in Episodes \ {e} PROVE EpisodeInv(f)'
  BY <1>1, <1>2, <1>3, <1>4, EpisodeStays DEF SessionInv
<1>7. EpisodeInv(e)'
  <2>1. \A r : ~Cached(e, r)'
    BY <1>2, Fresh, Constants DEF Cached
  <2>2. History(e)' /\ CacheTrue(e)'
    BY <1>2, <2>1, Fresh DEF History, CacheTrue
  <2>3. call[e].pc = "idle" /\ call[e].job = NoJob
    BY <1>1 DEF Idle, SessionInv, EpisodeInv, Calling
  <2>4. Calling(e)'
    BY <1>1, <2>3 DEF Calling
  <2>5. Replied(e)'
    BY <1>2, NoCall, Constants DEF Replied
  <2>6. Accounted(e)'
    <3>1. ASSUME NEW j \in Jobs, Own(e, j)' PROVE FALSE
      <4>1. posted[j] \in Post /\ posted[j].episode = e /\ posted[j].life = life[e] + 1
        BY <1>1, <1>2, <3>1 DEF Own
      <4>2. posted[j].life <= life[e]
        BY <4>1 DEF SessionInv, Posts
      <4> QED  BY <4>1, <4>2, Fields
    <3> QED  BY <3>1 DEF Accounted
  <2> QED  BY <2>2, <2>4, <2>5, <2>6 DEF EpisodeInv
<1>8. Waiting'
  BY <1>1 DEF SessionInv, Waiting, server
<1> QED  BY <1>5, <1>6, <1>7, <1>8 DEF SessionInv

LEMMA ReleaseKeeps ==
  ASSUME TypeOK, SessionInv, NEW e \in Episodes, Release(e)
  PROVE  SessionInv'
<1>1. Idle(e) /\ UNCHANGED <<server, posted, raised, life, call, reply, known>>
  BY DEF Release
<1>2. session'[e] = NoSession /\ \A f \in Episodes \ {e} : session'[f] = session[f]
  BY DEF Release, TypeOK
<1>4. Moves
  BY <1>1, NothingMoves
<1>5. Posts' /\ RequestRunsOnce'
  <2>1. \A f \in Episodes : life'[f] \in Nat /\ life[f] <= life'[f]
    BY <1>1, Fields
  <2> QED  BY <1>1, <1>4, <2>1, PostsStay
<1>6. ASSUME NEW f \in Episodes \ {e} PROVE EpisodeInv(f)'
  BY <1>1, <1>2, <1>4, EpisodeStays DEF SessionInv
<1>7. EpisodeInv(e)'
  <2>1. \A r : ~Cached(e, r)'
    BY <1>2, Fresh, Constants DEF Cached
  <2>2. History(e)' /\ CacheTrue(e)'
    BY <1>2, <2>1, Fresh DEF History, CacheTrue
  <2>3. call[e].pc = "idle" /\ call[e].job = NoJob
    BY <1>1 DEF Idle, SessionInv, EpisodeInv, Calling
  <2>4. Calling(e)'
    BY <1>1, <2>3 DEF Calling
  <2>5. Replied(e)'
    BY <1>1, <1>4, RepliedStays DEF SessionInv, EpisodeInv
  <2>6. Accounted(e)'
    BY <1>2, Fresh DEF Accounted
  <2> QED  BY <2>2, <2>4, <2>5, <2>6 DEF EpisodeInv
<1>8. Waiting'
  BY <1>1 DEF SessionInv, Waiting, server
<1> QED  BY <1>5, <1>6, <1>7, <1>8 DEF SessionInv

LEMMA AnswerKeeps ==
  ASSUME TypeOK, SessionInv, NEW e \in Episodes, Refuse(e) \/ Replay(e)
  PROVE  SessionInv'
<1>1. UNCHANGED <<server, posted, raised, session, life, call, known>>
  BY DEF Refuse, Replay
<1>2. (\A f \in Episodes \ {e} : reply'[f] = reply[f]) /\ Replied(e)'
  <2>1. CASE Refuse(e)
    <3>1. /\ \A f \in Episodes \ {e} : reply'[f] = reply[f]
          /\ reply'[e].observation = NoObservation
      BY <2>1, AnswerEffect, Constants DEF Refuse
    <3> QED  BY <3>1, Constants DEF Replied
  <2>2. CASE Replay(e)
    <3>1. PICK r \in Requests : /\ Cached(e, r)
                                /\ Answer(e, "duplicate", r, session[e].requests[r])
      BY <2>2 DEF Replay
    <3> DEFINE o == session[e].requests[r]
               s == session[e].state
    <3>2. o \in Observation /\ o.step \in Nat /\ o.result \in Result
      BY Fields DEF Observation
    <3>3. /\ \A f \in Episodes \ {e} : reply'[f] = reply[f]
          /\ reply'[e].observation = o /\ reply'[e].request = r
      BY <3>1, <3>2, AnswerEffect
    <3>4. /\ o.step < Len(s) /\ o.result = s[o.step + 1]
          /\ o.result.job # NoJob => posted[o.result.job].request = r
      BY <3>1 DEF SessionInv, EpisodeInv, CacheTrue, History
    <3>5. o.step + 1 \in 1..Len(s)
      <4>1. Len(s) \in Nat
        BY StateResult
      <4> HIDE DEF o, s
      <4> QED BY <3>2, <3>4, <4>1
    <3>6. ASSUME o.result.ok
          PROVE  /\ Own(e, o.result.job) /\ posted[o.result.job].request = r
                 /\ phase[o.result.job] \in Verdicts(TRUE)
      <4>1. /\ o.result.job # NoJob /\ Own(e, o.result.job)
            /\ phase[o.result.job] \in Verdicts(o.result.ok)
        BY <3>4, <3>5, <3>6 DEF SessionInv, EpisodeInv, History
      <4>2. phase[o.result.job] \in Verdicts(TRUE)
        BY <3>6, <4>1 DEF Verdicts
      <4> QED  BY <3>4, <4>1, <4>2
    <3> HIDE DEF o
    <3> QED  BY <1>1, <3>3, <3>6 DEF Replied, Own, server
  <2> QED  BY <2>1, <2>2
<1>4. Moves
  BY <1>1, NothingMoves
<1>5. Posts' /\ RequestRunsOnce'
  <2>1. \A f \in Episodes : life'[f] \in Nat /\ life[f] <= life'[f]
    BY <1>1, Fields
  <2> QED  BY <1>1, <1>4, <2>1, PostsStay
<1>6. ASSUME NEW f \in Episodes \ {e} PROVE EpisodeInv(f)'
  BY <1>1, <1>2, <1>4, EpisodeStays DEF SessionInv
<1>7. EpisodeInv(e)'
  <2>1. History(e)' /\ CacheTrue(e)'
    BY <1>1, <1>4, HistoryStays DEF SessionInv, EpisodeInv
  <2>2. Calling(e)' /\ Accounted(e)'
    BY <1>1, <1>4, CallingStays, AccountedStays DEF SessionInv, EpisodeInv
  <2> QED  BY <1>2, <2>1, <2>2 DEF EpisodeInv
<1>8. Waiting'
  BY <1>1 DEF SessionInv, Waiting, server
<1> QED  BY <1>5, <1>6, <1>7, <1>8 DEF SessionInv

LEMMA BeginKeeps ==
  ASSUME TypeOK, SessionInv, NEW e \in Episodes, Begin(e)
  PROVE  SessionInv'
<1>1. UNCHANGED <<server, posted, raised, session, life, reply, known>> /\ Usable(e)
  BY DEF Begin
<1>2. PICK r \in Requests \cup {NoRequest} :
        /\ ~Cached(e, r)
        /\ call' = [call EXCEPT ![e] = [IdleCall EXCEPT !.pc = "post", !.request = r]]
  BY DEF Begin
<1>3. /\ call'[e].pc = "post" /\ call'[e].request = r /\ call'[e].job = NoJob
      /\ \A f \in Episodes \ {e} : call'[f] = call[f]
  BY <1>2, BeginCall DEF TypeOK
<1>4. Moves
  BY <1>1, NothingMoves
<1>5. Posts' /\ RequestRunsOnce'
  <2>1. \A f \in Episodes : life'[f] \in Nat /\ life[f] <= life'[f]
    BY <1>1, Fields
  <2> QED  BY <1>1, <1>4, <2>1, PostsStay
<1>6. ASSUME NEW f \in Episodes \ {e} PROVE EpisodeInv(f)'
  BY <1>1, <1>3, <1>4, EpisodeStays DEF SessionInv
<1>7. EpisodeInv(e)'
  <2>1. History(e)' /\ CacheTrue(e)' /\ Replied(e)'
    BY <1>1, <1>4, HistoryStays, RepliedStays DEF SessionInv, EpisodeInv
  <2>2. Calling(e)'
    BY <1>1, <1>2, <1>3 DEF Usable, Calling, Cached
  <2>3. Accounted(e)'
    <3>1. call[e].job = NoJob
      BY <1>1 DEF Usable, Idle, SessionInv, EpisodeInv, Calling
    <3> QED
      BY <1>1, <3>1, SessionAssumption DEF SessionInv, EpisodeInv, Accounted, Own, Cached
  <2> QED  BY <2>1, <2>2, <2>3 DEF EpisodeInv
<1>8. Waiting'
  BY <1>1 DEF SessionInv, Waiting, server
<1> QED  BY <1>5, <1>6, <1>7, <1>8 DEF SessionInv

LEMMA GoingKeeps ==
  ASSUME TypeOK, SessionInv, NEW e \in Episodes, Going(e)
  PROVE  SessionInv'
<1>1. UNCHANGED <<server, posted, raised, session, life, reply, known>>
  BY DEF Going
<1>2. PICK c \in Call :
       /\ call' = [call EXCEPT ![e] = c] /\ c.request = call[e].request
       /\ \/ call[e].pc = "poll" /\ c.job = call[e].job /\ c.pc = "poll"
          \/ /\ call[e].pc = "poll" /\ c.job = call[e].job /\ c.pc = "fetch"
             /\ phase[c.job] \in Server!Finished
          \/ /\ call[e].pc = "fetch" /\ c.job = call[e].job /\ c.pc = "artifacts"
             /\ phase[c.job] # "lost"
             /\ c.result = [ok |-> phase[c.job] = "completed", job |-> c.job]
  BY DEF Going
<1>3. call'[e] = c /\ \A f \in Episodes \ {e} : call'[f] = call[f]
  BY <1>2 DEF TypeOK
<1>4. Moves
  BY <1>1, NothingMoves
<1>5. Posts' /\ RequestRunsOnce'
  <2>1. \A f \in Episodes : life'[f] \in Nat /\ life[f] <= life'[f]
    BY <1>1, Fields
  <2> QED  BY <1>1, <1>4, <2>1, PostsStay
<1>6. ASSUME NEW f \in Episodes \ {e} PROVE EpisodeInv(f)'
  BY <1>1, <1>3, <1>4, EpisodeStays DEF SessionInv
<1>7. EpisodeInv(e)'
  <2>1. History(e)' /\ CacheTrue(e)' /\ Replied(e)'
    BY <1>1, <1>4, HistoryStays, RepliedStays DEF SessionInv, EpisodeInv
  <2>2. c.pc = "artifacts" => c.result.job = c.job /\ phase[c.job] \in Verdicts(c.result.ok)
    <3> SUFFICES ASSUME c.pc = "artifacts"
                 PROVE  c.result.job = c.job /\ phase[c.job] \in Verdicts(c.result.ok)
      OBVIOUS
    <3>1. /\ call[e].pc = "fetch" /\ c.job = call[e].job /\ phase[c.job] # "lost"
          /\ c.result = [ok |-> phase[c.job] = "completed", job |-> c.job]
      BY <1>2
    <3>2. phase[c.job] \in {"completed", "error"}
      BY <3>1 DEF SessionInv, EpisodeInv, Calling, Server!Finished
    <3>3. c.result.job = c.job /\ c.result.ok = (phase[c.job] = "completed")
      BY <3>1
    <3>4. CASE phase[c.job] = "completed"
      <4>1. c.result.ok
        BY <3>3, <3>4
      <4> QED  BY <3>3, <3>4, <4>1 DEF Verdicts
    <3>5. CASE phase[c.job] = "error"
      <4>1. ~c.result.ok
        BY <3>3, <3>5
      <4> QED  BY <3>3, <3>5, <4>1 DEF Verdicts
    <3> QED  BY <3>2, <3>4, <3>5
  <2>3. Calling(e)'
    BY <1>1, <1>2, <1>3, <2>2 DEF SessionInv, EpisodeInv, Calling, Cached, Own, server
  <2>4. Accounted(e)'
    BY <1>1, <1>2, <1>3 DEF SessionInv, EpisodeInv, Accounted, Own, Cached
  <2> QED  BY <2>1, <2>3, <2>4 DEF EpisodeInv
<1>8. Waiting'
  BY <1>1 DEF SessionInv, Waiting, server
<1> QED  BY <1>5, <1>6, <1>7, <1>8 DEF SessionInv

\* What a job without a post is to the others.
LEMMA AcceptMoves ==
  ASSUME TypeOK, SessionInv, NEW e \in Episodes, NEW j \in Jobs, Accepted(e, j)
  PROVE  /\ Moves /\ posted[j] \notin Post /\ j \notin raised
         /\ posted'[j] \in Post /\ posted'[j].episode = e
         /\ posted'[j].life = life[e] /\ posted'[j].request = call[e].request
         /\ \A k \in Jobs : posted'[k] \in Post /\ posted[k] \notin Post => k = j
         /\ \A f \in Episodes : \A k : Own(f, k) => k # j
         /\ phase'[j] = "queued" /\ \A k \in Jobs \ {j} : phase'[k] = phase[k]
         /\ call[e].pc = "post" /\ call[e].job = NoJob /\ session[e].alive
         /\ ~Cached(e, call[e].request)
<1>1. /\ call[e].pc = "post" /\ phase[j] = "new"
      /\ phase'[j] = "queued" /\ \A k \in Jobs \ {j} : phase'[k] = phase[k]
      /\ posted'[j] = [episode |-> e, life |-> life[e], request |-> call[e].request]
      /\ \A k \in Jobs \ {j} : posted'[k] = posted[k]
  BY AcceptEffect
<1>2. posted[j] \notin Post /\ j \notin raised
  BY <1>1 DEF SessionInv, Posts
<1>3. Moves
  BY <1>1, <1>2 DEF Moves, Advanced
<1>4. posted'[j] \in Post
  BY <1>1, Fields DEF Post
<1>5. call[e].job = NoJob /\ session[e].alive /\ ~Cached(e, call[e].request)
  BY <1>1 DEF SessionInv, EpisodeInv, Calling
<1>6. \A f \in Episodes : \A k : Own(f, k) => k # j
  BY <1>2 DEF Own
<1> QED  BY <1>1, <1>2, <1>3, <1>4, <1>5, <1>6

LEMMA AcceptPosts ==
  ASSUME TypeOK, SessionInv, NEW e \in Episodes, NEW j \in Jobs, Accepted(e, j),
         life' = life, raised \subseteq raised', raised' \subseteq raised \cup {j}
  PROVE  Posts' /\ RequestRunsOnce'
<1>1. /\ Moves /\ posted[j] \notin Post
      /\ posted'[j] \in Post /\ posted'[j].episode = e
      /\ posted'[j].life = life[e] /\ posted'[j].request = call[e].request
      /\ phase'[j] = "queued" /\ \A k \in Jobs \ {j} : phase'[k] = phase[k]
      /\ call[e].job = NoJob /\ session[e].alive
      /\ ~Cached(e, call[e].request)
  BY AcceptMoves
<1>2. \A k \in Jobs \ {j} : posted'[k] = posted[k]
  BY AcceptEffect
<1>3. Posts'
  <2>1. \A k \in Jobs \ {j} : posted'[k] \in Post =>
          phase'[k] # "new" /\ posted'[k].life <= life'[posted'[k].episode]
    BY <1>1, <1>2 DEF SessionInv, Posts
  <2>2. phase'[j] # "new" /\ posted'[j].life <= life'[posted'[j].episode]
    BY <1>1, Fields
  <2>3. \A k \in raised' : posted'[k] \in Post
    BY <1>1 DEF SessionInv, Posts, Moves, TypeOK
  <2> QED  BY <2>1, <2>2, <2>3 DEF Posts
<1>4. ASSUME NEW k \in Jobs \ {j}, posted'[k] = posted'[j], posted'[j].request # NoRequest
      PROVE  k \in raised
  <2>1. Own(e, k) /\ posted[k].request = call[e].request
    BY <1>1, <1>2, <1>4 DEF Own
  <2>2. k # NoJob
    BY SessionAssumption
  <2> QED  BY <1>1, <1>4, <2>1, <2>2 DEF SessionInv, EpisodeInv, Accounted
<1>5. RequestRunsOnce'
  <2> SUFFICES ASSUME NEW k \in Jobs, NEW l \in Jobs, SameRequest(k, l)'
               PROVE  k \in raised' \/ l \in raised'
    BY DEF RequestRunsOnce
  <2>1. k # l /\ posted'[k] # NoPost /\ posted'[k] = posted'[l] /\ posted'[k].request # NoRequest
    BY DEF SameRequest
  <2>2. CASE k = j
    BY <1>4, <2>1, <2>2
  <2>3. CASE l = j
    BY <1>4, <2>1, <2>3
  <2>4. CASE k # j /\ l # j
    <3>1. SameRequest(k, l)
      BY <1>2, <2>1, <2>4 DEF SameRequest
    <3> QED  BY <3>1 DEF SessionInv, RequestRunsOnce
  <2> QED  BY <2>2, <2>3, <2>4
<1> QED  BY <1>3, <1>5

LEMMA SubmitKeeps ==
  ASSUME TypeOK, SessionInv, NEW e \in Episodes, Submit(e)
  PROVE  SessionInv'
<1>1. PICK j \in Jobs : /\ Accepted(e, j)
                        /\ call' = [call EXCEPT ![e].pc = "poll", ![e].job = j]
                        /\ UNCHANGED <<raised, session, life, reply, known>>
  BY DEF Submit
<1>2. /\ call'[e].pc = "poll" /\ call'[e].request = call[e].request /\ call'[e].job = j
      /\ \A f \in Episodes \ {e} : call'[f] = call[f]
  <2>1. call' = [call EXCEPT ![e] = [call[e] EXCEPT !.pc = "poll", !.job = j]]
    BY <1>1 DEF TypeOK
  <2> QED  BY <2>1, SubmitCall DEF TypeOK
<1>3. /\ Moves /\ posted[j] \notin Post /\ j \notin raised
      /\ posted'[j] \in Post /\ posted'[j].episode = e
      /\ posted'[j].life = life[e] /\ posted'[j].request = call[e].request
      /\ \A k \in Jobs : posted'[k] \in Post /\ posted[k] \notin Post => k = j
      /\ \A f \in Episodes : \A k : Own(f, k) => k # j
      /\ call[e].pc = "post" /\ call[e].job = NoJob /\ session[e].alive
      /\ ~Cached(e, call[e].request)
  BY <1>1, AcceptMoves
<1>4. Waiting'
  BY <1>1, AcceptEffect DEF SessionInv
<1>5. Posts' /\ RequestRunsOnce'
  BY <1>1, AcceptPosts
<1>6. ASSUME NEW f \in Episodes \ {e} PROVE EpisodeInv(f)'
  <2>1. \A k \in Jobs : posted'[k] \in Post /\ posted[k] \notin Post => posted'[k].episode # f
    BY <1>3
  <2> QED  BY <1>1, <1>2, <1>3, <2>1, EpisodeStays DEF SessionInv
<1>7. EpisodeInv(e)'
  <2>1. History(e)' /\ CacheTrue(e)' /\ Replied(e)'
    BY <1>1, <1>3, HistoryStays, RepliedStays DEF SessionInv, EpisodeInv
  <2>2. Own(e, j)'
    BY <1>1, <1>3 DEF Own
  <2>3. \A i \in 1..Len(session[e].state) : session[e].state[i].job # j
    BY <1>3, SessionAssumption DEF SessionInv, EpisodeInv, History
  <2>4. Calling(e)'
    <3>1. session'[e].alive /\ ~Cached(e, call[e].request)'
      BY <1>1, <1>2, <1>3 DEF Cached
    <3>2. posted'[call'[e].job].request = call'[e].request /\ call'[e].job \notin raised'
      BY <1>1, <1>2, <1>3
    <3>3. Own(e, call[e].job)'
      BY <1>2, <2>2
    <3>4. \A i \in 1..Len(session'[e].state) : session'[e].state[i].job # call'[e].job
      BY <1>1, <1>2, <2>3
    <3> QED  BY <1>2, <3>1, <3>2, <3>3, <3>4 DEF Calling
  <2>5. Accounted(e)'
    <3> SUFFICES ASSUME NEW k \in Jobs \ {j}, Own(e, k)', posted'[k].request # NoRequest
                 PROVE  k \in raised \/ Cached(e, posted'[k].request)
      BY <1>1, <1>2 DEF Accounted, Cached
    <3>1. posted'[k] = posted[k] /\ Own(e, k) /\ k # NoJob
      BY <1>1, <1>3, SessionAssumption DEF Own, Moves
    <3> QED  BY <1>3, <3>1 DEF SessionInv, EpisodeInv, Accounted
  <2> QED  BY <2>1, <2>4, <2>5 DEF EpisodeInv
<1> QED  BY <1>4, <1>5, <1>6, <1>7 DEF SessionInv

LEMMA UnansweredKeeps ==
  ASSUME TypeOK, SessionInv, NEW e \in Episodes, Unanswered(e)
  PROVE  SessionInv'
<1>1. PICK j \in Jobs : Accepted(e, j) /\ Escape(e) /\ raised' = raised \cup {j} /\ life' = life
  BY DEF Unanswered
<1>2. /\ UNCHANGED <<session, known>>
      /\ call'[e] = IdleCall /\ reply'[e].observation = NoObservation
      /\ \A f \in Episodes \ {e} : call'[f] = call[f] /\ reply'[f] = reply[f]
  BY <1>1, EscapeEffect
<1>3. /\ Moves /\ posted[j] \notin Post
      /\ posted'[j] \in Post /\ posted'[j].episode = e
      /\ \A k \in Jobs : posted'[k] \in Post /\ posted[k] \notin Post => k = j
      /\ \A f \in Episodes : \A k : Own(f, k) => k # j
      /\ call[e].job = NoJob
  BY <1>1, AcceptMoves
<1>4. Waiting'
  BY <1>1, AcceptEffect DEF SessionInv
<1>5. Posts' /\ RequestRunsOnce'
  BY <1>1, AcceptPosts
<1>6. ASSUME NEW f \in Episodes \ {e} PROVE EpisodeInv(f)'
  <2>1. \A k \in Jobs : posted'[k] \in Post /\ posted[k] \notin Post => posted'[k].episode # f
    BY <1>3
  <2>2. call[f].job = NoJob \/ call[f].job # j
    BY <1>3, CallJob DEF SessionInv, EpisodeInv
  <2> QED  BY <1>1, <1>2, <1>3, <2>1, <2>2, EpisodeStays DEF SessionInv
<1>7. EpisodeInv(e)'
  <2>1. History(e)' /\ CacheTrue(e)'
    BY <1>1, <1>2, <1>3, HistoryStays DEF SessionInv, EpisodeInv
  <2>2. Replied(e)' /\ Calling(e)'
    BY <1>2, NoCall, Constants DEF Replied, Calling
  <2>3. Accounted(e)'
    <3> SUFFICES ASSUME session[e].alive, NEW k \in Jobs \ {j}, Own(e, k)',
                        posted'[k].request # NoRequest
                 PROVE  k \in raised \/ Cached(e, posted'[k].request)
      BY <1>1, <1>2 DEF Accounted, Cached
    <3>1. posted'[k] = posted[k] /\ Own(e, k) /\ k # NoJob
      BY <1>1, <1>3, SessionAssumption DEF Own, Moves
    <3> QED  BY <1>3, <3>1 DEF SessionInv, EpisodeInv, Accounted
  <2> QED  BY <2>1, <2>2, <2>3 DEF EpisodeInv
<1> QED  BY <1>4, <1>5, <1>6, <1>7 DEF SessionInv

LEMMA BrokenKeeps ==
  ASSUME TypeOK, SessionInv, NEW e \in Episodes, Broken(e)
  PROVE  SessionInv'
<1>1. /\ Escape(e) /\ raised' = raised \cup ({call[e].job} \ {NoJob})
      /\ UNCHANGED <<server, posted, life>>
  BY DEF Broken
<1>2. /\ UNCHANGED <<session, known>>
      /\ call'[e] = IdleCall /\ reply'[e].observation = NoObservation
      /\ \A f \in Episodes \ {e} : call'[f] = call[f] /\ reply'[f] = reply[f]
  BY <1>1, EscapeEffect
<1>3. Moves
  BY <1>1, NothingMoves
<1>4. call[e].job # NoJob => Own(e, call[e].job)
  BY CallJob DEF SessionInv, EpisodeInv
<1>5. Posts' /\ RequestRunsOnce'
  <2>1. \A f \in Episodes : life'[f] \in Nat /\ life[f] <= life'[f]
    BY <1>1, Fields
  <2>2. \A j \in raised' \ raised : posted[j] \in Post
    BY <1>1, <1>4 DEF Own
  <2> QED  BY <1>1, <1>3, <2>1, <2>2, PostsStay
<1>6. ASSUME NEW f \in Episodes \ {e} PROVE EpisodeInv(f)'
  <2>1. call[f].job = NoJob \/ call[f].job # call[e].job
    BY <1>4, CallJob DEF SessionInv, EpisodeInv, Own
  <2> QED  BY <1>1, <1>2, <1>3, <2>1, EpisodeStays DEF SessionInv
<1>7. EpisodeInv(e)'
  <2>1. History(e)' /\ CacheTrue(e)'
    BY <1>1, <1>2, <1>3, HistoryStays DEF SessionInv, EpisodeInv
  <2>2. Replied(e)' /\ Calling(e)'
    BY <1>2, NoCall, Constants DEF Replied, Calling
  <2>3. Accounted(e)'
    BY <1>1, <1>2, SessionAssumption DEF SessionInv, EpisodeInv, Accounted, Own, Cached
  <2> QED  BY <2>1, <2>2, <2>3 DEF EpisodeInv
<1>8. Waiting'
  BY <1>1 DEF SessionInv, Waiting, server
<1> QED  BY <1>5, <1>6, <1>7, <1>8 DEF SessionInv

LEMMA ServeKeeps ==
  ASSUME TypeOK, SessionInv, Serve
  PROVE  SessionInv'
<1>1. UNCHANGED <<posted, raised, session, life, call, reply, known>>
  BY DEF Serve
<1>2. Waiting' /\ Moves
  BY <1>1, ServeEffect DEF SessionInv, Moves
<1>3. Posts' /\ RequestRunsOnce'
  <2>1. \A f \in Episodes : life'[f] \in Nat /\ life[f] <= life'[f]
    BY <1>1, Fields
  <2> QED  BY <1>1, <1>2, <2>1, PostsStay
<1>4. ASSUME NEW f \in Episodes PROVE EpisodeInv(f)'
  BY <1>1, <1>2, EpisodeStays DEF SessionInv
<1> QED  BY <1>2, <1>3, <1>4 DEF SessionInv

\* A prefix of a sequence is a prefix of what it becomes by an append.
LEMMA PrefixOfAppend ==
  ASSUME NEW S, NEW q \in Seq(S), NEW x \in S
  PROVE  /\ SubSeq(Append(q, x), 1, Len(q) + 1) = Append(q, x)
         /\ \A n \in 1..Len(q) : SubSeq(Append(q, x), 1, n) = SubSeq(q, 1, n)
<1>1. /\ Append(q, x) \in Seq(S) /\ Len(Append(q, x)) = Len(q) + 1 /\ Len(q) \in Nat
      /\ \A i \in 1..Len(q) : Append(q, x)[i] = q[i]
  BY AppendProperties
<1>2. SubSeq(Append(q, x), 1, Len(q) + 1) = Append(q, x)
  BY <1>1, SubSeqFull
<1>3. ASSUME NEW n \in 1..Len(q) PROVE SubSeq(Append(q, x), 1, n) = SubSeq(q, 1, n)
  <2>1. \A i \in 1..n : q[i] \in S /\ Append(q, x)[i] \in S /\ Append(q, x)[i] = q[i]
    BY <1>1
  <2>2. /\ SubSeq(q, 1, n) \in Seq(S) /\ Len(SubSeq(q, 1, n)) = n
        /\ \A i \in 1..n : SubSeq(q, 1, n)[i] = q[i]
    BY <2>1, SubSeqProperties
  <2>3. /\ SubSeq(Append(q, x), 1, n) \in Seq(S) /\ Len(SubSeq(Append(q, x), 1, n)) = n
        /\ \A i \in 1..n : SubSeq(Append(q, x), 1, n)[i] = Append(q, x)[i]
    BY <2>1, SubSeqProperties
  <2> QED  BY <2>1, <2>2, <2>3, SeqEqual
<1> QED  BY <1>2, <1>3

\* A result that a call records is an error or the verdict of its own job.
LEMMA VerdictOwn ==
  ASSUME TypeOK, NEW e \in Episodes, Calling(e), call[e].pc # "idle",
         NEW result \in Result, Verdict(e, result)
  PROVE  /\ result.ok => result.job # NoJob
         /\ result.job # NoJob =>
              /\ Own(e, result.job) /\ posted[result.job].request = call[e].request
              /\ phase[result.job] \in Verdicts(result.ok)
              /\ \A i \in 1..Len(session[e].state) : session[e].state[i].job # result.job
<1>1. CASE result = RemoteError
  BY <1>1, Constants
<1>2. CASE call[e].pc = "artifacts" /\ result = call[e].result
  <2>1. result.job = call[e].job /\ phase[call[e].job] \in Verdicts(result.ok)
    BY <1>2 DEF Calling
  <2>2. call[e].job # NoJob
    BY <1>2, SessionAssumption DEF Calling, Own
  <2> QED  BY <1>2, <2>1, <2>2 DEF Calling
<1>3. CASE /\ call[e].pc = "fetch" /\ phase[call[e].job] # "lost"
           /\ result.job = call[e].job /\ result.ok = (phase[call[e].job] = "completed")
  <2>1. phase[call[e].job] \in {"completed", "error"}
    BY <1>3 DEF Calling, Server!Finished
  <2>2. phase[result.job] \in Verdicts(result.ok)
    <3>1. CASE phase[call[e].job] = "completed"
      BY <1>3, <3>1 DEF Verdicts
    <3>2. CASE phase[call[e].job] = "error"
      BY <1>3, <3>2 DEF Verdicts
    <3> QED  BY <2>1, <3>1, <3>2
  <2>3. call[e].job # NoJob
    BY <1>3, SessionAssumption DEF Calling, Own
  <2> QED  BY <1>3, <2>2, <2>3 DEF Calling
<1> QED  BY <1>1, <1>2, <1>3 DEF Verdict

LEMMA RecordingKeeps ==
  ASSUME TypeOK, SessionInv, NEW e \in Episodes, Recording(e)
  PROVE  SessionInv'
<1>1. UNCHANGED <<server, posted, raised, life>> /\ call[e].pc # "idle"
  BY DEF Recording
<1>2. PICK result \in Result : Verdict(e, result) /\ Record(e, result)
  BY DEF Recording
<1> DEFINE s == session[e].state
           o == Recorded(e, result)
<1>3. /\ o.result = result /\ o.step = session[e].step
      /\ o.state = Append(s, result) /\ o.state # <<>>
      /\ session'[e].alive = session[e].alive /\ session'[e].state = o.state
      /\ session'[e].step = session[e].step + 1
      /\ \A r \in Requests : session'[e].requests[r]
           = IF r = call[e].request THEN o ELSE session[e].requests[r]
      /\ reply'[e].observation = o /\ reply'[e].request = call[e].request
      /\ known'[e] = o.state /\ call'[e] = IdleCall
      /\ \A f \in Episodes \ {e} : /\ session'[f] = session[f] /\ reply'[f] = reply[f]
                                   /\ known'[f] = known[f] /\ call'[f] = call[f]
  BY <1>2, RecordEffect
<1> HIDE DEF o
<1>4. Moves
  BY <1>1, NothingMoves
<1>5. Posts' /\ RequestRunsOnce'
  <2>1. \A f \in Episodes : life'[f] \in Nat /\ life[f] <= life'[f]
    BY <1>1, Fields
  <2> QED  BY <1>1, <1>4, <2>1, PostsStay
<1>6. ASSUME NEW f \in Episodes \ {e} PROVE EpisodeInv(f)'
  BY <1>1, <1>3, <1>4, EpisodeStays DEF SessionInv
<1>7. EpisodeInv(e)'
  <2>0. /\ History(e) /\ CacheTrue(e) /\ Calling(e) /\ Accounted(e)
    BY DEF SessionInv, EpisodeInv
  <2>1. /\ result.ok => result.job # NoJob
        /\ result.job # NoJob =>
             /\ Own(e, result.job) /\ posted[result.job].request = call[e].request
             /\ phase[result.job] \in Verdicts(result.ok)
             /\ \A i \in 1..Len(s) : s[i].job # result.job
    BY <1>1, <1>2, <2>0, VerdictOwn
  <2>2. /\ s \in Seq(Result) /\ Len(s) \in Nat
        /\ Len(o.state) = Len(s) + 1 /\ o.state[Len(s) + 1] = result
        /\ \A i \in 1..Len(s) : o.state[i] = s[i]
        /\ \A i \in 1..Len(o.state) : i \in 1..Len(s) \/ i = Len(s) + 1
    BY <1>3, StateResult, AppendProperties
  <2>3. \A j : Own(e, j)' = Own(e, j)
    BY <1>1 DEF Own
  <2>4. History(e)'
    <3>1. session'[e].step = Len(o.state)
      BY <1>3, <2>0, <2>2 DEF History
    <3>2. ASSUME NEW i \in 1..Len(o.state)
          PROVE  /\ o.state[i].ok => o.state[i].job # NoJob
                 /\ o.state[i].job # NoJob =>
                      /\ Own(e, o.state[i].job)
                      /\ phase[o.state[i].job] \in Verdicts(o.state[i].ok)
                      /\ \A k \in 1..Len(o.state) : o.state[k].job = o.state[i].job => k = i
      <4>1. CASE i \in 1..Len(s)
        BY <2>0, <2>1, <2>2, <4>1 DEF History
      <4>2. CASE i = Len(s) + 1
        BY <2>0, <2>1, <2>2, <4>2 DEF History
      <4> QED  BY <2>2, <4>1, <4>2
    <3> QED  BY <1>1, <1>3, <2>3, <3>1, <3>2 DEF History, server
  <2>5. CacheTrue(e)'
    <3>1. ASSUME NEW r \in Requests, Cached(e, r)'
          PROVE  LET p == session'[e].requests[r] IN
                 /\ p.step < session'[e].step
                 /\ p.state = SubSeq(o.state, 1, p.step + 1)
                 /\ p.result = o.state[p.step + 1]
                 /\ p.result.job # NoJob => posted[p.result.job].request = r
      <4>1. CASE r = call[e].request
        <5>1. session'[e].requests[r] = o /\ o.step = Len(s)
          BY <1>3, <2>0, <4>1 DEF History
        <5>2. SubSeq(o.state, 1, Len(s) + 1) = o.state
          BY <1>3, <2>2, PrefixOfAppend
        <5>3. /\ o.step < session'[e].step /\ session'[e].step = Len(s) + 1
              /\ o.state = SubSeq(o.state, 1, o.step + 1)
              /\ o.result = o.state[o.step + 1]
          BY <1>3, <2>0, <2>2, <5>1, <5>2 DEF History
        <5>4. o.result.job # NoJob => posted[o.result.job].request = r
          BY <1>3, <2>1, <4>1
        <5> QED  BY <5>1, <5>3, <5>4
      <4>2. CASE r # call[e].request
        <5> DEFINE p == session[e].requests[r]
        <5>1. session'[e].requests[r] = p /\ Cached(e, r)
          BY <1>3, <3>1, <4>2 DEF Cached
        <5>2. /\ p.step < Len(s) /\ p.state = SubSeq(s, 1, p.step + 1)
              /\ p.result = s[p.step + 1] /\ session[e].step = Len(s)
              /\ p.result.job # NoJob => posted[p.result.job].request = r
          BY <2>0, <5>1 DEF CacheTrue, History
        <5>3. p.step \in Nat
          BY Fields DEF Observation
        <5>4. p.step + 1 \in 1..Len(s)
          <6> HIDE DEF p
          <6> QED  BY <2>2, <5>2, <5>3
        <5>5. SubSeq(o.state, 1, p.step + 1) = SubSeq(s, 1, p.step + 1)
          BY <1>3, <2>2, <5>4, PrefixOfAppend
        <5> HIDE DEF p
        <5> QED  BY <1>3, <2>2, <5>1, <5>2, <5>3, <5>4, <5>5
      <4> QED  BY <4>1, <4>2
    <3> QED  BY <1>1, <1>3, <3>1 DEF CacheTrue
  <2>6. Calling(e)'
    BY <1>3, NoCall DEF Calling
  <2>7. Replied(e)'
    <3>1. ASSUME result.ok
          PROVE  /\ Own(e, result.job)' /\ posted[result.job].request = call[e].request
                 /\ phase[result.job] \in Verdicts(TRUE)
      <4>1. result.ok = TRUE
        BY <3>1 DEF Result
      <4> QED  BY <2>1, <2>3, <3>1, <4>1
    <3> QED  BY <1>1, <1>3, <3>1 DEF Replied, server
  <2>8. Accounted(e)'
    <3> SUFFICES ASSUME session[e].alive, NEW j \in Jobs, Own(e, j),
                        posted[j].request # NoRequest, j \notin raised
                 PROVE  Cached(e, posted[j].request)'
      BY <1>1, <1>3, <2>3 DEF Accounted, Cached
    <3>1. posted[j].request \in Requests /\ j # NoJob
      BY SessionAssumption DEF Own, Post
    <3>2. CASE call[e].job = j
      <4>1. posted[j].request = call[e].request
        BY <2>0, <3>1, <3>2, CallJob
      <4> QED  BY <1>1, <1>3, <3>1, <4>1 DEF Cached
    <3>3. CASE call[e].job # j
      <4>1. Cached(e, posted[j].request)
        BY <2>0, <3>3 DEF Accounted
      <4> QED  BY <1>1, <1>3, <3>1, <4>1 DEF Cached
    <3> QED  BY <3>2, <3>3
  <2> QED  BY <2>4, <2>5, <2>6, <2>7, <2>8 DEF EpisodeInv
<1>8. Waiting'
  BY <1>1 DEF SessionInv, Waiting, server
<1> QED  BY <1>5, <1>6, <1>7, <1>8 DEF SessionInv

-----------------------------------------------------------------------------
(* The theorems *)

LEMMA InvInit == Init => SessionInv
<1> SUFFICES ASSUME Init PROVE SessionInv
  OBVIOUS
<1>1. /\ line = <<>> /\ \A j \in Jobs : posted[j] = NoPost
      /\ raised = {}
  BY DEF Init, Server!Init
<1>2. \A j \in Jobs : posted[j] \notin Post
  BY <1>1, Constants
<1>3. ASSUME NEW e \in Episodes PROVE EpisodeInv(e)
  <2>1. session[e] = NoSession /\ call[e] = IdleCall /\ reply[e] = NoReply
    BY DEF Init
  <2>2. \A r : ~Cached(e, r)
    BY <2>1, Fresh, Constants DEF Cached
  <2>3. History(e) /\ CacheTrue(e)
    BY <2>1, <2>2, Fresh DEF History, CacheTrue
  <2>4. Calling(e) /\ Replied(e)
    BY <2>1, NoCall, Constants DEF Calling, Replied
  <2>5. Accounted(e)
    BY <2>1, Fresh DEF Accounted
  <2> QED  BY <2>3, <2>4, <2>5 DEF EpisodeInv
<1>4. Waiting /\ Posts /\ RequestRunsOnce
  BY <1>1, <1>2 DEF Waiting, Posts, RequestRunsOnce, SameRequest
<1> QED  BY <1>3, <1>4 DEF SessionInv

LEMMA InvStep == TypeOK /\ SessionInv /\ [Next]_vars => SessionInv'
<1> SUFFICES ASSUME TypeOK, SessionInv, [Next]_vars PROVE SessionInv'
  OBVIOUS
<1>1. ASSUME NEW e \in Episodes, Episode(e) PROVE SessionInv'
  <2>1. CASE Rejected(e) \/ Poll(e) \/ Fetch(e) \/ FetchArtifacts(e) \/ Unreachable(e)
    BY <2>1, RequestEffect, RecordingKeeps, GoingKeeps
  <2> QED
    BY <1>1, <2>1, RenewKeeps, ReleaseKeeps, AnswerKeeps, BeginKeeps, SubmitKeeps,
       BrokenKeeps, UnansweredKeeps DEF Episode, Proceed
<1>2. CASE UNCHANGED vars
  <2>1. Waiting' /\ Posts' /\ RequestRunsOnce'
    BY <1>2 DEF vars, server, SessionInv, Waiting, Posts, RequestRunsOnce, SameRequest
  <2>2. ASSUME NEW e \in Episodes PROVE EpisodeInv(e)'
    BY <1>2, NothingMoves, EpisodeStays DEF vars, SessionInv
  <2> QED  BY <2>1, <2>2 DEF SessionInv
<1> QED  BY <1>1, <1>2, ServeKeeps DEF Next

\* What is on record of every instance, what every call in progress may still
\* record and what every caller was told is true of the worker's jobs.
THEOREM SessionInvariant == Spec => [](TypeOK /\ SessionInv)
<1>1. Init => TypeOK /\ SessionInv
  BY InitType, InvInit
<1>2. (TypeOK /\ SessionInv) /\ [Next]_vars => (TypeOK /\ SessionInv)'
  BY TypeStep, InvStep
<1> QED  BY <1>1, <1>2, PTL DEF Spec

\* Lost and late answers, restarts and calls that are given up leak no verdict
\* into the history of another call, or of another life of the instance.
THEOREM HistoryTrue == Spec => []HistoryIsTrue
<1>1. ASSUME TypeOK, SessionInv PROVE HistoryIsTrue
  <2> SUFFICES ASSUME NEW e \in Episodes
               PROVE  LET s == session[e] IN
                      /\ s.step = Len(s.state)
                      /\ \A i \in 1..Len(s.state) : s.state[i].job # NoJob =>
                           /\ posted[s.state[i].job] # NoPost
                           /\ posted[s.state[i].job].episode = e
                           /\ posted[s.state[i].job].life = life[e]
                           /\ phase[s.state[i].job] \in Verdicts(s.state[i].ok)
                           /\ \A k \in 1..Len(s.state) :
                                s.state[k].job = s.state[i].job => k = i
                      /\ CacheTrue(e)
    BY DEF HistoryIsTrue, CacheTrue
  <2> QED  BY <1>1, Constants DEF SessionInv, EpisodeInv, History, Own
<1> QED  BY <1>1, SessionInvariant, PTL

\* A caller is told ok only of a job its own request created and the worker
\* completed.
THEOREM OkOwn == Spec => []OkIsOwn
<1>1. ASSUME TypeOK, SessionInv PROVE OkIsOwn
  <2> SUFFICES ASSUME NEW e \in Episodes, reply[e].observation.result.ok
               PROVE  LET o == reply[e].observation IN
                      /\ posted[o.result.job] = [episode |-> e, life |-> life[e],
                                                 request |-> reply[e].request]
                      /\ phase[o.result.job] \in Verdicts(TRUE)
    BY DEF OkIsOwn
  <2> DEFINE j == reply[e].observation.result.job
  <2>1. /\ posted[j] \in Post /\ posted[j].episode = e /\ posted[j].life = life[e]
        /\ posted[j].request = reply[e].request /\ phase[j] \in Verdicts(TRUE)
    BY <1>1 DEF SessionInv, EpisodeInv, Replied, Own
  <2>2. \A p \in Post :
          p = [episode |-> p.episode, life |-> p.life, request |-> p.request]
    BY DEF Post
  <2> HIDE DEF j
  <2>3. posted[j] = [episode |-> e, life |-> life[e], request |-> reply[e].request]
    BY <2>1, <2>2
  <2> QED  BY <2>1, <2>3 DEF j
<1> QED  BY <1>1, SessionInvariant, PTL

\* Without an exception a request id runs at most one job.
THEOREM RequestOnce == Spec => []RequestRunsOnce
<1>1. SessionInv => RequestRunsOnce
  BY DEF SessionInv
<1> QED  BY <1>1, SessionInvariant, PTL
=============================================================================

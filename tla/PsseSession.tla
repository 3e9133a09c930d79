---------------------------- MODULE PsseSession ----------------------------
(***************************************************************************)
(* The GPU side of the remote PSS/E bridge: the VERL tool core that keeps  *)
(* the state of an episode, and the HTTP client it calls, against what the *)
(* worker promises (PsseJobs, which PsseWorker implements).                *)
(*                                                                         *)
(* Source: src/Code/gridmind_mini/remote_psse_verl.py (the sessions) and   *)
(* remote_psse.py (run_remote_psse_m1m2 and its requests).                 *)
(*                                                                         *)
(* An episode is a rollout with one tool instance and one call at a time;  *)
(* the episodes share the worker.  Each HTTP request of a call is a step:  *)
(* it is answered from the worker's state, or it fails.  A failure is of   *)
(* one of two kinds, because request_json turns HTTPError and URLError     *)
(* into RemotePsseError and lets any other exception through, such as the  *)
(* TimeoutError of a response that does not come.                          *)
(*                                                                         *)
(* Abstracted: the case, the scenario and the numbers of a result, of      *)
(* which ok and the job id are kept; a state id, which is a digest of the  *)
(* previous one and of the result, is the sequence of results.  "history"  *)
(* is that sequence again and has no variable of its own.                  *)
(***************************************************************************)
EXTENDS Naturals, Sequences

CONSTANTS
  Jobs,        \* job ids of the worker
  NoJob,       \* a result that comes from no job
  Episodes,    \* rollouts
  Requests,    \* values of the request_id argument
  NoRequest,   \* the argument is not given
  PerCall,     \* TRUE: an instance for each call, as verl's agent loop makes it;
               \* FALSE: one for the whole episode
  MaxSteps,    \* bound: recorded calls of one instance
  MaxPolls,    \* max_wait_s, in polls
  MaxLives     \* bound: times an episode's instance is created or reset

ASSUME SessionAssumption ==
  /\ NoJob \notin Jobs
  /\ NoRequest \notin Requests
  /\ PerCall \in BOOLEAN
  /\ MaxSteps \in Nat /\ MaxPolls \in Nat /\ MaxLives \in Nat

VARIABLES
  phase, line, \* the worker (PsseJobs)
  posted,      \* history: which call's POST created each job
  raised,      \* history: the jobs whose call ended in an exception
  session,     \* _instances: what the core keeps for an episode
  life,        \* how often the episode's instance was created or reset
  call,        \* the call of run_remote_psse_m1m2 in progress
  reply,       \* what the last call of the episode's instance came to
  known        \* the state id last given to the caller by a result or a reset

server == <<phase, line>>
vars == <<server, posted, raised, session, life, call, reply, known>>

Server == INSTANCE PsseJobs

-----------------------------------------------------------------------------
(* Values *)

Result == [ok : BOOLEAN, job : Jobs \cup {NoJob}]

\* _remote_error_result
RemoteError == [ok |-> FALSE, job |-> NoJob]

State == Seq(Result)
Observation == [result : Result, state : State, step : Nat]
NoObservation == [result |-> RemoteError, state |-> <<>>, step |-> 0]

NewSession == [alive |-> TRUE, state |-> <<>>, step |-> 0,
               requests |-> [r \in Requests |-> NoObservation]]
NoSession == [NewSession EXCEPT !.alive = FALSE]
Session == [alive : BOOLEAN, state : State, step : Nat,
            requests : [Requests -> Observation]]

\* An observation always has a state other than "initial".
Cached(e, r) == r \in Requests /\ session[e].requests[r].state # <<>>

IdleCall == [pc |-> "idle", request |-> NoRequest, job |-> NoJob, polls |-> 0,
             result |-> RemoteError]
Call == [pc : {"idle", "post", "poll", "fetch", "artifacts"},
         request : Requests \cup {NoRequest}, job : Jobs \cup {NoJob}, polls : 0..MaxPolls,
         result : Result]

NoReply == [kind |-> "none", request |-> NoRequest, observation |-> NoObservation]
Reply == [kind : {"none", "result", "duplicate", "refused", "raised"},
          request : Requests \cup {NoRequest}, observation : Observation]

NoPost == [episode |-> "none"]
Post == [episode : Episodes, life : Nat, request : Requests \cup {NoRequest}]

TypeOK ==
  /\ phase \in [Jobs -> Server!Phases]
  /\ line \in Seq(Jobs)
  /\ posted \in [Jobs -> Post \cup {NoPost}]
  /\ raised \subseteq Jobs
  /\ session \in [Episodes -> Session]
  /\ life \in [Episodes -> 0..MaxLives]
  /\ call \in [Episodes -> Call]
  /\ reply \in [Episodes -> Reply]
  /\ known \in [Episodes -> State]

Init ==
  /\ Server!Init
  /\ posted = [j \in Jobs |-> NoPost]
  /\ raised = {}
  /\ session = [e \in Episodes |-> NoSession]
  /\ life = [e \in Episodes |-> 0]
  /\ call = [e \in Episodes |-> IdleCall]
  /\ reply = [e \in Episodes |-> NoReply]
  /\ known = [e \in Episodes |-> <<>>]

-----------------------------------------------------------------------------
(* The tool core: create, reset, release, and execute up to the runner *)

Idle(e) == call[e].pc = "idle"

\* The instance may be used: verl's agent loop calls an instance once.
Usable(e) ==
  /\ Idle(e)
  /\ session[e].alive
  /\ PerCall => reply[e].kind = "none"

Renew(e) ==
  /\ life[e] < MaxLives
  /\ life' = [life EXCEPT ![e] = @ + 1]
  /\ session' = [session EXCEPT ![e] = NewSession]
  /\ reply' = [reply EXCEPT ![e] = NoReply]

\* create says nothing of a state: a caller between two calls of one episode
\* still knows what its last result said.
Create(e) ==
  /\ Idle(e)
  /\ PerCall => ~session[e].alive
  /\ Renew(e)
  /\ known' = IF PerCall THEN known ELSE [known EXCEPT ![e] = <<>>]
  /\ UNCHANGED <<server, posted, raised, call>>

\* Mutant of Reset: the cached observations survive it.
ResetKeepsRequests(e) ==
  /\ ~PerCall
  /\ Idle(e)
  /\ session[e].alive
  /\ life[e] < MaxLives
  /\ life' = [life EXCEPT ![e] = @ + 1]
  /\ session' = [session EXCEPT ![e] =
                   [NewSession EXCEPT !.requests = session[e].requests]]
  /\ reply' = [reply EXCEPT ![e] = NoReply]
  /\ known' = [known EXCEPT ![e] = <<>>]
  /\ UNCHANGED <<server, posted, raised, call>>

\* reset answers with the state id "initial".
Reset(e) ==
  /\ ~PerCall
  /\ Idle(e)
  /\ session[e].alive
  /\ Renew(e)
  /\ known' = [known EXCEPT ![e] = <<>>]
  /\ UNCHANGED <<server, posted, raised, call>>

Release(e) ==
  /\ Idle(e)
  /\ session[e].alive
  /\ PerCall => reply[e].kind # "none"
  /\ session' = [session EXCEPT ![e] = NoSession]
  /\ UNCHANGED <<server, posted, raised, life, call, reply, known>>

Answer(e, kind, request, observation) ==
  reply' = [reply EXCEPT ![e] =
              [kind |-> kind, request |-> request, observation |-> observation]]

\* Of what a caller may carry as expected_state_id and step_index, two are told
\* apart: the state it knows and the initial one.
Stale(e, expected) ==
  \/ expected # session[e].state
  \/ Len(expected) # session[e].step

\* missing_tool_instance, stale_state, stale_step_index: nothing changes.
Refuse(e) ==
  /\ Idle(e)
  /\ \/ ~PerCall /\ ~session[e].alive
     \/ /\ Usable(e)
        /\ \E r \in Requests \cup {NoRequest}, expected \in {<<>>, known[e]} :
             ~Cached(e, r) /\ Stale(e, expected)
  /\ Answer(e, "refused", NoRequest, NoObservation)
  /\ UNCHANGED <<server, posted, raised, session, life, call, known>>

\* A request id that was answered is answered again from the cache, before the
\* expected state and step are looked at.
Replay(e) ==
  /\ Usable(e)
  /\ \E r \in Requests :
       Cached(e, r) /\ Answer(e, "duplicate", r, session[e].requests[r])
  /\ UNCHANGED <<server, posted, raised, session, life, call, known>>

\* The runner is called: with a fresh request id or none, and an expected state
\* that is not given or not stale.
Begin(e) ==
  /\ Usable(e)
  /\ Len(session[e].state) < MaxSteps
  /\ \E r \in Requests \cup {NoRequest}, guarded \in BOOLEAN :
       /\ ~Cached(e, r)
       /\ guarded => ~Stale(e, known[e])
       /\ call' = [call EXCEPT ![e] = [IdleCall EXCEPT !.pc = "post", !.request = r]]
  /\ UNCHANGED <<server, posted, raised, session, life, reply, known>>

\* Mutant of Record: only a result that is ok is cached.
RecordCachesOk(e, result) ==
  LET observation == [result |-> result, step |-> session[e].step,
                      state |-> Append(session[e].state, result)]
  IN
  /\ session' = [session EXCEPT
       ![e].state = observation.state,
       ![e].step = @ + 1,
       ![e].requests = [r \in Requests |->
          IF r = call[e].request /\ result.ok THEN observation ELSE @[r]]]
  /\ Answer(e, "result", call[e].request, observation)
  /\ known' = [known EXCEPT ![e] = observation.state]
  /\ call' = [call EXCEPT ![e] = IdleCall]

\* The runner returned: the observation is built, recorded and returned.
Record(e, result) ==
  LET observation == [result |-> result, step |-> session[e].step,
                      state |-> Append(session[e].state, result)]
  IN
  /\ session' = [session EXCEPT
       ![e].state = observation.state,
       ![e].step = @ + 1,
       ![e].requests = [r \in Requests |->
          IF r = call[e].request THEN observation ELSE @[r]]]
  /\ Answer(e, "result", call[e].request, observation)
  /\ known' = [known EXCEPT ![e] = observation.state]
  /\ call' = [call EXCEPT ![e] = IdleCall]

\* The runner raised: execute records nothing.
Escape(e) ==
  /\ Answer(e, "raised", call[e].request, NoObservation)
  /\ call' = [call EXCEPT ![e] = IdleCall]
  /\ UNCHANGED <<session, known>>

-----------------------------------------------------------------------------
(* run_remote_psse_m1m2: its HTTP requests *)

\* The worker accepts the POST.
Accepted(e, j) ==
  /\ call[e].pc = "post"
  /\ Server!Accept(j)
  /\ posted' = [posted EXCEPT ![j] =
       [episode |-> e, life |-> life[e], request |-> call[e].request]]

Submit(e) ==
  \E j \in Jobs :
    /\ Accepted(e, j)
    /\ call' = [call EXCEPT ![e].pc = "poll", ![e].job = j]
    /\ UNCHANGED <<raised, session, life, reply, known>>

\* The request is not valid, or the worker refuses it.
Rejected(e) ==
  /\ call[e].pc = "post"
  /\ Record(e, RemoteError)
  /\ UNCHANGED <<server, posted, raised, life>>

\* Mutant of Poll: no deadline.
PollForever(e) ==
  /\ call[e].pc = "poll"
  /\ \/ /\ phase[call[e].job] \in Server!Finished
        /\ call' = [call EXCEPT ![e].pc = "fetch"]
        /\ UNCHANGED <<session, reply, known>>
     \/ /\ phase[call[e].job] = "lost"
        /\ Record(e, RemoteError)
  /\ UNCHANGED <<server, posted, raised, life>>

\* wait_for_remote_job: a finished job ends the wait; an unfinished one is asked
\* for again unless the deadline has passed, which the time a request takes may
\* bring at any poll; a forgotten one is answered 404.
Poll(e) ==
  /\ call[e].pc = "poll"
  /\ \/ /\ phase[call[e].job] \in Server!Finished
        /\ call' = [call EXCEPT ![e].pc = "fetch"]
        /\ UNCHANGED <<session, reply, known>>
     \/ /\ phase[call[e].job] \in {"queued", "running"}
        /\ call[e].polls < MaxPolls
        /\ call' = [call EXCEPT ![e].polls = @ + 1]
        /\ UNCHANGED <<session, reply, known>>
     \/ /\ phase[call[e].job] \notin Server!Finished
        /\ Record(e, RemoteError)
  /\ UNCHANGED <<server, posted, raised, life>>

\* Mutant of Fetch: a job that is over is taken for a success.
FetchTrusts(e) ==
  /\ call[e].pc = "fetch"
  /\ Record(e, IF phase[call[e].job] = "lost" THEN RemoteError
               ELSE [ok |-> TRUE, job |-> call[e].job])
  /\ UNCHANGED <<server, posted, raised, life>>

\* GET result: the verdict of the job, unless a restart has made it unknown;
\* the artifact manifest, if the caller wants it, is a request of its own.
Fetch(e) ==
  LET result == [ok |-> phase[call[e].job] = "completed", job |-> call[e].job]
  IN
  /\ call[e].pc = "fetch"
  /\ IF phase[call[e].job] = "lost" THEN Record(e, RemoteError)
     ELSE \/ Record(e, result)
          \/ /\ call' = [call EXCEPT ![e].pc = "artifacts", ![e].result = result]
             /\ UNCHANGED <<session, reply, known>>
  /\ UNCHANGED <<server, posted, raised, life>>

\* A RemotePsseError of this request is caught and does not touch the result.
FetchArtifacts(e) ==
  /\ call[e].pc = "artifacts"
  /\ Record(e, call[e].result)
  /\ UNCHANGED <<server, posted, raised, life>>

\* HTTPError or URLError: RemotePsseError, and an error result.
Unreachable(e) ==
  /\ call[e].pc \in {"post", "poll", "fetch"}
  /\ Record(e, RemoteError)
  /\ UNCHANGED <<server, posted, raised, life>>

\* Any other exception; the worker may have accepted the job (Unanswered).
Broken(e) ==
  /\ ~Idle(e)
  /\ Escape(e)
  /\ raised' = raised \cup ({call[e].job} \ {NoJob})
  /\ UNCHANGED <<server, posted, life>>

Unanswered(e) ==
  \E j \in Jobs :
    /\ Accepted(e, j)
    /\ Escape(e)
    /\ raised' = raised \cup {j}
    /\ UNCHANGED life

-----------------------------------------------------------------------------
Serve ==
  /\ \/ Server!Start
     \/ \E j \in Jobs : Server!Finish(j)
     \/ Server!Restart
  /\ UNCHANGED <<posted, raised, session, life, call, reply, known>>

\* The steps of a call whose requests are answered.
Proceed(e) == Submit(e) \/ Rejected(e) \/ Poll(e) \/ Fetch(e) \/ FetchArtifacts(e)

Episode(e) ==
  \/ Create(e) \/ Reset(e) \/ Release(e)
  \/ Refuse(e) \/ Replay(e) \/ Begin(e)
  \/ Proceed(e)
  \/ Unreachable(e) \/ Broken(e) \/ Unanswered(e)

Next == Serve \/ \E e \in Episodes : Episode(e)

\* A call in progress goes on.  Nothing is asked of the worker, which may be
\* stopped, or alive without its thread, and nothing is asked of the callers.
Fairness == \A e \in Episodes : WF_vars(Proceed(e))

Spec == Init /\ [][Next]_vars
FairSpec == Spec /\ Fairness

-----------------------------------------------------------------------------
(* Properties *)

\* The history of an instance is true.  Each step of it is a result of this
\* instance's own call since the last create or reset: the job was posted by
\* it, no job is there twice, and the verdict is the one the worker gave; and a
\* cached observation is the step of the history that its request id ran.
\* (Lost and late answers, restarts, and calls given up while their job goes on
\* must not leak a verdict into another call.)
Verdicts(ok) == IF ok THEN {"completed", "lost"} ELSE {"error", "lost"}

HistoryIsTrue ==
  \A e \in Episodes :
    LET s == session[e] IN
    /\ s.step = Len(s.state)
    /\ \A i \in 1..Len(s.state) : s.state[i].job # NoJob =>
         /\ posted[s.state[i].job] # NoPost
         /\ posted[s.state[i].job].episode = e
         /\ posted[s.state[i].job].life = life[e]
         /\ phase[s.state[i].job] \in Verdicts(s.state[i].ok)
         /\ \A k \in 1..Len(s.state) : s.state[k].job = s.state[i].job => k = i
    /\ \A r \in Requests : Cached(e, r) =>
         LET o == s.requests[r] IN
         /\ o.step < s.step
         /\ o.state = SubSeq(s.state, 1, o.step + 1)
         /\ o.result = s.state[o.step + 1]
         /\ o.result.job # NoJob => posted[o.result.job].request = r

\* A caller that is told ok is told so of a job that its own request created
\* since the last create or reset, and that the worker completed; the tool's
\* reward is paid for nothing else.
OkIsOwn ==
  \A e \in Episodes :
    LET o == reply[e].observation IN
    o.result.ok => /\ posted[o.result.job] = [episode |-> e, life |-> life[e],
                                              request |-> reply[e].request]
                   /\ phase[o.result.job] \in Verdicts(TRUE)

\* A request id runs at most one PSS/E job on an instance, apart from calls that
\* ended in an exception: errors are cached like results, so a retry with the
\* same id does not run the job again.
SameRequest(j, k) ==
  /\ j # k
  /\ posted[j] # NoPost
  /\ posted[j] = posted[k]
  /\ posted[j].request # NoRequest

RequestRunsOnce ==
  \A j, k \in Jobs : SameRequest(j, k) => j \in raised \/ k \in raised

\* Every call ends, whatever the worker does.
CallEnds == \A e \in Episodes : ~Idle(e) ~> Idle(e)

\* What the tool's schema says of request_id, "tracing/idempotency in the
\* GPU-side gym": a request id runs one job, also when a call failed.
RequestIsIdempotent == \A j, k \in Jobs : ~SameRequest(j, k)
=============================================================================

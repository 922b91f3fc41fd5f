------------------------------- MODULE Inference -------------------------------
(***************************************************************************)
(* DecisionEngine with the model behind it: a server reached over HTTP     *)
(* (llm/ollama_client.py, llm/openai_compat_client.py) or a model in this  *)
(* process (llm/llama_cpp_client.py), whose chat_json hands each call to a *)
(* thread of asyncio's default pool.  When a timer cancels the call, a     *)
(* request is closed and a job still queued is dropped, but a job that     *)
(* runs keeps its thread, and with it perhaps the lock of the model:       *)
(* nobody waits for it any more.                                           *)
(*                                                                         *)
(* The model is built on first use, outside the lock.  aclose() is reached *)
(* by no engine that main.py builds (FallbackDecisionEngine has none).     *)
(***************************************************************************)
EXTENDS DecisionEngine, FiniteSets

CONSTANTS
  Clients,  \* the clients that AUV_LLM_PROVIDER can choose
  Workers,  \* the threads of the default executor
  NoWorker  \* none of them

ASSUME InferenceAssumption ==
  /\ Clients \subseteq {"ollama", "openai_compat", "llama_cpp"}
  /\ IsFiniteSet(Workers) /\ Workers # {} /\ NoWorker \notin Workers

NoModel == 0

VARIABLES
  client,  \* a member of Clients; never changes
  queued,  \* the call of the engine waits for the server, or for a thread
  owner,   \* the thread that runs the call of the engine
  answer,  \* how that thread ended, until the event loop hears of it
  at,      \* the line of _chat_json_blocking each thread has reached
  llama,   \* _llama
  built,   \* how many models were constructed
  held,    \* the model each thread has in its local variable
  lock     \* the thread that holds _lock

poolVars == <<client, queued, owner, answer>>
modelVars == <<at, llama, built, held, lock>>
allVars == <<vars, poolVars, modelVars>>

Places == {"idle", "find", "build", "return", "lock", "infer"}

InferenceInit ==
  /\ Init
  /\ client \in Clients
  /\ queued = FALSE /\ owner = NoWorker /\ answer = "none"
  /\ at = [w \in Workers |-> "idle"]
  /\ llama = NoModel /\ built = 0
  /\ held = [w \in Workers |-> NoModel]
  /\ lock = NoWorker

-----------------------------------------------------------------------------
(***************************************************************************)
(* The event loop.  A decision, and each further tool round, is a call of  *)
(* chat_json: queued' says whether the step makes one.                     *)
(***************************************************************************)
Ask ==
  /\ Decide
  /\ queued' = (phase' = "chat")
  /\ UNCHANGED <<client, owner, answer, modelVars>>

Hear ==
  /\ \/ /\ answer = "text"
        /\ \E reply \in Replies : Reply(reply)
     \/ /\ answer = "raised"
        /\ ChatError
  /\ answer' = "none"
  /\ queued' = (phase' = "chat")
  /\ UNCHANGED <<client, owner, modelVars>>

AbandonKeepsOwner ==
  /\ queued' = FALSE
  /\ answer' = "none"
  /\ UNCHANGED owner
Abandon ==
  /\ queued' = FALSE
  /\ answer' = "none"
  /\ owner' = NoWorker

GiveUp ==
  /\ EngineTimesOut \/ LoopTimesOut
  /\ Abandon
  /\ UNCHANGED <<client, modelVars>>

Passes ==
  /\ Clock
  /\ UNCHANGED <<poolVars, modelVars>>

\* One POST: its content, or an exception for a timeout of the client's own, a
\* status, or an answer without a text.
ServerAnswers ==
  /\ queued
  /\ queued' = FALSE
  /\ answer' \in {"text", "raised"}
  /\ UNCHANGED <<client, owner, modelVars, vars>>

OllamaAnswers == client = "ollama" /\ ServerAnswers
OpenAiAnswers == client = "openai_compat" /\ ServerAnswers

-----------------------------------------------------------------------------
(***************************************************************************)
(* The threads                                                             *)
(***************************************************************************)
Goto(w, place) == at' = [at EXCEPT ![w] = place]

\* The thread is done; the event loop is told if it still waits for this one.
End(w, how) ==
  /\ Goto(w, "idle")
  /\ held' = [held EXCEPT ![w] = NoModel]
  /\ IF owner = w
     THEN owner' = NoWorker /\ answer' = how
     ELSE UNCHANGED <<owner, answer>>

Start(w) ==
  /\ client = "llama_cpp"
  /\ queued /\ at[w] = "idle"
  /\ Goto(w, "find")
  /\ queued' = FALSE
  /\ owner' = w
  /\ UNCHANGED <<client, answer, llama, built, held, lock>>

\* _get_llama: the model that is there, or else a new one.
FindModel(w) ==
  /\ at[w] = "find"
  /\ \/ /\ llama # NoModel
        /\ held' = [held EXCEPT ![w] = llama]
        /\ Goto(w, "lock")
     \/ /\ llama = NoModel
        /\ Goto(w, "build")
        /\ UNCHANGED held
  /\ UNCHANGED <<poolVars, llama, built, lock>>

BuildForgets(w) ==
  /\ at[w] = "build"
  /\ built' = built + 1
  /\ held' = [held EXCEPT ![w] = built']
  /\ Goto(w, "lock")
  /\ UNCHANGED <<poolVars, llama, lock>>
Build(w) ==
  /\ at[w] = "build"
  /\ built' = built + 1
  /\ llama' = built'
  /\ Goto(w, "return")
  /\ UNCHANGED <<poolVars, held, lock>>

BuildFails(w) ==
  /\ at[w] = "build"
  /\ End(w, "raised")
  /\ UNCHANGED <<client, queued, llama, built, lock>>

\* The attribute is read again, and by now may be another thread's model.
ReturnModel(w) ==
  /\ at[w] = "return"
  /\ held' = [held EXCEPT ![w] = llama]
  /\ Goto(w, "lock")
  /\ UNCHANGED <<poolVars, llama, built, lock>>

Acquire(w) ==
  /\ at[w] = "lock" /\ lock = NoWorker
  /\ lock' = w
  /\ Goto(w, "infer")
  /\ UNCHANGED <<poolVars, llama, built, held>>

\* The inference ends, with a text or with an exception.
Infer(w) ==
  /\ at[w] = "infer"
  /\ lock' = NoWorker
  /\ \E how \in {"text", "raised"} : End(w, how)
  /\ UNCHANGED <<client, queued, llama, built>>

Thread(w) ==
  /\ \/ Start(w)
     \/ FindModel(w) \/ Build(w) \/ BuildFails(w) \/ ReturnModel(w)
     \/ Acquire(w) \/ Infer(w)
  /\ UNCHANGED vars

InferenceNext ==
  \/ Ask \/ Hear \/ GiveUp \/ Passes
  \/ OllamaAnswers \/ OpenAiAnswers
  \/ \E w \in Workers : Thread(w)

InferenceSpec == InferenceInit /\ [][InferenceNext]_allVars

(***************************************************************************)
(* Fairness.  Time passes, the event loop fires timers that are due and    *)
(* hears of an answer, and the agent loop keeps asking for decisions.  The *)
(* HTTP clients have a timeout of their own for every wait.  The threads   *)
(* have none: they are assumed to get on only while no timer is set, when  *)
(* no call is ever abandoned and nothing else ends a decision.             *)
(***************************************************************************)
InferenceFairSpec ==
  /\ InferenceSpec
  /\ WF_allVars(Passes)
  /\ WF_allVars(GiveUp)
  /\ WF_allVars(Ask)
  /\ WF_allVars(Hear)
  /\ WF_allVars(OllamaAnswers \/ OpenAiAnswers)
  /\ WF_allVars(Untimed /\ \E w \in Workers : Thread(w))

-----------------------------------------------------------------------------
(***************************************************************************)
(* Properties                                                              *)
(***************************************************************************)

\* While the engine awaits its model, exactly one of three holds: the call is
\* sent or queued, a thread runs it, or its answer is there; otherwise none does.  So the
\* late answer of a call that timed out is never taken for that of a later one.
CallHasOneOwner ==
  LET pending == {p \in {"queued", "owned", "answered"} :
                    \/ p = "queued"   /\ queued
                    \/ p = "owned"    /\ owner # NoWorker
                    \/ p = "answered" /\ answer # "none"}
  IN  /\ Cardinality(pending) = (IF phase = "chat" THEN 1 ELSE 0)
      /\ owner # NoWorker => at[owner] # "idle"

\* The construction is outside the lock, so calls that time out while it lasts
\* start others.  There are never more models than threads, and a thread that
\* has a model in hand has one that was built.
ModelsBounded ==
  /\ built <= Cardinality(Workers)
  /\ \A w \in Workers : at[w] \in {"lock", "infer"} => held[w] \in 1 .. built

-----------------------------------------------------------------------------
\* The call is in one place at a time, and a thread that owns it is at work.
CallInv ==
  /\ at \in [Workers -> Places]
  /\ owner \in Workers \cup {NoWorker}
  /\ queued \in BOOLEAN
  /\ queued => owner = NoWorker /\ answer = "none"
  /\ owner # NoWorker => answer = "none" /\ at[owner] # "idle"
  /\ phase = "chat" <=> queued \/ owner # NoWorker \/ answer # "none"

\* A thread builds only as long as there is no model, so the first one bounds the
\* threads that can still be building, and each of these builds one.
Building == {w \in Workers : at[w] = "build"}

ModelInv ==
  /\ at \in [Workers -> Places]
  /\ held \in [Workers -> 0 .. built]
  /\ built \in Nat /\ llama \in 0 .. built
  /\ llama = NoModel => built = 0
  /\ \A w \in Workers : at[w] = "return" => llama # NoModel
  /\ \A w \in Workers : at[w] \in {"lock", "infer"} => held[w] # NoModel
  /\ built + Cardinality(Building) <= Cardinality(Workers)

=============================================================================

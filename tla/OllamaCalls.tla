------------------------------ MODULE OllamaCalls ------------------------------
(***************************************************************************)
(* Requests to the local model server (ollama.py, llm/router.py).  A       *)
(* request waits for a permit of a semaphore, which it keeps through its   *)
(* own retries and pauses.  Semaphores are found by address and maximum,   *)
(* so settings with different maxima have semaphores of their own.  Three  *)
(* kinds of calls end up here: plain ones (warm-up, embeddings, discovery),*)
(* helpers of the document studio, and reviews, which the router tries     *)
(* several times.                                                          *)
(***************************************************************************)
EXTENDS PanelThreads

CONSTANTS
  Settings,     \* distinct (base_url, max_concurrency)
  Maximum,      \* max_concurrency of each
  PostRetries,  \* max_retries of the client
  Attempts      \* attempts of the router at one request: max_retries and one

ASSUME SettingsOK ==
  /\ DOMAIN Maximum = Settings /\ \A s \in Settings : Maximum[s] \in Nat \ {0}
  /\ PostRetries \in Nat /\ Attempts \in Nat \ {0}

VARIABLE permits   \* threads that hold a permit, by settings

Asking == {"ask", "post"}
OllamaInit == permits = [s \in Settings |-> {}]

\* temperature, format and size of a prompt do not matter here.
StartChat(t) ==
  /\ \E s \in Settings : Begin(t, [op |-> "chat", at |-> "ask", settings |-> s, left |-> 0, posts |-> 0])
  /\ UNCHANGED permits

\* JobAnalyzer.analyze: the deterministic score first, then the router.
StartReview(t) ==
  /\ \E s \in Settings : Begin(t, [op |-> "review", at |-> "ask", settings |-> s, left |-> Attempts - 1,
                                      posts |-> 0])
  /\ UNCHANGED permits

TakePermit(t) ==
  /\ call[t].at = "ask"
  /\ Cardinality(permits[call[t].settings]) < Maximum[call[t].settings]
  /\ permits' = [permits EXCEPT ![call[t].settings] = @ \cup {t}]
  /\ Become(t, [call[t] EXCEPT !.at = "post", !.posts = 0])

\* A transient error or a status of 500 and more is tried again after a pause.
PostAgain(t) ==
  /\ call[t].at = "post" /\ call[t].posts < PostRetries
  /\ Become(t, [call[t] EXCEPT !.posts = @ + 1])
  /\ UNCHANGED permits

\* Mutant: a request that raises keeps its permit.
KeepOnError(t, good) == IF good THEN [permits EXCEPT ![call[t].settings] = @ \ {t}] ELSE permits

\* The permit is given back however the request ends.
Released(t, good) == [permits EXCEPT ![call[t].settings] = @ \ {t}]

\* A helper goes on to its file, a refresh of the index to its index.
GoesOn(t) == call[t].op \in {"studio", "index"}

\* LLMRouter.generate: a review that raises, or whose answer does not validate, is
\* tried again after a pause.  There is one candidate, as the configuration allows
\* no fallback, and without a cost no attempt is refused for its cost.
TriesAgain(t) == call[t].left > 0

\* The request ends well or raises.  Without a good review the deterministic score
\* stands.
PostEnds(t) ==
  /\ call[t].at = "post"
  /\ \E good \in BOOLEAN :
       /\ permits' = Released(t, good)
       /\ CASE good /\ GoesOn(t) -> Become(t, [call[t] EXCEPT !.at = "answered", !.posts = 0])
            [] ~good /\ TriesAgain(t) -> Become(t, [call[t] EXCEPT !.at = "ask", !.left = @ - 1])
            [] OTHER -> End(t)

OllamaStep(t) ==
  \/ StartChat(t) \/ StartReview(t) \/ TakePermit(t) \/ PostAgain(t) \/ PostEnds(t)

--------------------------------------------------------------------------------
\* A permit is held exactly by the requests under way, never more than the
\* maximum of their settings: no error, retry, fallback or crash loses one, which
\* would end the use of the model for good.
PermitsHeld ==
  \A s \in Settings :
    /\ permits[s] = {t \in Thread : call[t].at = "post" /\ call[t].settings = s}
    /\ Cardinality(permits[s]) <= Maximum[s]
================================================================================

---------------------------------- MODULE Panel ----------------------------------
(***************************************************************************)
(* The process of the web panel: threads serve calls of every component    *)
(* below in any interleaving, and the process may be killed between any    *)
(* two steps.  The components share threads; documents need the active     *)
(* resume; the document studio needs permits of the model.  What is in     *)
(* memory (calls, locks, permits, the times of slots) goes with a crash,   *)
(* what is in the database and on disk stays.                              *)
(***************************************************************************)
EXTENDS GeneratedDocuments, ApplicationPipeline, SemanticMemory, OllamaCalls, HttpClient

CONSTANT MaxCrashes   \* bound on crashes

ASSUME BridgeAsks == BridgeSettings \in Settings
ASSUME CrashesBounded == MaxCrashes \in Nat

VARIABLE crashes

vars == <<threads, resumeVars, docVars, pipelineVars, inboxVars, memoryVars, permits, httpVars, crashes>>

Init ==
  /\ ThreadsInit /\ ResumesInit /\ DocsInit /\ PipelineInit /\ InboxInit /\ MemoryInit
  /\ OllamaInit /\ HttpInit
  /\ crashes = 0
  /\ "resumes" \notin work.parts => DOMAIN resumes = {}   \* where they play no part

Resumes ==
  /\ "resumes" \in work.parts
  /\ \E t \in Thread : ResumeStep(t)
  /\ UNCHANGED <<docVars, pipelineVars, inboxVars, memoryVars, permits, httpVars, crashes>>
Documents ==
  /\ "documents" \in work.parts
  /\ \E t \in Thread : DocumentStep(t) \/ \E s \in Settings : StartStudio(t, s)
  /\ UNCHANGED <<resumeVars, pipelineVars, inboxVars, memoryVars, permits, httpVars, crashes>>
Applications ==
  /\ "applications" \in work.parts
  /\ \E t \in Thread : PipelineStep(t)
  /\ UNCHANGED <<resumeVars, docVars, inboxVars, memoryVars, permits, httpVars, crashes>>
Research ==
  /\ "research" \in work.parts
  /\ (\E t \in Thread : InboxStep(t)) \/ \E b \in Batch : Drop(b)
  /\ UNCHANGED <<resumeVars, docVars, pipelineVars, memoryVars, permits, httpVars, crashes>>
Memory ==
  /\ "memory" \in work.parts
  /\ \E t \in Thread : MemoryStep(t)
  /\ UNCHANGED <<resumeVars, docVars, pipelineVars, inboxVars, permits, httpVars, crashes>>
Ollama ==
  /\ "model" \in work.parts
  /\ \E t \in Thread : OllamaStep(t)
  /\ UNCHANGED <<resumeVars, docVars, pipelineVars, inboxVars, memoryVars, httpVars, crashes>>
Web ==
  /\ "web" \in work.parts
  /\ (\E t \in Thread : HttpStep(t)) \/ Tick \/ \E h \in Host : Renumber(h)
  /\ UNCHANGED <<resumeVars, docVars, pipelineVars, inboxVars, memoryVars, permits, crashes>>

Crash ==
  /\ crashes < MaxCrashes /\ crashes' = crashes + 1
  /\ call' = [t \in Thread |-> Idle]
  /\ shared' = shared \cup UNION {BrokenOff(call[t]) : t \in Thread}
  /\ torn' = (torn \/ \E t \in Thread : TornOff(call[t]))
  /\ permits' = [s \in Settings |-> {}]
  /\ slot' = [h \in Host |-> {}] /\ last' = [h \in {} |-> 0]
  /\ published' = FALSE /\ moved' = {}
  /\ UNCHANGED <<work, served, resumeVars, docs, disk, manifests, pipelineVars, inboxVars,
                 answers, lost, given, disposition, files, index, meta, indexed, clock, cached, early, public, moves>>

Next == Resumes \/ Documents \/ Applications \/ Research \/ Memory \/ Ollama \/ Web \/ Crash

Spec == Init /\ [][Next]_vars

--------------------------------------------------------------------------------
TypeOK ==
  /\ work \in Workload /\ served \in 0..work.calls /\ crashes \in 0..MaxCrashes
  /\ \A t \in Thread : call[t] = Idle \/ call[t].op # "none"
  /\ ResumesOK /\ DocumentsOK /\ PipelineOK /\ InboxOK /\ MemoryOK /\ HttpOK
================================================================================

---------------------------- MODULE MCDraftWorker ----------------------------
(***************************************************************************)
(* The draft side: in each behaviour one of the sequential algorithms of   *)
(* MCVerifyTorch, or the draft worker under a client that calls its public *)
(* methods in any order: any request, any context, collecting answers or   *)
(* not, stop at any time, a SHUTDOWN in the queue.                         *)
(***************************************************************************)
EXTENDS MCVerifyTorch, DraftWorker

CONSTANTS
    MaxQueue,   \* bound: requests and answers the client lets pile up
    Requests    \* the requests it may submit

benchVars == <<vars, draftVars, subject>>
allVars == <<benchVars, workerVars>>

MCFanOut == <<2, 1>>
MCSeqId == 0..1
MCDraftModel == [t \in Token |-> [i \in 1..K |-> (t + i) % VocabSize]]

(* One prompt: which one a draft copies is the engine's affair. *)
MCContext == {"prompt"}
MCPrompt == <<1, 0, 1, 2>>
MCSpanDraft == [s \in MCContext |-> [c \in MCContext |->
                  SpanTokens(CHOOSE w \in BestSpans(MCPrompt, K) : TRUE)]]

(* Two branches of sequence 0 that the rebuild caches (in two levels), a   *)
(* miss of another sequence, and the two other commands.                   *)
MCRequests ==
    {[command |-> c, key |-> [seq |-> s, acc |-> a, recovery |-> t]] :
        <<c, s, a, t>> \in {<<"SERVE", 0, 0, 1>>, <<"SERVE", 0, 1, 0>>, <<"SERVE", 1, 0, 1>>,
                            <<"PREFILL", 1, 0, 0>>, <<"SHUTDOWN", 0, 0, 0>>}}

BoundedSubmit ==
    /\ Len(reqQ) + Len(respQ) < MaxQueue
    /\ \E r \in Requests : ClientSubmits(r)

BoundedClient ==
    \/ BoundedSubmit \/ ClientReceives \/ ClientStops
    \/ \E c \in Context : ClientSetsContext(c)

DraftSideInit ==
    \/ BenchInit /\ mode = "ssd" /\ WorkerInit(FALSE)
    \/ subject = "worker" /\ BenchRest /\ mode \in AsyncMode /\ WorkerInit(TRUE)

DraftSideNext ==
    \/ BenchNext /\ UNCHANGED workerVars
    \/ subject = "worker" /\ UNCHANGED benchVars /\ (ThreadStep \/ ModelRaises \/ BoundedClient)

DraftSideSpec ==
    /\ DraftSideInit /\ [][DraftSideNext]_allVars
    /\ WF_allVars(subject = "worker" /\ UNCHANGED benchVars /\ ThreadStep)
=============================================================================

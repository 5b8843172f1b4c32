---------------------------- MODULE MCLiveQuery -----------------------------
(* The live queries of one connection, against LiveQueryClient or against   *)
(* some other peer, which sends any requests in any order ("other").        *)
EXTENDS LiveQueryClient

(* `current' is not read before the first request.                          *)
MCInit == /\ \/ ClientInit
             \/ /\ Init
                /\ caller = "other" /\ thread = "none" /\ fStop = FALSE /\ down = FALSE
                /\ received = 0 /\ view = {} /\ changedSince = {}
          /\ current.q = fQueryId

(* The ids are interchangeable: the first request of another peer has this one. *)
FirstIsThis == (asked = 0 /\ asked' = 1) => inbox'[1].q = fQueryId

MCNext == \/ caller # "other" /\ ClientNext
          \/ caller = "other" /\ Next /\ FirstIsThis /\ UNCHANGED clientVars

ReaderSteps == Reader /\ UNCHANGED clientVars
LooperSteps == Looper /\ UNCHANGED clientVars
MCSpec ==
  /\ MCInit /\ [][MCNext]_allVars
  /\ WF_allVars(ReaderSteps) /\ WF_allVars(LooperSteps)
  /\ WF_allVars(caller # "other" /\ Client) /\ WF_allVars(caller # "other" /\ ServerSteps)
=============================================================================

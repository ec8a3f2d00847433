------------------------------- MODULE MCRunners -------------------------------
(***************************************************************************)
(* The runners with control flow, one at a time: mldivide, the probe for   *)
(* triangles it starts with, the row bookkeeping of lu, and inv, pinv, svd *)
(* and norm2.  A behaviour runs the one that job names; the others stay at *)
(* the start, with an argument of one row and one column.                  *)
(***************************************************************************)
EXTENDS Mldivide, TriangularProbe, LuRunner, Factorisations

VARIABLE job

probeVars == <<data, probe>>
MCVars    == <<job, vars, probeVars, luVars, factVars>>

MldivideAtRest ==
  /\ system = [rows1 |-> 1, cols1 |-> 1, rows2 |-> 1, cols2 |-> 1,
               finite |-> TRUE, zero |-> FALSE, hermitian |-> TRUE,
               tri |-> "STANDARD"]
  /\ Init
ProbeAtRest == data = [r \in {1} |-> [c \in {1} |-> "one"]] /\ ProbeInit
LuAtRest    == m = 1 /\ n = 1 /\ LuInit
FactAtRest  ==
  /\ node = "INV"
  /\ arg = [scalar |-> TRUE, rows |-> 1, cols |-> 1, finite |-> TRUE,
            negative |-> FALSE, sv |-> [k \in {0} |-> 1]]
  /\ FactInit

MCInit ==
  \/ job = "mldivide" /\ Init /\ ProbeAtRest /\ LuAtRest /\ FactAtRest
  \/ job = "probe" /\ MldivideAtRest /\ ProbeInit /\ LuAtRest /\ FactAtRest
  \/ job = "lu" /\ MldivideAtRest /\ ProbeAtRest /\ LuInit /\ FactAtRest
  \/ job = "factorisation"
     /\ MldivideAtRest /\ ProbeAtRest /\ LuAtRest /\ FactInit

MCNext ==
  /\ UNCHANGED job
  /\ \/ job = "mldivide" /\ Next /\ UNCHANGED <<probeVars, luVars, factVars>>
     \/ job = "probe" /\ Probe /\ UNCHANGED <<vars, luVars, factVars>>
     \/ job = "lu" /\ LuNext /\ UNCHANGED <<vars, probeVars, factVars>>
     \/ job = "factorisation" /\ FactNext
        /\ UNCHANGED <<vars, probeVars, luVars>>

MCSpec == MCInit /\ [][MCNext]_MCVars /\ WF_MCVars(MCNext)
=============================================================================

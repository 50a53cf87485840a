----------------------------- MODULE MCOperator -----------------------------
(* A small instance of Operator for TLC.                                    *)
EXTENDS Operator, TLC

\* A start with the models, one without network, one that builds anew.
Options ==
    {[ai |-> TRUE, offline |-> FALSE, build |-> FALSE], [ai |-> FALSE, offline |-> TRUE, build |-> FALSE],
     [ai |-> FALSE, offline |-> FALSE, build |-> TRUE]}

\* Bounds: the sources are carried over, or the data without models.  While
\* there is a USB set the sources are as they were described and the new
\* machine has no network; from when it is set up the old one rests.
Apart ==
    /\ \/ work = 0 /\ backup = None
       \/ usb = None /\ sources = 1 /\ \A m \in Machines : model[m] = "none" /\ (job # None => ~job.ai)
    /\ usb # None \/ env[New] # None => project[Old].files = project[Old].manifest
    /\ usb # None /\ job # None /\ job.m = New => job.offline
    /\ env[New] # None => up[Old] = {} /\ (job = None \/ job.m = New)
=============================================================================

------------------------------- MODULE MCDisk -------------------------------
(***************************************************************************)
(* The buffer cache and the disk driver, each on a small instance: a       *)
(* behaviour runs one of them.                                             *)
(***************************************************************************)
EXTENDS Virtio, Bio

VARIABLE part

MCRawRanges == {<<1, 2, FALSE>>, <<2, 2, TRUE>>, <<1, 2, TRUE>>}

diskVars == <<virtioVars, bioVars, part>>

Init == VirtioInit /\ BioInit /\ part \in {"virtio", "bio"}

IsVirtio(A) == part = "virtio" /\ A /\ UNCHANGED <<bioVars, part>>
IsBio(A) == part = "bio" /\ A /\ UNCHANGED <<virtioVars, part>>

Next == IsVirtio(VirtioNext) \/ IsBio(BioNext)

(* The interrupt handler runs, the device works, and a runnable process is *)
(* scheduled.                                                              *)
Fairness ==
    /\ \A p \in VProcs : WF_diskVars(IsVirtio(RwStep(p)))
    /\ WF_diskVars(IsVirtio(DeviceTake \/ \E h \in Descs : DeviceDone(h)))
    /\ WF_diskVars(IsVirtio(IntrAck \/ IntrEntry \/ IntrReturn))
    /\ \A p \in BClients : WF_diskVars(IsBio(BioStep(p)))

Spec == Init /\ [][Next]_diskVars /\ Fairness
=============================================================================

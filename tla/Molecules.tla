----------------------------- MODULE Molecules -----------------------------
(***************************************************************************)
(* What the actor enqueues: the policies and the classes of molecules of   *)
(* src/actor-v3/molecule.py, as the shapes of module VQueue.               *)
(*                                                                         *)
(* A policy is a priority and modes; of the modes those are kept that the  *)
(* queue asks for (dont_interrupt and dtmf_stop are parsed, no more).      *)
(***************************************************************************)
EXTENDS Naturals, Sequences

Policy(priority, mode) == [priority |-> priority, mode |-> mode]

P_Background == Policy(0, {"mute", "loop"})
P_Normal     == Policy(1, {"mute"})
P_Discard    == Policy(1, {"discard"})
P_Mail       == Policy(2, {"discard"})
P_Transition == Policy(3, {})
P_Urgent     == Policy(4, {})

Kind(type, silence, length, dtmf) ==
    [type |-> type, silence |-> silence, length |-> length, dtmf |-> dtmf]

\* The atoms as JSON: a RecordAtom always has both times.
PlayAtom         == Kind("play", FALSE, FALSE, FALSE)
RecordAtom(dtmf) == Kind("record", TRUE, TRUE, dtmf)

\* as_args: the mode of the policy, then the atoms.
Molecule(policy, atoms) == [mode |-> policy.mode, kinds |-> atoms]

Play(policy, files) == Molecule(policy, [i \in 1 .. files |-> PlayAtom])
Beep(policy)        == Molecule(policy, <<PlayAtom>>)

\* Record and RecordBeep pass their prefix where RecordAtom has dtmf_stop: it
\* is no Boolean, and no key stops the recording.
Record(policy)      == Molecule(policy, <<RecordAtom(FALSE)>>)
RecordBeep(policy)  == Molecule(policy, <<PlayAtom, RecordAtom(FALSE)>>)

\* A ConferenceAtom has a type that enqueue ignores.
Conference(policy)  == Molecule(policy, <<>>)
=============================================================================

------------------------------- MODULE MCIpc --------------------------------
(***************************************************************************)
(* Ipc with the bodies of foreign programs: objects with at most one ill   *)
(* typed field, and unknown methods.                                       *)
(***************************************************************************)
EXTENDS Ipc, FiniteSets

Loose == [client : {"absent", "ill", "valid"}, rate : {"absent", "ill"},
          durationSecs : {"absent", "ill"}, limit : {"absent", "valid"}]

ForeignBodies ==
  {b \in [type : Mutations \cup {"top", "unknown"}, params : Loose \cup {None}] :
     b.params # None => Cardinality({f \in ParamNames : b.params[f] = "ill"}) <= 1}

=============================================================================

--------------------------- MODULE ExclusionProofs ---------------------------
(***************************************************************************)
(* Proofs about Exclusion, for any files, paths and prefixes.              *)
(***************************************************************************)
EXTENDS Exclusion, TLAPS

(* The service's copies of the registry are behind the file, and the sink's
   copy is not ahead of the one of the pass under way. *)
RegistryOrder ==
    /\ held \subseteq registry
    /\ seen \subseteq registry
    /\ pass # "off" => held \subseteq seen

(* What a pass selected, and the sink has not seen yet, the sink will take. *)
SelectionAllowed ==
    \A j \in jobs : j.by = "catchup" /\ j.at = "index"
        => pass = "selected" /\ ~Excluded(held, j.file)

(* Only open entries travel to the sinks and reach the index. *)
OnlyOpen ==
    /\ \A j \in jobs : entry[j.file] = "open"
    /\ \A f \in index : entry[f] = "open"

(* The sink goes on knowing what it knew when a file was sealed. *)
SealsKnown == \A f \in sealed : Excluded(held, f)

(* Each completed purge is in the registry. *)
PurgesRecorded == \A f \in purged : Excluded(registry, f)

IInv ==
    /\ TypeOK
    /\ RegistryOrder
    /\ SelectionAllowed
    /\ NoCryWolf
    /\ OnlyOpen
    /\ SealsKnown
    /\ SealedStaysOut
    /\ PurgesRecorded

-----------------------------------------------------------------------------
(* An exclusion is never lifted by a registry that has grown. *)
LEMMA ExcludedGrows ==
    ASSUME NEW R, NEW S, R \subseteq S, NEW f, Excluded(R, f)
    PROVE  Excluded(S, f)
BY DEF Excluded

(* A next step is one of the actions. *)
LEMMA NextCases ==
    Next <=>
        \/ \E f \in Files : Mark(f)
        \/ \E f \in Files : Register(f)
        \/ \E f \in Files : CommitSelect(f)
        \/ BeginPass
        \/ SelectPass
        \/ EndPass
        \/ \E j \in jobs : WriteIndex(j)
        \/ \E j \in jobs : WriteMirror(j)
        \/ Restart
        \/ \E x \in Prefixes : AddExclusion(x)
        \/ \E x \in Prefixes : BeginDeindex(x)
        \/ DeleteDocuments
        \/ UnlinkMirror
        \/ RecordPurge
        \/ AbortDeindex
BY DEF Next, Casework, Service, Operator

(* Each action keeps the types. *)
LEMMA TypeInductive ==
    TypeOK /\ [Next]_vars => TypeOK'
<1> SUFFICES ASSUME TypeOK, [Next]_vars
         PROVE  TypeOK'
    OBVIOUS
<1> USE DEF metadata, sinks, service, history, TypeOK, Job, Origin, Purge, NoPurge
<1>1. CASE \E f \in Files : Mark(f)
    BY <1>1 DEF Mark
<1>2. CASE \E f \in Files : Register(f)
    BY <1>2 DEF Register
<1>3. CASE \E f \in Files : CommitSelect(f)
    BY <1>3 DEF CommitSelect, NewJobs
<1>4. CASE BeginPass
    BY <1>4 DEF BeginPass
<1>5. CASE SelectPass
    BY <1>5 DEF SelectPass, NewJobs, Selected
<1>6. CASE EndPass
    BY <1>6 DEF EndPass
<1>7. CASE \E j \in jobs : WriteIndex(j)
    BY <1>7 DEF WriteIndex
<1>8. CASE \E j \in jobs : WriteMirror(j)
    BY <1>8, ExclusionAssumption DEF WriteMirror, MirrorFile
<1>9. CASE Restart
    BY <1>9 DEF Restart
<1>10. CASE \E x \in Prefixes : AddExclusion(x)
    BY <1>10 DEF AddExclusion, Appended
<1>11. CASE \E x \in Prefixes : BeginDeindex(x)
    BY <1>11 DEF BeginDeindex
<1>12. CASE DeleteDocuments
    BY <1>12 DEF DeleteDocuments, Under
<1>13. CASE UnlinkMirror
    BY <1>13 DEF UnlinkMirror
<1>14. CASE RecordPurge
    BY <1>14 DEF RecordPurge, Appended, Under
<1>15. CASE AbortDeindex
    BY <1>15 DEF AbortDeindex
<1>16. CASE UNCHANGED vars
    BY <1>16 DEF vars
<1> QED
    BY <1>1, <1>2, <1>3, <1>4, <1>5, <1>6, <1>7, <1>8, <1>9, <1>10, <1>11,
       <1>12, <1>13, <1>14, <1>15, <1>16, NextCases

(* The copies stay behind the file: it only grows, and a restart takes both. *)
LEMMA OrderInductive ==
    RegistryOrder /\ [Next]_vars => RegistryOrder'
<1> SUFFICES ASSUME RegistryOrder, [Next]_vars
         PROVE  RegistryOrder'
    OBVIOUS
<1> USE DEF metadata, sinks, service, history, RegistryOrder
<1>1. CASE \E f \in Files : Mark(f)
    BY <1>1 DEF Mark
<1>2. CASE \E f \in Files : Register(f)
    BY <1>2 DEF Register
<1>3. CASE \E f \in Files : CommitSelect(f)
    BY <1>3 DEF CommitSelect
<1>4. CASE BeginPass
    BY <1>4 DEF BeginPass
<1>5. CASE SelectPass
    BY <1>5 DEF SelectPass
<1>6. CASE EndPass
    BY <1>6 DEF EndPass
<1>7. CASE \E j \in jobs : WriteIndex(j)
    BY <1>7 DEF WriteIndex
<1>8. CASE \E j \in jobs : WriteMirror(j)
    BY <1>8 DEF WriteMirror
<1>9. CASE Restart
    BY <1>9 DEF Restart
<1>10. CASE \E x \in Prefixes : AddExclusion(x)
    BY <1>10 DEF AddExclusion, Appended
<1>11. CASE \E x \in Prefixes : BeginDeindex(x)
    BY <1>11 DEF BeginDeindex
<1>12. CASE DeleteDocuments
    BY <1>12 DEF DeleteDocuments
<1>13. CASE UnlinkMirror
    BY <1>13 DEF UnlinkMirror
<1>14. CASE RecordPurge
    BY <1>14 DEF RecordPurge, Appended
<1>15. CASE AbortDeindex
    BY <1>15 DEF AbortDeindex
<1>16. CASE UNCHANGED vars
    BY <1>16 DEF vars
<1> QED
    BY <1>1, <1>2, <1>3, <1>4, <1>5, <1>6, <1>7, <1>8, <1>9, <1>10, <1>11,
       <1>12, <1>13, <1>14, <1>15, <1>16, NextCases

(* A selection is made with the pass's copy, which covers the sink's. *)
LEMMA SelectionInductive ==
    TypeOK /\ RegistryOrder /\ SelectionAllowed /\ [Next]_vars => SelectionAllowed'
<1> SUFFICES ASSUME TypeOK, RegistryOrder, SelectionAllowed, [Next]_vars
         PROVE  SelectionAllowed'
    OBVIOUS
<1> USE DEF metadata, sinks, service, history, SelectionAllowed
<1>1. CASE \E f \in Files : Mark(f)
    BY <1>1 DEF Mark
<1>2. CASE \E f \in Files : Register(f)
    BY <1>2 DEF Register
<1>3. CASE \E f \in Files : CommitSelect(f)
    BY <1>3 DEF CommitSelect, NewJobs
<1>4. CASE BeginPass
    BY <1>4 DEF BeginPass
<1>5. CASE SelectPass
  <2> SUFFICES ASSUME NEW j \in jobs', j.by = "catchup", j.at = "index"
               PROVE  (pass = "selected" /\ ~Excluded(held, j.file))'
      OBVIOUS
  <2>1. pass' = "selected" /\ held' = held /\ held \subseteq seen
      BY <1>5 DEF SelectPass, RegistryOrder
  <2>2. j \notin jobs
      BY <1>5 DEF SelectPass
  <2>3. ~Excluded(seen, j.file)
      BY <1>5, <2>2 DEF SelectPass, NewJobs, Selected
  <2>4. ~Excluded(held, j.file)
      BY <2>1, <2>3, ExcludedGrows
  <2> QED
      BY <2>1, <2>4 DEF Excluded
<1>6. CASE EndPass
    BY <1>6 DEF EndPass
<1>7. CASE \E j \in jobs : WriteIndex(j)
    BY <1>7 DEF WriteIndex, TypeOK, Job
<1>8. CASE \E j \in jobs : WriteMirror(j)
    BY <1>8 DEF WriteMirror
<1>9. CASE Restart
    BY <1>9 DEF Restart
<1>10. CASE \E x \in Prefixes : AddExclusion(x)
    BY <1>10 DEF AddExclusion
<1>11. CASE \E x \in Prefixes : BeginDeindex(x)
    BY <1>11 DEF BeginDeindex
<1>12. CASE DeleteDocuments
    BY <1>12 DEF DeleteDocuments
<1>13. CASE UnlinkMirror
    BY <1>13 DEF UnlinkMirror
<1>14. CASE RecordPurge
    BY <1>14 DEF RecordPurge
<1>15. CASE AbortDeindex
    BY <1>15 DEF AbortDeindex
<1>16. CASE UNCHANGED vars
    BY <1>16 DEF vars
<1> QED
    BY <1>1, <1>2, <1>3, <1>4, <1>5, <1>6, <1>7, <1>8, <1>9, <1>10, <1>11,
       <1>12, <1>13, <1>14, <1>15, <1>16, NextCases

(* So the sink refuses only what commits bring. *)
LEMMA CryWolfInductive ==
    TypeOK /\ SelectionAllowed /\ NoCryWolf /\ [Next]_vars => NoCryWolf'
<1> SUFFICES ASSUME TypeOK, SelectionAllowed, NoCryWolf, [Next]_vars
         PROVE  NoCryWolf'
    OBVIOUS
<1> USE DEF metadata, sinks, service, history, NoCryWolf, SelectionAllowed
<1>1. CASE \E f \in Files : Mark(f)
    BY <1>1 DEF Mark
<1>2. CASE \E f \in Files : Register(f)
    BY <1>2 DEF Register
<1>3. CASE \E f \in Files : CommitSelect(f)
    BY <1>3 DEF CommitSelect
<1>4. CASE BeginPass
    BY <1>4 DEF BeginPass
<1>5. CASE SelectPass
    BY <1>5 DEF SelectPass
<1>6. CASE EndPass
    BY <1>6 DEF EndPass
<1>7. CASE \E j \in jobs : WriteIndex(j)
    BY <1>7 DEF WriteIndex, Refuses, TypeOK, Job, Origin
<1>8. CASE \E j \in jobs : WriteMirror(j)
    BY <1>8 DEF WriteMirror
<1>9. CASE Restart
    BY <1>9 DEF Restart
<1>10. CASE \E x \in Prefixes : AddExclusion(x)
    BY <1>10 DEF AddExclusion
<1>11. CASE \E x \in Prefixes : BeginDeindex(x)
    BY <1>11 DEF BeginDeindex
<1>12. CASE DeleteDocuments
    BY <1>12 DEF DeleteDocuments
<1>13. CASE UnlinkMirror
    BY <1>13 DEF UnlinkMirror
<1>14. CASE RecordPurge
    BY <1>14 DEF RecordPurge
<1>15. CASE AbortDeindex
    BY <1>15 DEF AbortDeindex
<1>16. CASE UNCHANGED vars
    BY <1>16 DEF vars
<1> QED
    BY <1>1, <1>2, <1>3, <1>4, <1>5, <1>6, <1>7, <1>8, <1>9, <1>10, <1>11,
       <1>12, <1>13, <1>14, <1>15, <1>16, NextCases

(* Entries do not change once made, and only open ones are wanted. *)
LEMMA OpenInductive ==
    TypeOK /\ OnlyOpen /\ [Next]_vars => OnlyOpen'
<1> SUFFICES ASSUME TypeOK, OnlyOpen, [Next]_vars
         PROVE  OnlyOpen'
    OBVIOUS
<1> USE DEF metadata, sinks, service, history, OnlyOpen
<1>1. CASE \E f \in Files : Mark(f)
    BY <1>1 DEF Mark
<1>2. CASE \E f \in Files : Register(f)
    BY <1>2 DEF Register
<1>3. CASE \E f \in Files : CommitSelect(f)
    BY <1>3 DEF CommitSelect, NewJobs, Wanted
<1>4. CASE BeginPass
    BY <1>4 DEF BeginPass
<1>5. CASE SelectPass
    BY <1>5 DEF SelectPass, NewJobs, Selected, Wanted
<1>6. CASE EndPass
    BY <1>6 DEF EndPass
<1>7. CASE \E j \in jobs : WriteIndex(j)
    BY <1>7 DEF WriteIndex, TypeOK, Job
<1>8. CASE \E j \in jobs : WriteMirror(j)
    BY <1>8 DEF WriteMirror
<1>9. CASE Restart
    BY <1>9 DEF Restart
<1>10. CASE \E x \in Prefixes : AddExclusion(x)
    BY <1>10 DEF AddExclusion
<1>11. CASE \E x \in Prefixes : BeginDeindex(x)
    BY <1>11 DEF BeginDeindex
<1>12. CASE DeleteDocuments
    BY <1>12 DEF DeleteDocuments
<1>13. CASE UnlinkMirror
    BY <1>13 DEF UnlinkMirror
<1>14. CASE RecordPurge
    BY <1>14 DEF RecordPurge
<1>15. CASE AbortDeindex
    BY <1>15 DEF AbortDeindex
<1>16. CASE UNCHANGED vars
    BY <1>16 DEF vars
<1> QED
    BY <1>1, <1>2, <1>3, <1>4, <1>5, <1>6, <1>7, <1>8, <1>9, <1>10, <1>11,
       <1>12, <1>13, <1>14, <1>15, <1>16, NextCases

(* The sink's copy changes at a restart only, and grows. *)
LEMMA SealsInductive ==
    RegistryOrder /\ SealsKnown /\ [Next]_vars => SealsKnown'
<1> SUFFICES ASSUME RegistryOrder, SealsKnown, [Next]_vars
         PROVE  SealsKnown'
    OBVIOUS
<1> USE DEF metadata, sinks, service, history, SealsKnown, RegistryOrder
<1>1. CASE \E f \in Files : Mark(f)
    BY <1>1 DEF Mark
<1>2. CASE \E f \in Files : Register(f)
    BY <1>2 DEF Register
<1>3. CASE \E f \in Files : CommitSelect(f)
    BY <1>3 DEF CommitSelect
<1>4. CASE BeginPass
    BY <1>4 DEF BeginPass
<1>5. CASE SelectPass
    BY <1>5 DEF SelectPass
<1>6. CASE EndPass
    BY <1>6 DEF EndPass
<1>7. CASE \E j \in jobs : WriteIndex(j)
    BY <1>7 DEF WriteIndex
<1>8. CASE \E j \in jobs : WriteMirror(j)
    BY <1>8 DEF WriteMirror
<1>9. CASE Restart
    BY <1>9 DEF Restart, Excluded
<1>10. CASE \E x \in Prefixes : AddExclusion(x)
    BY <1>10 DEF AddExclusion
<1>11. CASE \E x \in Prefixes : BeginDeindex(x)
    BY <1>11 DEF BeginDeindex
<1>12. CASE DeleteDocuments
    BY <1>12 DEF DeleteDocuments
<1>13. CASE UnlinkMirror
    BY <1>13 DEF UnlinkMirror
<1>14. CASE RecordPurge
    BY <1>14 DEF RecordPurge
<1>15. CASE AbortDeindex
    BY <1>15 DEF AbortDeindex
<1>16. CASE UNCHANGED vars
    BY <1>16 DEF vars
<1> QED
    BY <1>1, <1>2, <1>3, <1>4, <1>5, <1>6, <1>7, <1>8, <1>9, <1>10, <1>11,
       <1>12, <1>13, <1>14, <1>15, <1>16, NextCases

(* A sealed file cannot be written again, for the sink refuses it. *)
LEMMA SealedInductive ==
    TypeOK /\ SealsKnown /\ SealedStaysOut /\ [Next]_vars => SealedStaysOut'
<1> SUFFICES ASSUME TypeOK, SealsKnown, SealedStaysOut, [Next]_vars
         PROVE  SealedStaysOut'
    OBVIOUS
<1> USE DEF metadata, sinks, service, history, SealedStaysOut, SealsKnown
<1>1. CASE \E f \in Files : Mark(f)
    BY <1>1 DEF Mark
<1>2. CASE \E f \in Files : Register(f)
    BY <1>2 DEF Register
<1>3. CASE \E f \in Files : CommitSelect(f)
    BY <1>3 DEF CommitSelect
<1>4. CASE BeginPass
    BY <1>4 DEF BeginPass
<1>5. CASE SelectPass
    BY <1>5 DEF SelectPass
<1>6. CASE EndPass
    BY <1>6 DEF EndPass
<1>7. CASE \E j \in jobs : WriteIndex(j)
    BY <1>7 DEF WriteIndex, Refuses
<1>8. CASE \E j \in jobs : WriteMirror(j)
    BY <1>8 DEF WriteMirror
<1>9. CASE Restart
    BY <1>9 DEF Restart
<1>10. CASE \E x \in Prefixes : AddExclusion(x)
    BY <1>10 DEF AddExclusion
<1>11. CASE \E x \in Prefixes : BeginDeindex(x)
    BY <1>11 DEF BeginDeindex
<1>12. CASE DeleteDocuments
    BY <1>12 DEF DeleteDocuments
<1>13. CASE UnlinkMirror
    BY <1>13 DEF UnlinkMirror
<1>14. CASE RecordPurge
    BY <1>14 DEF RecordPurge
<1>15. CASE AbortDeindex
    BY <1>15 DEF AbortDeindex
<1>16. CASE UNCHANGED vars
    BY <1>16 DEF vars
<1> QED
    BY <1>1, <1>2, <1>3, <1>4, <1>5, <1>6, <1>7, <1>8, <1>9, <1>10, <1>11,
       <1>12, <1>13, <1>14, <1>15, <1>16, NextCases

(* The registry file is only added to. *)
LEMMA RecordInductive ==
    PurgesRecorded /\ [Next]_vars => PurgesRecorded'
<1> SUFFICES ASSUME PurgesRecorded, [Next]_vars
         PROVE  PurgesRecorded'
    OBVIOUS
<1> USE DEF metadata, sinks, service, history, PurgesRecorded
<1>1. CASE \E f \in Files : Mark(f)
    BY <1>1 DEF Mark
<1>2. CASE \E f \in Files : Register(f)
    BY <1>2 DEF Register
<1>3. CASE \E f \in Files : CommitSelect(f)
    BY <1>3 DEF CommitSelect
<1>4. CASE BeginPass
    BY <1>4 DEF BeginPass
<1>5. CASE SelectPass
    BY <1>5 DEF SelectPass
<1>6. CASE EndPass
    BY <1>6 DEF EndPass
<1>7. CASE \E j \in jobs : WriteIndex(j)
    BY <1>7 DEF WriteIndex
<1>8. CASE \E j \in jobs : WriteMirror(j)
    BY <1>8 DEF WriteMirror
<1>9. CASE Restart
    BY <1>9 DEF Restart
<1>10. CASE \E x \in Prefixes : AddExclusion(x)
    BY <1>10 DEF AddExclusion, Appended, Excluded
<1>11. CASE \E x \in Prefixes : BeginDeindex(x)
    BY <1>11 DEF BeginDeindex
<1>12. CASE DeleteDocuments
    BY <1>12 DEF DeleteDocuments
<1>13. CASE UnlinkMirror
    BY <1>13 DEF UnlinkMirror
<1>14. CASE RecordPurge
    BY <1>14 DEF RecordPurge, Appended, Excluded, Under
<1>15. CASE AbortDeindex
    BY <1>15 DEF AbortDeindex
<1>16. CASE UNCHANGED vars
    BY <1>16 DEF vars
<1> QED
    BY <1>1, <1>2, <1>3, <1>4, <1>5, <1>6, <1>7, <1>8, <1>9, <1>10, <1>11,
       <1>12, <1>13, <1>14, <1>15, <1>16, NextCases

-----------------------------------------------------------------------------
LEMMA InvariantHolds == Spec => []IInv
<1>1. Init => IInv
    BY DEF Init, IInv, TypeOK, Purge, NoPurge, Job, RegistryOrder,
       SelectionAllowed,
           NoCryWolf, OnlyOpen, SealsKnown, SealedStaysOut, PurgesRecorded
<1>2. IInv /\ [Next]_vars => IInv'
    BY TypeInductive, OrderInductive, SelectionInductive, CryWolfInductive,
       OpenInductive, SealsInductive, SealedInductive, RecordInductive DEF IInv
<1> QED
    BY <1>1, <1>2, PTL DEF Spec

(* Every reachable state of service, casework and operator has its type. *)
THEOREM TypeCorrectness == Spec => []TypeOK
<1>1. IInv => TypeOK
    BY DEF IInv
<1> QED
    BY <1>1, InvariantHolds, PTL

(* A document purged while the sink of the running service knew its exclusion
   is never in the index again, for any corpus and any number of operators'
   commands and restarts. *)
THEOREM SealedSafety == Spec => []SealedStaysOut
<1>1. IInv => SealedStaysOut
    BY DEF IInv
<1> QED
    BY <1>1, InvariantHolds, PTL

(* The sink's alarm is never raised by what a catch-up pass selected. *)
THEOREM AlarmSafety == Spec => []NoCryWolf
<1>1. IInv => NoCryWolf
    BY DEF IInv
<1> QED
    BY <1>1, InvariantHolds, PTL

(* A file registered under a no_index chain is never indexed nor on its way. *)
THEOREM RestrictedSafety == Spec => []RestrictedStaysOut
<1>1. IInv => RestrictedStaysOut
    BY DEF IInv, OnlyOpen, RestrictedStaysOut
<1> QED
    BY <1>1, InvariantHolds, PTL

(* The exposure query finds every purged document that came back. *)
THEOREM ExposureCompleteness == Spec => []ReturnsAreExposed
<1>1. IInv => ReturnsAreExposed
    BY DEF IInv, PurgesRecorded, ReturnsAreExposed, Exposed
<1> QED
    BY <1>1, InvariantHolds, PTL

-----------------------------------------------------------------------------
(* When the two refuted promises of exclusion_registry.py hold. *)

(* The operator purges only what the running service has loaded already: the order of
   work is to register the prefix, to restart the service, then to deindex. *)
PurgeKnown == purge # NoPurge => purge.prefix \in held

(* Then what is being purged, and all that was, is sealed. *)
PurgesSealed ==
    /\ purge.at \in {"mirror", "registry"} => Under(purge.prefix) \subseteq sealed
    /\ purged \subseteq sealed

LEMMA PurgesSealedInductive ==
    ASSUME TypeOK, PurgesSealed, PurgeKnown, [Next]_vars
    PROVE  PurgesSealed'
<1>1. sealed \subseteq sealed'
    BY DEF Next, Casework, Service, Operator, Mark, Register, CommitSelect, BeginPass, SelectPass,
       EndPass, WriteIndex, WriteMirror, Restart, AddExclusion, BeginDeindex, DeleteDocuments,
       UnlinkMirror, RecordPurge, AbortDeindex, vars, history
<1>2. CASE \E x \in Prefixes : BeginDeindex(x)
    BY <1>2 DEF BeginDeindex, PurgesSealed, history
<1>3. CASE DeleteDocuments
  <2>1. purge # NoPurge
      BY <1>3 DEF DeleteDocuments, NoPurge
  <2>2. purge.prefix \in held /\ purge'.prefix = purge.prefix
      BY <1>3, <2>1 DEF DeleteDocuments, PurgeKnown, TypeOK, Purge
  <2>3. \A f \in Under(purge.prefix) : Excluded(held, f)
      BY <2>2 DEF Under, Excluded
  <2> QED
      BY <1>3, <2>2, <2>3 DEF DeleteDocuments, PurgesSealed, Under
<1>4. CASE UnlinkMirror
  <2>1. purge'.prefix = purge.prefix /\ UNCHANGED <<sealed, purged>>
      BY <1>4 DEF UnlinkMirror, TypeOK, Purge, NoPurge, history
  <2> QED
      BY <1>4, <2>1 DEF UnlinkMirror, PurgesSealed, Under
<1>5. CASE RecordPurge
    BY <1>5 DEF RecordPurge, PurgesSealed, NoPurge
<1>6. CASE AbortDeindex
    BY <1>6 DEF AbortDeindex, PurgesSealed, NoPurge, history
<1>7. ASSUME UNCHANGED <<purge, purged>> PROVE PurgesSealed'
    BY <1>1, <1>7 DEF PurgesSealed, Under
<1>8. CASE Casework \/ Service \/ (\E x \in Prefixes : AddExclusion(x)) \/ UNCHANGED vars
    BY <1>7, <1>8 DEF Casework, Service, Mark, Register, CommitSelect, BeginPass, SelectPass,
       EndPass, WriteIndex, WriteMirror, Restart, AddExclusion, vars, history
<1> QED
    BY <1>2, <1>3, <1>4, <1>5, <1>6, <1>8 DEF Next, Operator

(* exclusion_registry.py: a purged document is never added again by an automated
   process.  That is true of an operator who works in this order, whatever the service
   has under way, whoever interrupts whom and however often it is restarted. *)
THEOREM OrderlyPurgeSafety == Spec /\ []PurgeKnown => []PurgedStaysOut
<1>1. Init => PurgesSealed
    BY DEF Init, PurgesSealed, NoPurge
<1>2. IInv /\ PurgesSealed /\ PurgeKnown /\ [Next]_vars => PurgesSealed'
    BY PurgesSealedInductive DEF IInv
<1>3. IInv /\ PurgesSealed => PurgedStaysOut
    BY DEF IInv, PurgesSealed, SealedStaysOut, PurgedStaysOut
<1> QED
    BY <1>1, <1>2, <1>3, InvariantHolds, PTL DEF Spec

(* Casework puts a no_index key only on what the service has not met yet. *)
MarkedBeforeMet == \A f \in Files : ~marked[f] /\ marked'[f] => entry[f] = "none"

(* Then no file with an open entry is marked. *)
OpenUnmarked == \A f \in Files : entry[f] = "open" => ~marked[f]

LEMMA OpenUnmarkedInductive ==
    ASSUME TypeOK, OpenUnmarked, [MarkedBeforeMet]_vars, [Next]_vars
    PROVE  OpenUnmarked'
<1>1. ASSUME NEW f \in Files, Mark(f) PROVE OpenUnmarked'
  <2>1. MarkedBeforeMet
    <3>1. marked'[f] # marked[f]
        BY <1>1 DEF Mark, TypeOK
    <3> QED
        BY <3>1 DEF vars
  <2>2. UNCHANGED entry /\ \A g \in Files : g # f => marked'[g] = marked[g]
      BY <1>1 DEF Mark, TypeOK
  <2>3. marked'[f] = ~marked[f]
      BY <1>1 DEF Mark, TypeOK
  <2> QED
      BY <2>1, <2>2, <2>3 DEF OpenUnmarked, MarkedBeforeMet
<1>2. ASSUME NEW f \in Files, Register(f) PROVE OpenUnmarked'
    BY <1>2 DEF Register, TypeOK, OpenUnmarked
<1>3. ASSUME UNCHANGED metadata PROVE OpenUnmarked'
    BY <1>3 DEF metadata, OpenUnmarked
<1>4. CASE Operator \/ UNCHANGED vars
    BY <1>3, <1>4 DEF Operator, AddExclusion, BeginDeindex, DeleteDocuments, UnlinkMirror,
       RecordPurge, AbortDeindex, vars, metadata
<1>5. CASE Service
    BY <1>2, <1>3, <1>5 DEF Service, CommitSelect, BeginPass, SelectPass, EndPass, WriteIndex,
       WriteMirror, Restart
<1> QED
    BY <1>1, <1>4, <1>5 DEF Next, Casework

(* A new item for the sinks has an open entry. *)
LEMMA NewItemsOpen ==
    ASSUME TypeOK, [Next]_vars, NEW j \in jobs', j.at = "index", j \notin jobs
    PROVE  j.file \in Files /\ entry[j.file] = "open"
<1>1. ~UNCHANGED jobs
    OBVIOUS
<1>2. CASE \E f \in Files : CommitSelect(f)
    BY <1>2 DEF CommitSelect, NewJobs, Wanted
<1>3. CASE SelectPass
    BY <1>3 DEF SelectPass, NewJobs, Selected, Wanted
<1>4. ASSUME NEW k \in jobs, WriteIndex(k) PROVE FALSE
  <2>1. j = [k EXCEPT !.at = "mirror"] /\ k \in Job
      BY <1>4 DEF WriteIndex, TypeOK
  <2> QED
      BY <2>1 DEF Job
<1>5. ~Operator /\ ~Casework /\ ~UNCHANGED vars
    BY <1>1 DEF Operator, AddExclusion, BeginDeindex, DeleteDocuments, UnlinkMirror,
       RecordPurge, AbortDeindex, Casework, Mark, vars, service
<1>6. \A f \in Files : ~Register(f)
    BY <1>1 DEF Register, service
<1>7. ~BeginPass /\ ~EndPass /\ ~Restart /\ \A k \in jobs : ~WriteMirror(k)
    BY DEF BeginPass, EndPass, Restart, WriteMirror
<1> QED
    BY <1>2, <1>3, <1>4, <1>5, <1>6, <1>7 DEF Next, Service

(* exclusion_registry.py: marking a folder no_index stops future ingestion.  That is true
   of marks that are there before the service meets the file; the run exclusion_marked
   shows that a later one stops nothing. *)
THEOREM EarlyMarksStop == Spec /\ [][MarkedBeforeMet]_vars => MarkStopsIngestion
<1>1. Init => OpenUnmarked
    BY DEF Init, OpenUnmarked
<1>2. IInv /\ OpenUnmarked /\ [MarkedBeforeMet]_vars /\ [Next]_vars => OpenUnmarked'
    BY OpenUnmarkedInductive DEF IInv
<1>3. IInv /\ OpenUnmarked /\ [Next]_vars =>
        [\A j \in jobs' : j.at = "index" /\ j \notin jobs => ~marked[j.file]]_vars
    BY NewItemsOpen DEF IInv, OpenUnmarked
<1> QED
    BY <1>1, <1>2, <1>3, InvariantHolds, PTL DEF Spec, MarkStopsIngestion
=============================================================================

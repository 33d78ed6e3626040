----------------------------- MODULE ModelStore -----------------------------
(***************************************************************************)
(* ml/store.py: trained models (Training) are saved as two files a target, *)
(* the booster and its card, and loaded into bundles that the process      *)
(* caches by the files' modification times.                                *)
(*                                                                         *)
(* A save is a number, and so is what it writes.  Opening a file empties   *)
(* it, and the text comes in a second step; both carry the same time, the  *)
(* coarsest clock there is.  The saver may die between any two steps.      *)
(***************************************************************************)
EXTENDS Integers

CONSTANTS Targets, Loaders,
          MaxSaves,     \* bound: saves
          OldColumns,   \* the saves whose card names other columns than the code has
          None

ASSUME StoreAssumption == MaxSaves \in Nat /\ None \notin Loaders

Kinds == {"model", "card"}
File == Targets \X Kinds
Save == 0 .. MaxSaves      \* a save's number is the time of its files; 0 is no file

VARIABLES
  file,     \* the save each file is from, 0 before there is a file
  emptied,  \* files opened and not yet written
  saves,    \* saves begun
  saving,   \* what the saver does next, and to which target
  loader,   \* what each call of load_bundle has in hand
  cache,    \* _CACHE, as a set of entries
  lock      \* who holds _LOCK
storeVars == <<file, emptied, saves, saving, loader, cache, lock>>

PerTarget == [Targets -> Save]
Bundle == [models : PerTarget, cards : PerTarget]
Empty == [models |-> [t \in Targets |-> 0], cards |-> [t \in Targets |-> 0]]
NoFile == [f \in File |-> 0]
Idle == [pc |-> "idle", paths |-> {}, key |-> NoFile, bundle |-> Empty, quiet |-> TRUE]

\* quiet is history: nothing was written since the call began.
Call == [pc : {"idle", "stat", "locked", "none", "error", "bundle"}, paths : SUBSET Targets,
         key : [File -> Save], bundle : Bundle, quiet : BOOLEAN]
Saving == [step : {"no", "emptied_model", "model", "emptied_card"}, target : Targets \cup {None}]
Rest == [step |-> "no", target |-> None]

StoreTypes ==
  /\ file \in [File -> Save] /\ emptied \subseteq File
  /\ saves \in Save /\ saving \in Saving
  /\ loader \in [Loaders -> Call]
  /\ cache \subseteq [key : [File -> Save], bundle : Bundle]
  /\ lock \in Loaders \cup {None}

StoreInit ==
  /\ file = NoFile /\ emptied = {} /\ saves = 0 /\ saving = Rest
  /\ loader = [l \in Loaders |-> Idle] /\ cache = {} /\ lock = None

-----------------------------------------------------------------------------
Disturbed == [l \in Loaders |-> [loader[l] EXCEPT !.quiet = FALSE]]

Empties(t, kind, save) ==
  /\ file' = [file EXCEPT ![<<t, kind>>] = save]
  /\ emptied' = emptied \cup {<<t, kind>>}
  /\ loader' = Disturbed
Fills(t, kind) ==
  /\ emptied' = emptied \ {<<t, kind>>}
  /\ loader' = Disturbed /\ UNCHANGED file

\* save_model: the booster first, then its card.
OpenModel(t) ==
  /\ saving = Rest /\ saves < MaxSaves
  /\ saves' = saves + 1
  /\ Empties(t, "model", saves')
  /\ saving' = [step |-> "emptied_model", target |-> t]
  /\ UNCHANGED <<cache, lock>>
WriteModel(t) ==
  /\ saving = [step |-> "emptied_model", target |-> t]
  /\ Fills(t, "model")
  /\ saving' = [saving EXCEPT !.step = "model"]
  /\ UNCHANGED <<saves, cache, lock>>
OpenCard(t) ==
  /\ saving = [step |-> "model", target |-> t]
  /\ Empties(t, "card", saves)
  /\ saving' = [saving EXCEPT !.step = "emptied_card"]
  /\ UNCHANGED <<saves, cache, lock>>
WriteCard(t) ==
  /\ saving = [step |-> "emptied_card", target |-> t]
  /\ Fills(t, "card")
  /\ saving' = Rest
  /\ UNCHANGED <<saves, cache, lock>>

SaverDies ==
  /\ saving # Rest
  /\ saving' = Rest
  /\ UNCHANGED <<file, emptied, saves, loader, cache, lock>>

-----------------------------------------------------------------------------
store == <<file, emptied, saves, saving>>
Becomes(l, call) == loader' = [loader EXCEPT ![l] = call]
Returns(l, pc, bundle) ==
  Becomes(l, [Idle EXCEPT !.pc = pc, !.bundle = bundle, !.quiet = loader[l].quiet])

\* _artifact_paths: the targets with both files.
artifact_paths == {t \in Targets : file[<<t, "model">>] > 0 /\ file[<<t, "card">>] > 0}

Starts(l) ==
  /\ loader[l].pc \in {"idle", "none", "error", "bundle"}
  /\ Becomes(l, [Idle EXCEPT !.pc = IF artifact_paths = {} THEN "none" ELSE "stat",
                             !.paths = artifact_paths])
  /\ UNCHANGED <<store, cache, lock>>

\* _cache_key, a file at a time and before the lock is taken.
TimeIgnored(f) == 1
MTime(f) == file[f]
Unstated(l) == {f \in loader[l].paths \X Kinds : loader[l].key[f] = 0}
Stats(l) ==
  /\ loader[l].pc = "stat"
  /\ \E f \in Unstated(l) : Becomes(l, [loader[l] EXCEPT !.key[f] = MTime(f)])
  /\ UNCHANGED <<store, cache, lock>>

Hit(l) ==
  /\ loader[l].pc = "stat" /\ Unstated(l) = {} /\ lock = None
  /\ \E e \in cache : e.key = loader[l].key /\ Returns(l, "bundle", e.bundle)
  /\ UNCHANGED <<store, cache, lock>>
Miss(l) ==
  /\ loader[l].pc = "stat" /\ Unstated(l) = {} /\ lock = None
  /\ \A e \in cache : e.key # loader[l].key
  /\ lock' = l /\ Becomes(l, [loader[l] EXCEPT !.pc = "locked"])
  /\ UNCHANGED <<store, cache>>

\* The targets in turn; of each the card and then the model.
Pending(l) ==
  {t \in loader[l].paths : loader[l].bundle.models[t] = 0}
CardOpen(l, t) == loader[l].bundle.cards[t] # 0 /\ loader[l].bundle.models[t] = 0
InTurn(l, t) == t \in Pending(l) /\ \A u \in Pending(l) \ {t} : ~CardOpen(l, u)
Malformed(t) == <<t, "card">> \in emptied \/ file[<<t, "card">>] \in OldColumns

ReadsCard(l, t) ==
  /\ loader[l].pc = "locked" /\ InTurn(l, t) /\ ~CardOpen(l, t) /\ ~Malformed(t)
  /\ Becomes(l, [loader[l] EXCEPT !.bundle.cards[t] = file[<<t, "card">>]])
  /\ UNCHANGED <<store, cache, lock>>
ReadsModel(l, t) ==
  /\ loader[l].pc = "locked" /\ InTurn(l, t) /\ CardOpen(l, t)
  /\ <<t, "model">> \notin emptied
  /\ Becomes(l, [loader[l] EXCEPT !.bundle.models[t] = file[<<t, "model">>]])
  /\ UNCHANGED <<store, cache, lock>>

\* ModelLoadError leaves the lock and nothing in the cache.
Raises(l, t) ==
  /\ loader[l].pc = "locked" /\ InTurn(l, t)
  /\ IF CardOpen(l, t) THEN <<t, "model">> \in emptied ELSE Malformed(t)
  /\ lock' = None /\ Returns(l, "error", Empty)
  /\ UNCHANGED <<store, cache>>

Keeps(l) ==
  /\ loader[l].pc = "locked" /\ Pending(l) = {}
  /\ cache' = cache \cup {[key |-> loader[l].key, bundle |-> loader[l].bundle]}
  /\ lock' = None /\ Returns(l, "bundle", loader[l].bundle)
  /\ UNCHANGED store

clear_bundle_cache ==
  /\ lock = None /\ cache # {}
  /\ cache' = {}
  /\ UNCHANGED <<store, loader, lock>>

Saver ==
  \/ \E t \in Targets : OpenModel(t) \/ WriteModel(t) \/ OpenCard(t) \/ WriteCard(t)
  \/ SaverDies
Loads(l) ==
  \/ Starts(l) \/ Stats(l) \/ Hit(l) \/ Miss(l) \/ Keeps(l)
  \/ \E t \in Targets : ReadsCard(l, t) \/ ReadsModel(l, t) \/ Raises(l, t)
StoreNext == Saver \/ clear_bundle_cache \/ \E l \in Loaders : Loads(l)

StoreSpec == StoreInit /\ [][StoreNext]_storeVars

-----------------------------------------------------------------------------
\* What a load that nothing disturbs should find.
OnDisk(kind) == [t \in Targets |-> IF t \in artifact_paths THEN file[<<t, kind>>] ELSE 0]
Sound == \A t \in artifact_paths : <<t, "model">> \notin emptied /\ ~Malformed(t)

(* The cache never answers with what is no longer on disk: a load no save
   overlaps returns the files as they are, whatever loads and saves ran before,
   were cached under a key taken earlier, or died half way.  And a load that a
   save does overlap never takes a card that is newer than its model. *)
LoadSound ==
  \A l \in Loaders :
    LET call == loader[l] IN
      /\ call.pc = "bundle" => \A t \in Targets :
           /\ call.bundle.cards[t] <= call.bundle.models[t]
           /\ call.bundle.cards[t] = 0 <=> call.bundle.models[t] = 0
      /\ call.quiet /\ call.pc = "bundle" =>
           call.bundle = [models |-> OnDisk("model"), cards |-> OnDisk("card")]
      /\ call.quiet /\ call.pc = "none" => artifact_paths = {}
      /\ call.quiet /\ call.pc = "error" => ~Sound
=============================================================================

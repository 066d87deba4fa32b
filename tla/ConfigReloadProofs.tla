------------------------- MODULE ConfigReloadProofs -------------------------
(***************************************************************************)
(* Theorems of ConfigReload: types, that only a valid configuration is     *)
(* worked with, and that what a command confirmed is read or is read next. *)
(***************************************************************************)
EXTENDS ConfigReload, TLAPS

-----------------------------------------------------------------------------
\* What a tick knows between its read and its publication.
Kept ==
  /\ pc # "off" => Valid(good)
  /\ pc \in {"idle", "publish"} => running = good.controls
  /\ pc = "read" /\ ticking => running = good.controls
  /\ pc = "tell" /\ failed => running = good.controls

\* No stat is of the future, and all that is reported or about to be is read or due.
Dated ==
  /\ watched <= mtime /\ readAt <= mtime /\ seen <= mtime
  /\ \A e \in Editors : stamp[e] <= mtime
  /\ memo \in Record => memo.mtime <= mtime
  /\ statusFile \in Record => statusFile.mtime <= mtime
Founded ==
  /\ pc # "off" /\ memo \in Record => ReadOrDue(memo.mtime)
  /\ pc # "off" /\ statusFile \in Record => ReadOrDue(statusFile.mtime)
  /\ pc = "tell" => ReadOrDue(mtime)
  /\ pc = "publish" => ReadOrDue(seen)
ClaimInv ==
  /\ Dated /\ Founded /\ ClaimsComeDue
  /\ \A e \in Editors : claim[e] # "none" => epc[e] = "done"

-----------------------------------------------------------------------------
\* What the readers make of a file is a configuration.
LEMMA RawIsConfig ==
  ASSUME NEW c \in Config \cup {Broken, Torn}
  PROVE  /\ Raw(c) \in Config
         /\ Valid(c) => c \in Config
  BY ContentAssumption DEF Raw, Valid, Config, Defaults

\* The type invariant is inductive.
LEMMA TypeInitially == Init => ReloadTypeOK
<1>1. /\ [server |-> TRUE, controls |-> {}] \in Config /\ Defaults \in Config
      /\ 0 \in 0 .. MaxEvents
  BY ReloadAssumption DEF Config, Defaults
<1>2. /\ TRUE \in BOOLEAN /\ FALSE \in BOOLEAN /\ {} \in SUBSET Editors
  OBVIOUS
<1> SUFFICES ASSUME Init PROVE ReloadTypeOK
  OBVIOUS
<1>3. /\ content \in Config \cup {Broken, Torn} /\ mtime \in Nat
      /\ good \in Config /\ events \in 0 .. MaxEvents
  BY <1>1 DEF Init
<1>4. /\ epc \in [Editors -> {"start", "patch", "truncate", "write", "stat", "wait", "done"}]
      /\ base \in [Editors -> SUBSET Editors] /\ draft \in [Editors -> Config]
      /\ stamp \in [Editors -> Nat]
      /\ claim \in [Editors -> {"none", "applied", "rejected"}]
  BY <1>1 DEF Init
<1>5. /\ ticking \in BOOLEAN /\ failed \in BOOLEAN
      /\ deck \in BOOLEAN /\ up \in BOOLEAN
  BY <1>2 DEF Init
<1>6. /\ pc \in {"off", "watch", "find", "read", "tell", "publish", "idle"}
      /\ watched \in Nat /\ born \in Nat /\ readAt \in Nat /\ seen \in Nat
      /\ running \in SUBSET Editors
      /\ memo \in Record \cup {NoRecord} /\ statusFile \in Record \cup {NoRecord, NoFile}
  BY <1>2 DEF Init
<1> QED BY <1>3, <1>4, <1>5, <1>6 DEF ReloadTypeOK

\* No step leaves the types.
LEMMA TypePreserved == ReloadTypeOK /\ [Next]_vars => ReloadTypeOK'
<1> SUFFICES ASSUME ReloadTypeOK, [Next]_vars PROVE ReloadTypeOK'
  OBVIOUS
<1> USE DEF ReloadTypeOK, EditorGoto, editorVars, sidecarVars, watcherVars,
            tickVars, statusVars, worldVars, fileVars
<1>0. /\ Event => events' \in 0 .. MaxEvents
      /\ Defaults \in Config
  BY ReloadAssumption DEF Event, Config, Defaults
<1>1. ASSUME NEW e \in Editors, Edit(e) \/ Interrupted(e) PROVE ReloadTypeOK'
  <2>0. Defaults \in Config /\ Torn \in Config \cup {Broken, Torn}
    BY DEF Config, Defaults
  <2>1. CASE ReadControls(e)
    <3>1. Raw(content).controls \cup {e} \in SUBSET Editors
      BY RawIsConfig DEF Config
    <3> QED BY <2>1, <3>1 DEF ReadControls
  <2>2. CASE Patch(e)
    <3>1. [Raw(content) EXCEPT !.controls = base[e]] \in Config
      BY RawIsConfig DEF Config
    <3> QED BY <2>2, <3>1 DEF Patch
  <2>3. CASE Truncate(e)
    BY <2>0, <2>3 DEF Truncate, Save
  <2>4. CASE Write(e)
    BY <2>0, <2>4 DEF Write, Save
  <2>5. CASE StatWritten(e)
    BY <2>5 DEF StatWritten
  <2>6. CASE Confirm(e)
    BY <2>6 DEF Confirm
  <2>7. CASE GiveUp(e)
    BY <2>7 DEF GiveUp
  <2>8. CASE Interrupted(e)
    BY <1>0, <2>0, <2>8 DEF Interrupted
  <2> QED BY <1>1, <2>1, <2>2, <2>3, <2>4, <2>5, <2>6, <2>7, <2>8 DEF Edit
<1>2. CASE LoadConfig
  BY <1>2, RawIsConfig DEF LoadConfig
<1>3. CASE MakeWatcher
  BY <1>3 DEF MakeWatcher
<1>4. CASE StatConfig
  <2>1. good.controls \in SUBSET Editors
    BY DEF Config
  <2>2. watched' \in Nat /\ running' \in SUBSET Editors
    BY <1>4, <2>1 DEF StatConfig, BringUp
  <2>3. ticking' \in BOOLEAN
    BY <1>4 DEF StatConfig, BringUp
  <2>4. statusFile' \in Record \cup {NoRecord, NoFile} /\ memo' = memo
    BY <1>4 DEF StatConfig, BringUp
  <2>5. pc' \in {"off", "watch", "find", "read", "tell", "publish", "idle"}
    BY <1>4 DEF StatConfig, BringUp
  <2> QED BY <1>4, <2>2, <2>3, <2>4, <2>5 DEF StatConfig
<1>5. CASE ReadConfig
  <2>1. good' \in Config /\ good'.controls \in SUBSET Editors
    BY <1>5, RawIsConfig DEF ReadConfig, Config
  <2>2. readAt' \in Nat /\ failed' \in BOOLEAN
    BY <1>5 DEF ReadConfig, Valid
  <2> QED BY <1>5, <2>1, <2>2 DEF ReadConfig, BringUp
<1>6. CASE ApplyReload
  BY <1>6 DEF ApplyReload, Config
<1>7. CASE Publish
  BY <1>7 DEF Publish, Record
<1>8. CASE EndSession
  BY <1>8 DEF EndSession
<1>9. CASE EditByHand
  <2>1. [Raw(content) EXCEPT !.server = TRUE] \in Config
    BY RawIsConfig DEF Config
  <2>2. content' \in Config \cup {Broken, Torn} /\ mtime' \in Nat
    <3>1. PICK c \in {Broken, [Raw(content) EXCEPT !.server = TRUE]} : Save(c)
      BY <1>9 DEF EditByHand
    <3>2. c \in Config \cup {Broken, Torn}
      BY <2>1, Zenon
    <3> QED BY <3>1, <3>2 DEF Save
  <2>3. /\ events' \in 0 .. MaxEvents
        /\ UNCHANGED <<editorVars, sidecarVars, deck, up>>
    BY <1>0, <1>9 DEF EditByHand
  <2> QED BY <2>2, <2>3
<1>10. CASE Die
  BY <1>0, <1>10 DEF Die
<1>11. CASE Unplug
  BY <1>0, <1>11 DEF Unplug
<1>12. CASE ServerFails
  BY <1>0, <1>12 DEF ServerFails
<1>13. CASE Recovers
  BY <1>13 DEF Recovers
<1>14. CASE FindNoDeck
  BY <1>14 DEF FindNoDeck
<1>15. CASE UNCHANGED vars
  BY <1>15 DEF vars
<1> QED BY <1>1, <1>2, <1>3, <1>4, <1>5, <1>6, <1>7, <1>8, <1>9, <1>10, <1>11, <1>12, <1>13, <1>14, <1>15
        DEF Next, Sidecar, World

\* Types, for any number of editors and any bound.
THEOREM ReloadTypeCorrect == Spec => []ReloadTypeOK
<1>1. QED BY TypeInitially, TypePreserved, PTL DEF Spec

-----------------------------------------------------------------------------
\* An editor leaves the sidecar alone.
LEMMA EditLeavesSidecar ==
  ASSUME NEW e \in Editors, Edit(e) \/ Interrupted(e)
  PROVE  UNCHANGED sidecarVars
  BY DEF Edit, Interrupted, ReadControls, Patch, Truncate, Write, StatWritten,
         Confirm, GiveUp, Event

\* The last good configuration stays in use through broken edits.
LEMMA KeptPreserved == ReloadTypeOK /\ Kept /\ [Next]_vars => Kept'
<1> SUFFICES ASSUME ReloadTypeOK, Kept, [Next]_vars PROVE Kept'
  OBVIOUS
<1> USE DEF Kept, sidecarVars, watcherVars, tickVars, statusVars
<1>1. ASSUME UNCHANGED sidecarVars PROVE Kept'
  BY <1>1 DEF Valid
<1>2. ASSUME NEW e \in Editors, Edit(e) \/ Interrupted(e) PROVE Kept'
  BY <1>1, <1>2, EditLeavesSidecar
<1>3. CASE LoadConfig
  BY <1>3 DEF LoadConfig, Valid
<1>4. CASE MakeWatcher
  BY <1>4 DEF MakeWatcher, Valid
<1>5. CASE StatConfig
  BY <1>5 DEF StatConfig, BringUp, Valid
<1>6. CASE ReadConfig
  <2>1. Valid(good')
    BY <1>6 DEF ReadConfig, Valid
  <2>2. CASE ticking
    BY <1>6, <2>1, <2>2 DEF ReadConfig, Valid
  <2>3. CASE ~ticking
    BY <1>6, <2>1, <2>3 DEF ReadConfig, BringUp, Valid
  <2> QED BY <2>2, <2>3
<1>7. CASE ApplyReload
  BY <1>7 DEF ApplyReload, Valid
<1>8. CASE Publish
  BY <1>8 DEF Publish, Valid
<1>9. CASE EndSession
  BY <1>9 DEF EndSession, Valid
<1>10. CASE EditByHand
  BY <1>1, <1>10 DEF EditByHand
<1>11. CASE Die
  BY <1>11 DEF Die
<1>12. CASE Unplug
  BY <1>1, <1>12 DEF Unplug
<1>13. CASE ServerFails
  BY <1>1, <1>13 DEF ServerFails
<1>14. CASE Recovers
  BY <1>1, <1>14 DEF Recovers
<1>15. CASE FindNoDeck
  BY <1>15 DEF FindNoDeck, Valid
<1>16. CASE UNCHANGED vars
  BY <1>1, <1>16 DEF vars
<1> QED BY <1>2, <1>3, <1>4, <1>5, <1>6, <1>7, <1>8, <1>9, <1>10, <1>11, <1>12, <1>13, <1>14, <1>15, <1>16
        DEF Next, Sidecar, World

\* What a session works with is the last valid configuration that was read,
\* whoever writes the file and however (ConfigWatcher.poll).
THEOREM WorksWithLastGood == Spec => []Kept
<1>1. Init => Kept
  BY DEF Init, Kept
<1>2. QED BY <1>1, KeptPreserved, ReloadTypeCorrect, PTL DEF Spec

-----------------------------------------------------------------------------
\* The refinement of LastGood.
WatchNext ==
  Watch!Rewrite \/ Watch!Begin \/ Watch!End \/ Watch!Unsettle \/ Watch!Read
    \/ Watch!Settle \/ Watch!Tell \/ UNCHANGED Watch!watch

\* What can be worked with is what load_config accepts.
LEMMA UsableIsValid ==
  ASSUME NEW c \in Config \cup {Broken, Torn}
  PROVE  c \in {d \in Config : d.server} <=> Valid(c)
  BY ContentAssumption DEF Valid

\* While the sidecar does not move, anything written is a Rewrite.
LEMMA OthersRewrite ==
  ASSUME UNCHANGED <<pc, good, running, failed, memo>>
  PROVE  Watch!Rewrite
<1>1. /\ On' = On /\ Settled' = Settled /\ Pending' = Pending /\ Told' = Told
      /\ good' = good /\ running' = running
  BY DEF On, Settled, Pending, Told
<1>2. QED
  BY <1>1, Zenon DEF Watch!Rewrite

\* A start is a Begin, and being killed an End.
LEMMA StartBegins ==
  ASSUME ReloadTypeOK, memo = NoRecord, LoadConfig
  PROVE  Watch!Begin
<1>1. ~On /\ On' /\ ~Settled' /\ Pending' = "none"
  BY DEF LoadConfig, On, Settled, Pending
<1>2. Told' = "nothing"
  BY ContentAssumption DEF LoadConfig, statusVars, Told
<1>3. content \in {d \in Config : d.server} /\ good' = content
  BY UsableIsValid DEF LoadConfig, ReloadTypeOK
<1>4. content' = content /\ running' = running
  BY DEF LoadConfig, fileVars
<1>5. QED
  BY <1>1, <1>2, <1>3, <1>4, Zenon DEF Watch!Begin

LEMMA DeathEnds == ASSUME Die PROVE Watch!End
<1>1. On /\ ~On' /\ ~Settled' /\ Pending' = "none" /\ content' = content
  BY DEF Die, On, Settled, Pending, fileVars
<1>2. Told' = "nothing"
  BY ContentAssumption DEF Die, Told
<1>3. QED
  BY <1>1, <1>2, Zenon DEF Watch!End

\* A poll that finds the file changed unsettles the session, its reading is a
\* Read or, at a bring-up, part of a Settle.
LEMMA StatUnsettles ==
  ASSUME ReloadTypeOK, Kept, StatConfig
  PROVE  Watch!Unsettle \/ Watch!Settle \/ UNCHANGED Watch!watch
<1>1. /\ content' = content /\ good' = good /\ memo' = memo /\ failed' = failed
      /\ pc # "off" /\ pc' # "off" /\ pc \notin {"tell", "publish"}
      /\ pc' \notin {"tell", "publish"}
  BY DEF StatConfig, BringUp, fileVars, statusVars
<1>2. On /\ On' /\ Pending' = Pending /\ Told' = Told
  BY <1>1 DEF On, Pending, Told
<1>3. CASE mtime = watched /\ pc = "find"
  <2>1. Settled' /\ running' = good.controls
    BY <1>3 DEF StatConfig, BringUp, Settled
  <2>2. QED
    BY <1>1, <1>2, <2>1, Zenon DEF Watch!Settle
<1>4. CASE mtime = watched /\ pc # "find"
  <2>1. pc' = pc /\ running' = running
    BY <1>4 DEF StatConfig
  <2>2. Settled' = Settled /\ On' = On
    BY <1>1, <2>1 DEF Settled, On
  <2>3. QED
    BY <1>1, <1>2, <2>1, <2>2, Zenon DEF Watch!watch
<1>5. CASE mtime # watched
  <2>1. ~Settled' /\ running' = running
    BY <1>5 DEF StatConfig, Settled
  <2>2. On' = On
    BY <1>1 DEF On
  <2>3. QED
    BY <1>1, <1>2, <2>1, <2>2, Zenon DEF Watch!Unsettle
<1>6. QED
  BY <1>3, <1>4, <1>5

LEMMA ReadReads ==
  ASSUME ReloadTypeOK, ReadConfig
  PROVE  Watch!Read \/ Watch!Settle
<1>1. /\ content' = content /\ memo' = memo /\ pc = "read"
      /\ good' = (IF Valid(content) THEN content ELSE good)
      /\ failed' = ~Valid(content)
      /\ content \in {d \in Config : d.server} <=> Valid(content)
  BY UsableIsValid DEF ReadConfig, BringUp, fileVars, statusVars, ReloadTypeOK
<1>2. On /\ ~Settled /\ Pending = "none" /\ Told' = Told
  BY <1>1 DEF On, Settled, Pending, Told
<1>3. CASE ticking
  <2>1. pc' = "tell" /\ running' = running
    BY <1>3 DEF ReadConfig
  <2>2. ~Settled' /\ On' = On /\ Settled' = Settled
    BY <1>1, <2>1 DEF Settled, On
  <2>3. Pending' = IF Valid(content) THEN "applied" ELSE "rejected"
    BY <1>1, <2>1 DEF Pending, Outcome
  <2>4. CASE Valid(content)
    <3>1. Pending' = "applied" /\ good' = content /\ content \in {d \in Config : d.server}
      BY <1>1, <2>3, <2>4
    <3>2. QED
      BY <1>1, <1>2, <2>1, <2>2, <3>1, Zenon DEF Watch!Read
  <2>5. CASE ~Valid(content)
    <3>1. Pending' = "rejected" /\ good' = good /\ content \notin {d \in Config : d.server}
      BY <1>1, <2>3, <2>5
    <3>2. QED
      BY <1>1, <1>2, <2>1, <2>2, <3>1, Zenon DEF Watch!Read
  <2>6. QED
    BY <2>4, <2>5
<1>4. CASE ~ticking
  <2>1. pc' = "idle" /\ running' = good'.controls
    BY <1>4 DEF ReadConfig, BringUp
  <2>2. Settled' /\ On' = On /\ Pending' = Pending
    BY <1>1, <2>1 DEF Settled, On, Pending
  <2>3. good' = good \/ (content \in {d \in Config : d.server} /\ good' = content)
    BY <1>1
  <2>4. QED
    BY <1>1, <1>2, <2>1, <2>2, <2>3, Zenon DEF Watch!Settle
<1>5. QED
  BY <1>3, <1>4

\* What was read is taken over; a reading that failed leaves in use what the
\* last good one brought.
LEMMA ApplySettles ==
  ASSUME Kept, ApplyReload
  PROVE  Watch!Settle
<1>1. /\ content' = content /\ memo' = memo /\ good' = good /\ failed' = failed
      /\ pc = "tell" /\ pc' = "publish"
  BY DEF ApplyReload, fileVars, statusVars, watcherVars
<1>2. running' = good'.controls
  BY <1>1 DEF ApplyReload, Kept
<1>3. On /\ On' = On /\ Settled' /\ Pending' = Pending /\ Told' = Told
  BY <1>1 DEF On, Settled, Pending, Told
<1>4. QED
  BY <1>1, <1>2, <1>3, Zenon DEF Watch!Settle

\* What the record says is what the reading came to.
LEMMA PublishTells ==
  ASSUME ReloadTypeOK, Publish
  PROVE  Watch!Tell
<1>1. /\ content' = content /\ good' = good /\ running' = running
      /\ pc = "publish" /\ pc' = "idle"
  BY DEF Publish, fileVars, watcherVars
<1>2. memo' = [mtime |-> seen, error |-> failed] /\ memo' \in Record
  BY DEF Publish, Record, ReloadTypeOK
<1>3. memo'.error = failed
  BY <1>2
<1>4. Told' = Outcome(memo'.error)
  BY <1>2 DEF Told
<1>5. Told' = Outcome(failed)
  BY <1>3, <1>4, Zenon
<1>6. Pending = Outcome(failed) /\ Pending' = "none" /\ Pending # "none"
  BY <1>1 DEF Pending, Outcome
<1>7. On' = On /\ Settled /\ Settled' = Settled
  BY <1>1 DEF On, Settled
<1>8. QED
  BY <1>1, <1>5, <1>6, <1>7, Zenon DEF Watch!Tell

\* Before a start nothing is in the reporter.
SilentWhenOff == pc = "off" => memo = NoRecord
LEMMA SilencePreserved == SilentWhenOff /\ [Next]_vars => SilentWhenOff'
<1> SUFFICES ASSUME SilentWhenOff, [Next]_vars PROVE SilentWhenOff'
  OBVIOUS
<1> USE DEF SilentWhenOff, statusVars
<1>1. ASSUME UNCHANGED sidecarVars PROVE SilentWhenOff'
  BY <1>1 DEF sidecarVars
<1>2. CASE \E e \in Editors : Edit(e) \/ Interrupted(e)
  BY <1>1, <1>2, EditLeavesSidecar
<1>3. CASE LoadConfig \/ Sidecar
  <2>1. pc' # "off"
    BY <1>3 DEF Sidecar, LoadConfig, MakeWatcher, FindNoDeck, StatConfig, ReadConfig,
                ApplyReload, Publish, EndSession, BringUp
  <2>2. QED
    BY <2>1
<1>4. CASE World \/ UNCHANGED vars
  BY <1>1, <1>4 DEF World, EditByHand, Die, Unplug, ServerFails, Recovers, vars
<1>5. QED
  BY <1>2, <1>3, <1>4 DEF Next

\* config.json's reader implements its contract: it takes over only what can
\* be worked with, reads in order, and tells the outcome of a reading after it
\* is in use (ConfigWatcher.poll, apply_reload, _config_reload_status).
THEOREM LastGoodIsKept == Spec => KeepsLastGood
<1>1. Init => Watch!WatchInit
  BY ContentAssumption DEF Init, Watch!WatchInit, On, Settled, Pending, Told
<1>2. ASSUME ReloadTypeOK, Kept, SilentWhenOff, [Next]_vars PROVE WatchNext
  <2> USE <1>2 DEF WatchNext
  <2>1. ASSUME UNCHANGED sidecarVars PROVE WatchNext
    BY <2>1, OthersRewrite DEF sidecarVars, watcherVars, tickVars, statusVars
  <2>2. CASE \E e \in Editors : Edit(e) \/ Interrupted(e)
    BY <2>1, <2>2, EditLeavesSidecar
  <2>3. CASE LoadConfig
    <3>1. memo = NoRecord
      BY <2>3 DEF LoadConfig, SilentWhenOff
    <3>2. QED
      BY <2>3, <3>1, StartBegins
  <2>4. CASE MakeWatcher \/ FindNoDeck
    <3>1. /\ UNCHANGED <<content, good, running, failed, memo>>
          /\ pc \in {"watch", "find"} /\ pc' = "find"
      BY <2>4 DEF MakeWatcher, FindNoDeck, fileVars, tickVars, statusVars, watcherVars
    <3>2. On' = On /\ Settled' = Settled /\ Pending' = Pending /\ Told' = Told
      BY <3>1 DEF On, Settled, Pending, Told
    <3>3. QED
      BY <3>1, <3>2, Zenon DEF Watch!watch
  <2>5. CASE StatConfig
    BY <2>5, StatUnsettles
  <2>6. CASE ReadConfig
    BY <2>6, ReadReads
  <2>7. CASE ApplyReload
    BY <2>7, ApplySettles
  <2>8. CASE Publish
    BY <2>8, PublishTells
  <2>9. CASE EndSession
    <3>1. /\ UNCHANGED <<content, good, running, failed, memo>>
          /\ pc = "idle" /\ pc' = "find"
      BY <2>9 DEF EndSession, fileVars, tickVars, statusVars, watcherVars
    <3>2. On /\ On' = On /\ ~Settled' /\ Pending' = Pending /\ Told' = Told
      BY <3>1 DEF On, Settled, Pending, Told
    <3>3. QED
      BY <3>1, <3>2, Zenon DEF Watch!Unsettle
  <2>10. CASE Die
    BY <2>10, DeathEnds
  <2>11. CASE EditByHand \/ Unplug \/ ServerFails \/ Recovers \/ UNCHANGED vars
    BY <2>1, <2>11 DEF EditByHand, Unplug, ServerFails, Recovers, vars
  <2>12. QED
    BY <2>2, <2>3, <2>4, <2>5, <2>6, <2>7, <2>8, <2>9, <2>10, <2>11 DEF Next, Sidecar, World
<1>3. Init => SilentWhenOff
  BY DEF Init, SilentWhenOff
<1>4. QED
  BY <1>1, <1>2, <1>3, SilencePreserved, WorksWithLastGood, ReloadTypeCorrect, PTL
     DEF Spec, KeepsLastGood, Watch!WatchSpec, WatchNext

-----------------------------------------------------------------------------
\* With a stat, the earlier ones are read or due.
LEMMA DueBelow ==
  ASSUME ReloadTypeOK, NEW stat \in Nat, ReadOrDue(stat), NEW earlier \in Nat, earlier <= stat
  PROVE  ReadOrDue(earlier)
  BY DEF ReloadTypeOK, ReadOrDue

\* A change of the file is a change since the last poll: what is read or due
\* stays so when anybody but the sidecar moves.
LEMMA FoundedStays ==
  ASSUME ReloadTypeOK, Dated, Founded, UNCHANGED sidecarVars,
         mtime' \in Nat, mtime' >= mtime
  PROVE  Founded'
<1> USE DEF sidecarVars, watcherVars, tickVars, statusVars
<1>1. pc = "tell" => ReadOrDue(mtime)'
  BY DEF ReloadTypeOK, Dated, Founded, ReadOrDue
<1>2. pc = "publish" => ReadOrDue(seen)'
  BY DEF ReloadTypeOK, Dated, Founded, ReadOrDue
<1>3. pc # "off" /\ memo \in Record => ReadOrDue(memo.mtime)'
  <2>1. memo \in Record => memo.mtime \in Nat
    BY DEF Record
  <2> QED BY <2>1 DEF ReloadTypeOK, Dated, Founded, ReadOrDue
<1>4. pc # "off" /\ statusFile \in Record => ReadOrDue(statusFile.mtime)'
  <2>1. statusFile \in Record => statusFile.mtime \in Nat
    BY DEF Record
  <2> QED BY <2>1 DEF ReloadTypeOK, Dated, Founded, ReadOrDue
<1> QED BY <1>1, <1>2, <1>3, <1>4 DEF Founded

\* A command: it confirms only what is read or due, and changes the stamp of no claim.
LEMMA EditClaims ==
  ASSUME ReloadTypeOK, ClaimInv, NEW e \in Editors, Edit(e) \/ Interrupted(e)
  PROVE  ClaimInv'
<1> USE DEF ReloadTypeOK
<1>1. UNCHANGED sidecarVars
  BY EditLeavesSidecar
<1>2. mtime' \in Nat /\ mtime' >= mtime
  BY DEF Edit, Interrupted, ReadControls, Patch, Truncate, Write, StatWritten,
         Confirm, GiveUp, Event, Save, fileVars
<1>3. /\ \A i \in Editors \ {e} : UNCHANGED <<epc[i], claim[i], stamp[i]>>
      /\ stamp'[e] <= mtime
      /\ \/ claim'[e] = claim[e] /\ epc[e] # "done"
         \/ Confirm(e)
      /\ stamp' \in [Editors -> Nat]
  BY DEF Edit, Interrupted, ReadControls, Patch, Truncate, Write, StatWritten,
         Confirm, GiveUp, Event, EditorGoto, ClaimInv, Dated
<1>4. Dated'
  BY <1>1, <1>2, <1>3 DEF ClaimInv, Dated, Record, sidecarVars, watcherVars, tickVars, statusVars
<1>5. Founded'
  BY <1>1, <1>2, FoundedStays DEF ClaimInv
<1>6. \A i \in Editors : claim'[i] # "none" => epc'[i] = "done"
  BY <1>3 DEF ClaimInv, Confirm, EditorGoto
<1>7. ASSUME NEW i \in Editors, pc' # "off", claim'[i] # "none" PROVE ReadOrDue(stamp[i])'
  <2>1. pc # "off" /\ UNCHANGED <<pc, readAt, watched>>
    BY <1>1, <1>7 DEF sidecarVars, watcherVars
  <2>2. ReadOrDue(stamp[i]) /\ stamp'[i] = stamp[i]
    <3>1. CASE i # e
      BY <1>3, <1>7, <2>1, <3>1 DEF ClaimInv, ClaimsComeDue
    <3>2. CASE i = e
      <4>1. Confirm(e)
        BY <1>3, <1>7, <3>2 DEF ClaimInv
      <4>2. /\ statusFile \in Record /\ statusFile.mtime \in Nat
            /\ stamp[e] <= statusFile.mtime /\ stamp' = stamp
        BY <4>1 DEF Confirm, Record
      <4>3. ReadOrDue(statusFile.mtime)
        BY <2>1, <4>2 DEF ClaimInv, Founded
      <4> QED BY <3>2, <4>2, <4>3, DueBelow
    <3> QED BY <3>1, <3>2
  <2>3. stamp[i] \in Nat
    OBVIOUS
  <2>4. ReadOrDue(stamp[i])' <=> (readAt' >= stamp'[i] \/ (pc' \notin {"off", "watch"} /\ watched' # mtime') \/ pc' = "read")
    BY DEF ReadOrDue
  <2> QED BY <1>2, <2>1, <2>2, <2>3, <2>4 DEF ClaimInv, Dated, ReadOrDue
<1> QED BY <1>4, <1>5, <1>6, <1>7 DEF ClaimInv, ClaimsComeDue

\* The world changes the file or the deck, but nothing the watcher holds.
LEMMA WorldClaims ==
  ASSUME ReloadTypeOK, ClaimInv, mtime' \in Nat, mtime' >= mtime,
         UNCHANGED sidecarVars, UNCHANGED editorVars
  PROVE  ClaimInv'
<1>1. Dated'
  BY DEF ReloadTypeOK, ClaimInv, Dated, Record, sidecarVars, watcherVars, tickVars,
         statusVars, editorVars
<1>2. Founded'
  BY FoundedStays DEF ClaimInv
<1>3. ClaimsComeDue'
  BY DEF ReloadTypeOK, ClaimInv, Dated, ClaimsComeDue, ReadOrDue, sidecarVars, watcherVars, editorVars
<1> QED BY <1>1, <1>2, <1>3 DEF ClaimInv, editorVars

\* A step of the sidecar leaves every stat of before read or due: a poll reads the
\* file when it changed, a start reads it in any case.
LEMMA SidecarReads ==
  ASSUME ReloadTypeOK, Dated, LoadConfig \/ Sidecar, NEW stat \in Nat, stat <= mtime,
         pc = "off" \/ ReadOrDue(stat)
  PROVE  ReadOrDue(stat)'
<1> USE DEF ReloadTypeOK, Dated, ReadOrDue, fileVars
<1>1. CASE LoadConfig
  BY <1>1 DEF LoadConfig
<1>2. CASE MakeWatcher
  BY <1>2 DEF MakeWatcher, ReadOrDue
<1>3. CASE StatConfig
  BY <1>3 DEF StatConfig, BringUp
<1>4. CASE ReadConfig
  BY <1>4 DEF ReadConfig, BringUp
<1>5. CASE ApplyReload
  BY <1>5 DEF ApplyReload, watcherVars
<1>6. CASE Publish
  BY <1>6 DEF Publish, watcherVars
<1>7. CASE EndSession
  BY <1>7 DEF EndSession, watcherVars
<1>8. CASE FindNoDeck
  BY <1>8 DEF FindNoDeck, watcherVars
<1> QED BY <1>1, <1>2, <1>3, <1>4, <1>5, <1>6, <1>7, <1>8 DEF Sidecar

\* The sidecar: what it is to publish is read or due, from the read to the record.
LEMMA SidecarClaims ==
  ASSUME ReloadTypeOK, ReloadTypeOK', ClaimInv, LoadConfig \/ Sidecar
  PROVE  ClaimInv'
<1> USE DEF ReloadTypeOK
<1>1. UNCHANGED <<fileVars, editorVars>>
  BY DEF Sidecar, LoadConfig, MakeWatcher, FindNoDeck, StatConfig, ReadConfig, ApplyReload, Publish, EndSession
<1>2. memo \in Record => memo.mtime \in Nat
  BY DEF Record
<1>3. statusFile \in Record => statusFile.mtime \in Nat
  BY DEF Record
<1>4. /\ memo' = memo \/ (Publish /\ memo' = [mtime |-> seen, error |-> failed])
      /\ statusFile' \in {statusFile, memo'}
  BY DEF Sidecar, LoadConfig, MakeWatcher, FindNoDeck, StatConfig, ReadConfig, ApplyReload, Publish,
         EndSession, BringUp, statusVars, sidecarVars
<1>5. Publish => pc = "publish" /\ seen \in Nat
  BY DEF Publish
<1>6. /\ watched' <= mtime' /\ readAt' <= mtime' /\ seen' <= mtime'
  BY DEF ClaimInv, Dated, Sidecar, LoadConfig, MakeWatcher, FindNoDeck, StatConfig, ReadConfig,
         ApplyReload, Publish, EndSession, BringUp, fileVars, watcherVars, tickVars
<1>7. /\ memo' \in Record => memo'.mtime <= mtime'
      /\ statusFile' \in Record => statusFile'.mtime <= mtime'
  BY <1>1, <1>4 DEF ClaimInv, Dated, fileVars
<1>8. Dated'
  BY <1>1, <1>6, <1>7 DEF ClaimInv, Dated, fileVars, editorVars
<1>9. ASSUME pc' # "off", memo' \in Record PROVE ReadOrDue(memo.mtime)'
  <2>1. CASE memo' = memo
    BY <1>2, <1>9, <2>1, SidecarReads DEF ClaimInv, Dated, Founded
  <2>2. CASE Publish /\ memo' = [mtime |-> seen, error |-> failed]
    <3>1. ReadOrDue(seen) /\ seen <= mtime
      BY <1>5, <2>2 DEF ClaimInv, Founded, Dated
    <3>2. memo'.mtime = seen
      BY <2>2
    <3> QED BY <2>2, <3>1, <3>2 DEF Publish, ReadOrDue, watcherVars, fileVars
  <2> QED BY <1>4, <2>1, <2>2
<1>10. ASSUME pc' # "off", statusFile' \in Record PROVE ReadOrDue(statusFile.mtime)'
  <2>1. CASE statusFile' = statusFile
    BY <1>3, <1>10, <2>1, SidecarReads DEF ClaimInv, Dated, Founded
  <2>2. CASE statusFile' = memo'
    BY <1>9, <1>10, <2>2 DEF ReadOrDue
  <2> QED BY <1>4, <2>1, <2>2
<1>11. pc' = "tell" => ReadOrDue(mtime)'
  <2>1. pc' = "tell" => ReadConfig
    BY DEF Sidecar, LoadConfig, MakeWatcher, FindNoDeck, StatConfig, ReadConfig, ApplyReload, Publish,
           EndSession, BringUp
  <2> QED BY <2>1 DEF ReadConfig, ReadOrDue, fileVars
<1>12. pc' = "publish" => ReadOrDue(seen)'
  <2>1. pc' = "publish" => ApplyReload
    BY DEF Sidecar, LoadConfig, MakeWatcher, FindNoDeck, StatConfig, ReadConfig, ApplyReload, Publish,
           EndSession, BringUp
  <2> QED BY <2>1 DEF ApplyReload, ClaimInv, Founded, ReadOrDue, watcherVars, fileVars
<1>13. Founded'
  BY <1>9, <1>10, <1>11, <1>12 DEF Founded
<1>14. ASSUME NEW e \in Editors, pc' # "off", claim'[e] # "none" PROVE ReadOrDue(stamp[e])'
  <2>1. stamp[e] \in Nat /\ stamp[e] <= mtime /\ stamp' = stamp /\ claim' = claim
    BY <1>1 DEF ClaimInv, Dated, editorVars
  <2>2. pc = "off" \/ ReadOrDue(stamp[e])
    BY <1>14, <2>1 DEF ClaimInv, ClaimsComeDue
  <2> QED BY <2>1, <2>2, SidecarReads DEF ClaimInv, ReadOrDue
<1> QED BY <1>1, <1>8, <1>13, <1>14 DEF ClaimInv, ClaimsComeDue, editorVars

\* No step takes back what a claim waits for.
LEMMA ClaimsPreserved ==
  ReloadTypeOK /\ ReloadTypeOK' /\ ClaimInv /\ [Next]_vars => ClaimInv'
<1> SUFFICES ASSUME ReloadTypeOK, ReloadTypeOK', ClaimInv, [Next]_vars PROVE ClaimInv'
  OBVIOUS
<1>1. CASE \E e \in Editors : Edit(e) \/ Interrupted(e)
  BY <1>1, EditClaims
<1>2. CASE LoadConfig \/ Sidecar
  BY <1>2, SidecarClaims
<1>3. CASE Die
  <2>1. /\ UNCHANGED <<fileVars, editorVars, statusFile>> /\ memo' = NoRecord /\ pc' = "off"
        /\ watched' = 0 /\ readAt' = 0 /\ seen' = 0
    BY <1>3 DEF Die
  <2>2. Dated'
    BY <2>1, ContentAssumption DEF ReloadTypeOK, ClaimInv, Dated, fileVars, editorVars
  <2>3. Founded' /\ ClaimsComeDue'
    BY <2>1 DEF Founded, ClaimsComeDue
  <2> QED BY <2>1, <2>2, <2>3 DEF ClaimInv, editorVars
<1>4. CASE EditByHand \/ Unplug \/ ServerFails \/ Recovers \/ UNCHANGED vars
  <2>1. mtime' \in Nat /\ mtime' >= mtime
    BY <1>4 DEF EditByHand, Unplug, ServerFails, Recovers, vars, Save, fileVars, ReloadTypeOK
  <2>2. UNCHANGED <<sidecarVars, editorVars>>
    BY <1>4 DEF EditByHand, Unplug, ServerFails, Recovers, vars
  <2> QED BY <2>1, <2>2, WorldClaims
<1> QED BY <1>1, <1>2, <1>3, <1>4 DEF Next, World

\* What a command confirmed has been read, or is read by the next poll: the
\* record's second stat may confirm an edit early, and the watcher does not
\* take that edit for one it has seen (_run_active, ConfigWatcher.poll).
THEOREM EarlyClaimsComeDue == Spec => []ClaimsComeDue
<1>1. Init => ClaimInv
  <2>1. Init => Dated
    BY ContentAssumption DEF Init, Dated
  <2>2. Init => Founded /\ ClaimsComeDue
    BY DEF Init, Founded, ClaimsComeDue
  <2>3. Init => \A e \in Editors : claim[e] # "none" => epc[e] = "done"
    BY DEF Init
  <2> QED BY <2>1, <2>2, <2>3 DEF ClaimInv
<1>2. ClaimInv => ClaimsComeDue
  BY DEF ClaimInv
<1>3. QED BY <1>1, <1>2, ClaimsPreserved, ReloadTypeCorrect, PTL DEF Spec
=============================================================================

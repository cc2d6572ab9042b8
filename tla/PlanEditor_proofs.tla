------------------------- MODULE PlanEditor_proofs -------------------------
(***************************************************************************)
(* The safety of PlanEditor for any plans, runtimes, calls and bounds.     *)
(***************************************************************************)
EXTENDS PlanEditor, FiniteSetTheorems, TLAPS

Cache   == [RuntimeIds -> {"unknown", "listed", "empty"}]
Pending == [RuntimeIds -> Nat]

\* A new group, and the contents the form is given, are of the expected shape.
LEMMA Groups_Typed ==
  /\ \A r \in RuntimeIds \cup {NoRuntime}, m \in BOOLEAN :
        NewGroup(r, m) \in Group /\ OneGroup(r, m) \in Content
  /\ Absent \in Content /\ NoForm \in Plan /\ TwoGroups \in Content
<1>1. ASSUME NEW r \in RuntimeIds \cup {NoRuntime}, NEW m \in BOOLEAN
      PROVE  NewGroup(r, m) \in Group /\ OneGroup(r, m) \in Content
  <2>1. NewGroup(r, m) \in Group
    BY DEF NewGroup, Group
  <2>2. <<NewGroup(r, m)>> \in Seq(Group)
    BY <2>1
  <2> QED BY <2>1, <2>2 DEF OneGroup, Content
<1>2. Absent \in Content
  <2>1. <<>> \in Seq(Group)
    OBVIOUS
  <2> QED BY <2>1 DEF Absent, Content
<1>3. NoForm \in Plan
  BY <1>1 DEF NoForm, Plan
<1>4. TwoGroups \in Content
  <2>1. NewGroup(DefaultRuntime, TRUE) \in Group
    BY <1>1, EditorAssumption DEF RuntimeIds
  <2>2. [NewGroup(NoRuntime, FALSE) EXCEPT !.on = FALSE] \in Group
    BY DEF NewGroup, Group
  <2>3. <<NewGroup(DefaultRuntime, TRUE), [NewGroup(NoRuntime, FALSE) EXCEPT !.on = FALSE]>>
           \in Seq(Group)
    <3>1. \A a, b \in Group : <<a, b>> \in Seq(Group)
      OBVIOUS
    <3> QED BY <2>1, <2>2, <3>1
  <2> QED BY <2>3 DEF TwoGroups, Content
<1> QED BY <1>1, <1>2, <1>3, <1>4

\* Filling in runtimes keeps a plan a plan, and its id, and changes nothing but
\* runtimes that were missing.
LEMMA WithRuntime_Fills ==
  ASSUME NEW f \in Plan
  PROVE  /\ WithRuntime(f) \in Plan
         /\ WithRuntime(f).id = f.id
         /\ OnlyFilled(WithRuntime(f), f)
<1> DEFINE old == f.content.groups
           new == [i \in DOMAIN old |-> IF old[i].runtime = NoRuntime
                                        THEN [old[i] EXCEPT !.runtime = DefaultRuntime]
                                        ELSE old[i]]
<1>1. f.id \in Plans \cup {NoPlan} /\ old \in Seq(Group) /\ f.content.rest \in {0, 1}
  BY DEF Plan, Content
<1>2. WithRuntime(f) = [id |-> f.id, content |-> [groups |-> new, rest |-> f.content.rest]]
  <2>1. WithRuntime(f) = [f EXCEPT !.content.groups = new]
    BY DEF WithRuntime
  <2>2. /\ f = [id |-> f.id, content |-> f.content]
        /\ f.content = [groups |-> old, rest |-> f.content.rest]
    BY DEF Plan, Content
  <2> HIDE DEF new
  <2> QED BY <2>1, <2>2
<1>3. ASSUME NEW i \in DOMAIN old
      PROVE  /\ new[i] \in Group
             /\ new[i] = old[i] \/ (/\ old[i].runtime = NoRuntime
                                    /\ new[i].model = old[i].model /\ new[i].on = old[i].on)
  <2>1. old[i] \in Group
    BY <1>1
  <2> QED BY <2>1, EditorAssumption DEF Group, RuntimeIds
<1>4. new \in Seq(Group) /\ Len(new) = Len(old) /\ DOMAIN new = DOMAIN old
  <2>1. DOMAIN old = 1..Len(old) /\ Len(old) \in Nat
    BY <1>1
  <2>2. new \in [1..Len(old) -> Group]
    BY <2>1, <1>3
  <2> QED BY <2>1, <2>2
<1> HIDE DEF new
<1>5. WithRuntime(f) \in Plan /\ WithRuntime(f).id = f.id
  BY <1>1, <1>2, <1>4 DEF Plan, Content
<1>6. /\ WithRuntime(f).content.rest = f.content.rest
      /\ WithRuntime(f).content.groups = new
  BY <1>2
<1> QED BY <1>3, <1>4, <1>5, <1>6 DEF OnlyFilled

\* Every plan is one that was only filled in.
LEMMA OnlyFilled_Reflexive ==
  ASSUME NEW f
  PROVE  OnlyFilled(f, f)
BY DEF OnlyFilled

LEMMA Uses_Natural ==
  ASSUME NEW groups \in Seq(Group), NEW r
  PROVE  Uses(groups, r) \in Nat
<1>1. DOMAIN groups = 1..Len(groups) /\ Len(groups) \in Nat
  OBVIOUS
<1>2. IsFiniteSet(1..Len(groups))
  BY <1>1, FS_Interval
<1>3. {i \in DOMAIN groups : groups[i].runtime = r} \in SUBSET (1..Len(groups))
  BY <1>1
<1>4. IsFiniteSet({i \in DOMAIN groups : groups[i].runtime = r})
  BY <1>2, <1>3, FS_Subset
<1> QED BY <1>4, FS_CardinalityType DEF Uses

\* What the effects of a render leave: the loaded plan, if one is copied into
\* the form, and else the form, filled in or as it was.
LEMMA Render_Shows ==
  ASSUME NEW f \in Plan, NEW a \in Plan, NEW c \in Cache, NEW pending \in Pending,
         NEW rts \in BOOLEAN, NEW why, Render(f, a, c, pending, rts, why)
  PROVE  /\ form' \in Plan /\ loading' \in Pending
         /\ IF a.id # NoPlan /\ why \cap {"plan", "cache"} # {} THEN form' = a
            ELSE form' = f \/ form' = WithRuntime(f)
<1> DEFINE fills     == rts /\ why \cap {"runtimes", "cache"} # {}
           populates == a.id # NoPlan /\ why \cap {"plan", "cache"} # {}
           wanted(r) ==
              (IF fills /\ r = DefaultRuntime THEN Uses(f.content.groups, NoRuntime) ELSE 0)
              + (IF populates THEN Uses(a.content.groups, r) ELSE 0)
           new == Fetches(c, [r \in RuntimeIds |-> wanted(r)])
<1>1. /\ form' = IF populates THEN a ELSE IF fills THEN WithRuntime(f) ELSE f
      /\ loading' = [r \in RuntimeIds |-> pending[r] + new[r]]
  BY DEF Render
<1>2. \A r \in RuntimeIds : wanted(r) \in Nat
  <2>1. f.content.groups \in Seq(Group) /\ a.content.groups \in Seq(Group)
    BY DEF Plan, Content
  <2>2. \A r : Uses(f.content.groups, r) \in Nat /\ Uses(a.content.groups, r) \in Nat
    BY <2>1, Uses_Natural
  <2> QED BY <2>2
<1> HIDE DEF wanted
<1>3. new \in Pending
  BY <1>2 DEF Fetches, Pending
<1> HIDE DEF new
<1>4. loading' \in Pending
  BY <1>1, <1>3 DEF Pending
<1>5. WithRuntime(f) \in Plan
  BY WithRuntime_Fills
<1> QED BY <1>1, <1>4, <1>5

\* What a handler adds to the fetches under way.
LEMMA Asking_Typed ==
  ASSUME EditorTypeOK
  PROVE  /\ \A r \in RuntimeIds \cup {NoRuntime} : Asking(r) \in Pending
         /\ AskingDefault \in Pending /\ NoFetch \in Pending
<1>1. loading \in Pending
  BY DEF EditorTypeOK, Pending
<1>2. ASSUME NEW r \in RuntimeIds \cup {NoRuntime} PROVE Asking(r) \in Pending
  <2> DEFINE new == Fetches(cache, [q \in RuntimeIds |-> IF q = r THEN 1 ELSE 0])
  <2>1. new \in Pending
    BY DEF Fetches, Pending
  <2>2. Asking(r) = [q \in RuntimeIds |-> loading[q] + new[q]]
    BY DEF Asking
  <2> HIDE DEF new
  <2> QED BY <1>1, <2>1, <2>2 DEF Pending
<1>3. NoFetch \in Pending
  BY DEF NoFetch, Pending
<1> QED BY <1>1, <1>2, <1>3, EditorAssumption DEF AskingDefault, RuntimeIds

LEMMA FirstRuntime_Typed ==
  ASSUME EditorTypeOK
  PROVE  /\ FirstRuntime \in RuntimeIds \cup {NoRuntime} /\ FirstModel \in BOOLEAN
         /\ FreshForm \in Plan /\ FreshForm.id = NoPlan
<1>1. FirstRuntime \in RuntimeIds \cup {NoRuntime} /\ FirstModel \in BOOLEAN
  BY EditorAssumption DEF RuntimeIds, FirstRuntime, FirstModel, EditorTypeOK
<1> QED BY <1>1, Groups_Typed DEF FreshForm, Plan

\* Putting a group in, or taking one out, leaves a sequence of groups.
LEMMA InsertRemove_Typed ==
  ASSUME NEW s \in Seq(Group), NEW i \in DOMAIN s
  PROVE  InsertAt(s, i + 1, s[i]) \in Seq(Group) /\ RemoveAt(s, i) \in Seq(Group)
<1>1. i \in 1..Len(s) /\ Len(s) \in Nat /\ s[i] \in Group
  OBVIOUS
<1>2. /\ SubSeq(s, 1, i) \in Seq(Group) /\ SubSeq(s, i + 1, Len(s)) \in Seq(Group)
      /\ SubSeq(s, 1, i - 1) \in Seq(Group) /\ <<s[i]>> \in Seq(Group)
  BY <1>1
<1>3. i + 1 - 1 = i
  BY <1>1
<1> QED BY <1>2, <1>3 DEF InsertAt, RemoveAt

LEMMA Replace_Typed ==
  ASSUME NEW s \in Seq(Group), NEW i \in DOMAIN s, NEW g \in Group
  PROVE  [s EXCEPT ![i] = g] \in Seq(Group)
OBVIOUS

LEMMA WithGroups_Typed ==
  ASSUME form \in Plan, NEW g \in Seq(Group)
  PROVE  WithGroups(g) \in Plan /\ WithGroups(g).id = form.id
BY DEF WithGroups, Plan, Content

\* An edit gives the form another content, and keeps the id or takes it away.
LEMMA EditForm_Edits ==
  ASSUME EditorTypeOK, EditForm
  PROVE  \E f \in Plan, l \in Pending : Edit(f, l) /\ f.id \in {form.id, NoPlan}
<1>1. form \in Plan /\ Groups \in Seq(Group) /\ loading \in Pending
  BY DEF EditorTypeOK, Plan, Content, Groups, Pending
<1> USE DEF Pending
<1>2. CASE AddThreadGroup
  <2>1. NewGroup(FirstRuntime, FirstModel) \in Group
    BY FirstRuntime_Typed, Groups_Typed
  <2>2. Append(Groups, NewGroup(FirstRuntime, FirstModel)) \in Seq(Group)
    BY <1>1, <2>1
  <2> QED BY <1>1, <1>2, <2>2, WithGroups_Typed, Asking_Typed DEF AddThreadGroup
<1>3. CASE UpdateElement
  <2>1. /\ [form EXCEPT !.content.rest = 1 - @] \in Plan
        /\ [form EXCEPT !.content.rest = 1 - @].id = form.id
    BY <1>1 DEF Plan, Content
  <2> QED BY <1>1, <1>3, <2>1 DEF UpdateElement
<1>4. CASE LoadBlueprint
  <2>1. [id |-> NoPlan, content |-> OneGroup(FirstRuntime, TRUE)] \in Plan
    BY FirstRuntime_Typed, Groups_Typed DEF Plan
  <2> QED BY <1>4, <2>1, Asking_Typed DEF LoadBlueprint
<1>5. CASE ApplyImportJson
  <2>1. PICK groups \in {<<>>, <<NewGroup(NoRuntime, TRUE)>>, <<NewGroup(DefaultRuntime, FALSE)>>,
                         <<NewGroup(Unregistered, TRUE)>>} :
           Edit([id |-> NoPlan, content |-> [groups |-> groups, rest |-> 0]], loading)
    BY <1>5 DEF ApplyImportJson
  <2>2. /\ NewGroup(NoRuntime, TRUE) \in Group /\ NewGroup(DefaultRuntime, FALSE) \in Group
        /\ NewGroup(Unregistered, TRUE) \in Group
    BY Groups_Typed, EditorAssumption DEF RuntimeIds
  <2>3. groups \in Seq(Group)
    <3>1. <<>> \in Seq(Group) /\ \A g \in Group : <<g>> \in Seq(Group)
      OBVIOUS
    <3> QED BY <2>2, <3>1
  <2>4. [id |-> NoPlan, content |-> [groups |-> groups, rest |-> 0]] \in Plan
    BY <2>3 DEF Plan, Content
  <2> QED BY <1>1, <2>1, <2>4
<1>6. ASSUME NEW i \in DOMAIN Groups,
             \/ UpdateModel(i) \/ DuplicateThreadGroup(i) \/ RemoveThreadGroup(i)
             \/ ToggleNodeEnabled(i) \/ \E r \in Runtimes \cup {NoRuntime} : UpdateRuntime(i, r)
      PROVE  \E f \in Plan, l \in Pending : Edit(f, l) /\ f.id \in {form.id, NoPlan}
  <2>1. Groups[i] \in Group
    BY <1>1
  <2>2. CASE UpdateModel(i)
    <3>1. [Groups EXCEPT ![i].model = ~@] \in Seq(Group)
      <4>1. [Groups[i] EXCEPT !.model = ~@] \in Group
        BY <2>1 DEF Group
      <4>2. [Groups EXCEPT ![i] = [Groups[i] EXCEPT !.model = ~@]] \in Seq(Group)
        BY <1>1, <4>1, Replace_Typed
      <4> QED BY <4>2
    <3> QED BY <1>1, <2>2, <3>1, WithGroups_Typed DEF UpdateModel
  <2>3. CASE DuplicateThreadGroup(i)
    BY <1>1, <2>3, InsertRemove_Typed, WithGroups_Typed DEF DuplicateThreadGroup
  <2>4. CASE RemoveThreadGroup(i)
    BY <1>1, <2>4, InsertRemove_Typed, WithGroups_Typed DEF RemoveThreadGroup
  <2>5. CASE ToggleNodeEnabled(i)
    <3>1. [Groups EXCEPT ![i].on = ~@] \in Seq(Group)
      <4>1. [Groups[i] EXCEPT !.on = ~@] \in Group
        BY <2>1 DEF Group
      <4>2. [Groups EXCEPT ![i] = [Groups[i] EXCEPT !.on = ~@]] \in Seq(Group)
        BY <1>1, <4>1, Replace_Typed
      <4> QED BY <4>2
    <3> QED BY <1>1, <2>5, <3>1, WithGroups_Typed DEF ToggleNodeEnabled
  <2>6. ASSUME NEW r \in Runtimes \cup {NoRuntime}, UpdateRuntime(i, r)
        PROVE  \E f \in Plan, l \in Pending : Edit(f, l) /\ f.id \in {form.id, NoPlan}
    <3>1. [Groups EXCEPT ![i].runtime = r, ![i].model = FALSE] \in Seq(Group)
      <4>1. [Groups[i] EXCEPT !.runtime = r, !.model = FALSE] \in Group
        BY <2>1 DEF Group, RuntimeIds
      <4>2. [Groups EXCEPT ![i] = [Groups[i] EXCEPT !.runtime = r, !.model = FALSE]] \in Seq(Group)
        BY <1>1, <4>1, Replace_Typed
      <4> QED BY <4>2
    <3>2. Asking(r) \in Pending
      BY Asking_Typed DEF RuntimeIds
    <3> QED BY <1>1, <2>6, <3>1, <3>2, WithGroups_Typed DEF UpdateRuntime
  <2> QED BY <1>6, <2>2, <2>3, <2>4, <2>5, <2>6
<1> QED BY <1>2, <1>3, <1>4, <1>5, <1>6 DEF EditForm

\* The types of what a render leaves.
LEMMA Render_Typed ==
  ASSUME EditorTypeOK, NEW f \in Plan, NEW a \in Plan, NEW c \in Cache, NEW pending \in Pending,
         NEW rts \in BOOLEAN, NEW why, Render(f, a, c, pending, rts, why)
  PROVE  form' \in Plan /\ loading' \in [RuntimeIds -> Nat]
BY Render_Shows DEF Pending

\* What the handlers do to a call.
LEMMA Call_Typed ==
  /\ Idle \in Call
  /\ \A k \in Call : /\ \A stage \in Stage : [k EXCEPT !.stage = stage] \in Call
                      /\ [k EXCEPT !.mine = FALSE] \in Call
  /\ \A k \in Call, P \in BOOLEAN : [k EXCEPT !.crossed = @ \/ P] \in Call
<1>1. Idle \in Call
  BY Groups_Typed DEF Idle, Call, Stage
<1>2. ASSUME NEW k \in Call
      PROVE  /\ \A stage \in Stage : [k EXCEPT !.stage = stage] \in Call
             /\ [k EXCEPT !.mine = FALSE] \in Call
  BY DEF Call
<1>3. ASSUME NEW k \in Call, NEW P \in BOOLEAN
      PROVE  [k EXCEPT !.crossed = @ \/ P] \in Call
  <2>1. (k.crossed \/ P) \in BOOLEAN
    OBVIOUS
  <2>2. \A b \in BOOLEAN : [k EXCEPT !.crossed = b] \in Call
    BY DEF Call
  <2> QED BY <2>1, <2>2
<1> QED BY <1>1, <1>2, <1>3

LEMMA Calls_Typed ==
  ASSUME NEW f \in [Calls -> Call], NEW c, NEW k \in Call
  PROVE  [f EXCEPT ![c] = k] \in [Calls -> Call]
OBVIOUS

LEMMA Disown_Typed ==
  ASSUME EditorTypeOK
  PROVE  Disown \in [Calls -> Call]
<1>1. ASSUME NEW c \in Calls PROVE [call[c] EXCEPT !.mine = FALSE] \in Call
  <2>1. call[c] \in Call
    BY DEF EditorTypeOK
  <2> QED BY <2>1 DEF Call
<1> QED BY <1>1 DEF Disown

LEMMA Crossing_Typed ==
  ASSUME EditorTypeOK, NEW c, NEW p
  PROVE  Crossing(c, p) \in [Calls -> Call]
<1>1. ASSUME NEW d \in Calls
      PROVE  [call[d] EXCEPT !.crossed = @ \/ (d # c /\ call[d].plan = p)] \in Call
  <2>1. call[d] \in Call /\ (d # c /\ call[d].plan = p) \in BOOLEAN
    BY DEF EditorTypeOK
  <2> QED BY <2>1, Call_Typed
<1> QED BY <1>1 DEF Crossing

\* Every variable keeps its type, for any plans, runtimes, calls and bounds.
THEOREM EditorTypeCorrect == EditorSpec => []EditorTypeOK
<1>1. EditorInit => EditorTypeOK
  <2> SUFFICES ASSUME EditorInit PROVE EditorTypeOK
    OBVIOUS
  <2>1. stored \in Table /\ plans \in Table
    BY Groups_Typed DEF EditorInit, StoredFirst, Table
  <2>2. jobs \in Seq(Job) /\ events \in Seq(Event)
    BY DEF EditorInit
  <2>3. call \in [Calls -> Call]
    BY DEF EditorInit, Idle, Call, Stage
  <2>4. loading \in [RuntimeIds -> Nat] /\ cache \in [RuntimeIds -> {"unknown", "listed", "empty"}]
    BY DEF EditorInit, NoFetch
  <2>5. active \in Plan /\ form \in Plan
    BY Groups_Typed DEF EditorInit
  <2>6. deletion \in Deletion
    BY Groups_Typed DEF EditorInit, NoDeletion, Deletion, NoForm
  <2> QED BY <2>1, <2>2, <2>3, <2>4, <2>5, <2>6 DEF EditorInit, EditorTypeOK
<1>2. EditorTypeOK /\ [EditorNext]_vars => EditorTypeOK'
  <2> SUFFICES ASSUME EditorTypeOK, [EditorNext]_vars PROVE EditorTypeOK'
    OBVIOUS
  <2> USE DEF serverVars, planVars, formVars, userVars, mountVars
  <2>1. CASE UNCHANGED vars
    BY <2>1 DEF vars, EditorTypeOK
  <2>2. CASE Mount
    <3>1. /\ cache' = [r \in RuntimeIds |-> "unknown"]
          /\ Render(NoForm, active, cache', NoFetch, known, {"plan", "runtimes", "cache"})
      BY <2>2 DEF Mount
    <3>2. NoForm \in Plan /\ active \in Plan /\ cache' \in Cache /\ known \in BOOLEAN
      BY <3>1, Groups_Typed DEF EditorTypeOK, Cache
    <3>3. form' \in Plan /\ loading' \in [RuntimeIds -> Nat]
      BY <3>1, <3>2, Render_Typed, Asking_Typed
    <3> QED BY <2>2, <3>2, <3>3 DEF Mount, EditorTypeOK, Cache
  <2>3. CASE Leave
    <3>1. call' \in [Calls -> Call]
      BY <2>3, Disown_Typed DEF Leave
    <3>2. /\ form' \in Plan /\ loading' \in [RuntimeIds -> Nat]
          /\ cache' \in [RuntimeIds -> {"unknown", "listed", "empty"}]
      BY <2>3, Groups_Typed, Asking_Typed DEF Leave, Unmount, Pending
    <3>3. deletion' \in Deletion
      BY <2>3 DEF Leave, Unmount, EditorTypeOK, Deletion
    <3>4. mounted' \in BOOLEAN
      BY <2>3 DEF Leave, Unmount
    <3>6. turns' \in Nat
      BY <2>3 DEF Leave, EditorTypeOK
    <3>5. UNCHANGED <<serverVars, running, planVars, listing, fetching, known, userVars, late>>
      BY <2>3 DEF Leave
    <3> QED BY <3>1, <3>2, <3>3, <3>4, <3>5, <3>6 DEF EditorTypeOK
  <2>4. CASE EditForm
    <3>1. PICK f \in Plan, l \in Pending : Edit(f, l)
      BY <2>4, EditForm_Edits
    <3> QED BY <3>1 DEF Edit, EditorTypeOK, Pending
  <2>5. CASE ResetToNew
    <3>1. active' \in Plan /\ form' \in Plan /\ loading' \in [RuntimeIds -> Nat]
      BY <2>5, Asking_Typed, FirstRuntime_Typed, Groups_Typed DEF ResetToNew, Pending
    <3>2. listed' \in BOOLEAN
      BY <2>5 DEF ResetToNew
    <3>3. acts' \in Nat /\ UNCHANGED edits
      BY <2>5 DEF ResetToNew, Act, EditorTypeOK
    <3> QED BY <2>5, <3>1, <3>2, <3>3 DEF ResetToNew, EditorTypeOK
  <2>6. CASE Delete
    <3>1. deletion' \in Deletion
      <4>1. /\ form.id \in Plans \cup {NoPlan}
            /\ FreshForm \in {f \in Plan : f.id = NoPlan}
        BY FirstRuntime_Typed DEF EditorTypeOK, Plan
      <4>2. (known /\ cache[DefaultRuntime] = "unknown") \in BOOLEAN
        OBVIOUS
      <4> QED BY <2>6, <4>1, <4>2 DEF Delete, Deletion
    <3> QED BY <2>6, <3>1 DEF Delete, Act, EditorTypeOK
  <2>7. ASSUME NEW p \in Plans, SelectPlan(p) PROVE EditorTypeOK'
    <3>1. active' = [id |-> p, content |-> plans[p]] /\ active' \in Plan
      BY <2>7 DEF SelectPlan, EditorTypeOK, Table, Plan
    <3>2. form' \in Plan /\ loading' \in [RuntimeIds -> Nat]
      <4>1. Render(form, active', cache, loading, known, {"plan"})
        BY <2>7 DEF SelectPlan
      <4>2. form \in Plan /\ cache \in Cache /\ loading \in Pending /\ known \in BOOLEAN
        BY DEF EditorTypeOK, Cache, Pending
      <4> QED BY <3>1, <4>1, <4>2, Render_Typed
    <3> QED BY <2>7, <3>1, <3>2 DEF SelectPlan, Act, EditorTypeOK
  <2>8. ASSUME NEW c \in Calls, NEW run \in BOOLEAN, Click(c, run) PROVE EditorTypeOK'
    <3>1. /\ FirstAwait(run) \in Stage
          /\ form.id \in Plans \cup {NoPlan} /\ SaveId \in Plans \cup {NoPlan}
          /\ form.content \in Content
      BY DEF FirstAwait, Stage, SaveId, EditorTypeOK, Plan
    <3>2. call' \in [Calls -> Call]
      <4> DEFINE new == [stage |-> FirstAwait(run), run |-> run,
                         plan |-> IF FirstAwait(run) = "posting" THEN form.id ELSE SaveId,
                         content |-> form.content, mine |-> TRUE, crossed |-> FALSE, job |-> 0]
      <4>1. new \in Call
        BY <3>1 DEF Call
      <4>2. call' = [call EXCEPT ![c] = new] /\ call \in [Calls -> Call]
        BY <2>8 DEF Click, EditorTypeOK
      <4> HIDE DEF new
      <4> QED BY <4>1, <4>2, Calls_Typed
    <3> QED BY <2>8, <3>2 DEF Click, Act, EditorTypeOK
  <2>9. CASE PlansAnswer
    <3>1. plans' \in Table
      BY <2>9 DEF PlansAnswer, EditorTypeOK
    <3> QED BY <2>9, <3>1 DEF PlansAnswer, EditorTypeOK
  <2>10. CASE RuntimesAnswer
    <3>1. form' \in Plan /\ loading' \in [RuntimeIds -> Nat]
      <4>1. CASE mounted
        <5>1. Render(form, active, cache, loading, TRUE, {"runtimes"})
          BY <2>10, <4>1 DEF RuntimesAnswer
        <5>2. form \in Plan /\ active \in Plan /\ cache \in Cache /\ loading \in Pending
          BY DEF EditorTypeOK, Cache, Pending
        <5> QED BY <5>1, <5>2, Render_Typed
      <4>2. CASE ~mounted
        BY <2>10, <4>2 DEF RuntimesAnswer, EditorTypeOK
      <4> QED BY <4>1, <4>2
    <3> QED BY <2>10, <3>1 DEF RuntimesAnswer, EditorTypeOK
  <2>11. CASE ServeDelete
    <3>1. stored' \in Table
      BY <2>11, Groups_Typed DEF ServeDelete, EditorTypeOK, Table
    <3>2. deletion' \in Deletion
      BY <2>11 DEF ServeDelete, EditorTypeOK, Deletion
    <3> QED BY <2>11, <3>1, <3>2 DEF ServeDelete, EditorTypeOK
  <2>12. CASE DeleteAnswers
    <3>1. /\ form' \in Plan /\ loading' \in [RuntimeIds -> Nat] /\ plans' \in Table
          /\ active' \in Plan /\ listed' \in BOOLEAN
      <4>1. deletion \in Deletion /\ loading \in [RuntimeIds -> Nat]
        BY DEF EditorTypeOK
      <4>2. /\ deletion.blank \in Plan
            /\ \A n \in {0, 1} : [loading EXCEPT ![DefaultRuntime] = @ + n] \in [RuntimeIds -> Nat]
        BY <4>1, EditorAssumption DEF Deletion, RuntimeIds
      <4> QED BY <2>12, <4>2, Groups_Typed DEF DeleteAnswers, EditorTypeOK, Table
    <3>2. deletion' \in Deletion
      BY <2>12, Groups_Typed DEF DeleteAnswers, NoDeletion, Deletion, NoForm
    <3> QED BY <2>12, <3>1, <3>2 DEF DeleteAnswers, EditorTypeOK
  <2>13. ASSUME NEW r \in RuntimeIds, ModelsAnswer(r) PROVE EditorTypeOK'
    <3>1. cache' \in Cache /\ [loading EXCEPT ![r] = @ - 1] \in Pending
      BY <2>13 DEF ModelsAnswer, EditorTypeOK, Cache, Pending
    <3>2. form' \in Plan /\ loading' \in [RuntimeIds -> Nat]
      <4>1. Render(form, active, cache', [loading EXCEPT ![r] = @ - 1], known, {"cache"})
        BY <2>13 DEF ModelsAnswer
      <4>2. form \in Plan /\ active \in Plan /\ known \in BOOLEAN
        BY DEF EditorTypeOK
      <4> QED BY <3>1, <4>1, <4>2, Render_Typed
    <3> QED BY <2>13, <3>1, <3>2 DEF ModelsAnswer, EditorTypeOK, Cache
  <2>14. ASSUME NEW c \in Calls, ServeSave(c) PROVE EditorTypeOK'
    <3>1. PICK p \in IF call[c].plan = NoPlan THEN fresh ELSE {call[c].plan} :
            /\ fresh' = fresh \ {p}
            /\ IF call[c].plan # NoPlan /\ stored[p] = Absent
               THEN /\ call' = [call EXCEPT ![c].stage = "failed"]
                    /\ UNCHANGED stored
               ELSE /\ call' = [Crossing(c, p) EXCEPT
                                   ![c].stage = IF call[c].plan = NoPlan
                                                THEN "created" ELSE "updated",
                                   ![c].plan = p]
                    /\ stored' = [stored EXCEPT ![p] = call[c].content]
      BY <2>14 DEF ServeSave
    <3>2. p \in Plans /\ call[c] \in Call
      BY <3>1 DEF EditorTypeOK, Call
    <3>3. Crossing(c, p) \in [Calls -> Call]
      BY Crossing_Typed
    <3>4. call' \in [Calls -> Call]
      <4>1. CASE call[c].plan # NoPlan /\ stored[p] = Absent
        BY <3>1, <3>2, <4>1, Call_Typed, Calls_Typed DEF EditorTypeOK, Stage
      <4>2. CASE ~(call[c].plan # NoPlan /\ stored[p] = Absent)
        <5> DEFINE stage == IF call[c].plan = NoPlan THEN "created" ELSE "updated"
        <5>1. Crossing(c, p)[c] \in Call /\ stage \in Stage
          BY <3>3 DEF Stage
        <5> HIDE DEF stage
        <5>2. [Crossing(c, p)[c] EXCEPT !.stage = stage, !.plan = p] \in Call
          BY <3>2, <5>1 DEF Call
        <5>3. [Crossing(c, p) EXCEPT ![c] = [Crossing(c, p)[c] EXCEPT !.stage = stage, !.plan = p]]
                 \in [Calls -> Call]
          BY <3>3, <5>2, Calls_Typed
        <5>4. call' = [Crossing(c, p) EXCEPT ![c].stage = stage, ![c].plan = p]
          BY <3>1, <4>2 DEF stage
        <5> QED BY <5>3, <5>4
      <4> QED BY <4>1, <4>2
    <3>5. stored' \in Table /\ fresh' \subseteq Plans
      BY <3>1, <3>2, Groups_Typed DEF EditorTypeOK, Call, Table
    <3> QED BY <2>14, <3>4, <3>5 DEF ServeSave, EditorTypeOK
  <2>15. ASSUME NEW c \in Calls, SaveAnswers(c) PROVE EditorTypeOK'
    <3>1. call[c].plan \in Plans \cup {NoPlan} /\ call[c].content \in Content
      BY Groups_Typed DEF EditorTypeOK, Call
    <3>2. active' = [id |-> call[c].plan, content |-> call[c].content] /\ active' \in Plan
      BY <2>15, <3>1 DEF SaveAnswers, Plan
    <3>3. listed' \in BOOLEAN /\ plans' \in Table
      BY <2>15, <3>1 DEF SaveAnswers, EditorTypeOK, Table
    <3>4. call' \in [Calls -> Call]
      <4>1. [call[c] EXCEPT !.stage = "posting"] \in Call /\ Idle \in Call
        BY Call_Typed DEF EditorTypeOK, Stage
      <4>2. \/ call' = [call EXCEPT ![c] = [call[c] EXCEPT !.stage = "posting"]]
            \/ call' = [call EXCEPT ![c] = Idle]
        BY <2>15 DEF SaveAnswers
      <4> QED BY <4>1, <4>2, Calls_Typed DEF EditorTypeOK
    <3>5. form' \in Plan /\ loading' \in [RuntimeIds -> Nat]
      <4>1. CASE mounted
        <5>1. Render(form, active', cache, loading, known, {"plan"})
          BY <2>15, <4>1 DEF SaveAnswers
        <5>2. form \in Plan /\ cache \in Cache /\ loading \in Pending /\ known \in BOOLEAN
          BY DEF EditorTypeOK, Cache, Pending
        <5> QED BY <3>2, <5>1, <5>2, Render_Typed
      <4>2. CASE ~mounted
        BY <2>15, <4>2 DEF SaveAnswers, EditorTypeOK
      <4> QED BY <4>1, <4>2
    <3> QED BY <2>15, <3>2, <3>3, <3>4, <3>5 DEF SaveAnswers, EditorTypeOK
  <2>16. ASSUME NEW c \in Calls, CallFails(c) PROVE EditorTypeOK'
    <3>1. call' \in [Calls -> Call]
      BY <2>16, Call_Typed, Calls_Typed DEF CallFails, EditorTypeOK
    <3> QED BY <2>16, <3>1 DEF CallFails, EditorTypeOK
  <2>17. ASSUME NEW c \in Calls, ServeRun(c) PROVE EditorTypeOK'
    <3>1. call' \in [Calls -> Call]
      <4>1. [call[c] EXCEPT !.stage = "refused"] \in Call
        BY Call_Typed DEF EditorTypeOK, Stage
      <4>2. [call[c] EXCEPT !.stage = "posted", !.job = Len(jobs) + 1] \in Call
        <5>1. call[c] \in Call /\ Len(jobs) + 1 \in Nat
          BY DEF EditorTypeOK
        <5> QED BY <5>1 DEF Call, Stage
      <4>3. \/ call' = [call EXCEPT ![c] = [call[c] EXCEPT !.stage = "refused"]]
            \/ call' = [call EXCEPT ![c] = [call[c] EXCEPT !.stage = "posted",
                                                           !.job = Len(jobs) + 1]]
        BY <2>17 DEF ServeRun
      <4> QED BY <4>1, <4>2, <4>3, Calls_Typed DEF EditorTypeOK
    <3>2. jobs' \in Seq(Job)
      <4> DEFINE inline == call[c].plan = NoPlan
                 config == IF inline THEN call[c].content ELSE stored[call[c].plan]
                 job == [config |-> config, asked |-> call[c].content,
                         crossed |-> call[c].crossed, stage |-> "new"]
      <4>1. jobs' = jobs \/ jobs' = Append(jobs, job)
        BY <2>17 DEF ServeRun
      <4>2. job \in Job
        <5>1. call[c] \in Call /\ config \in Content
          BY Groups_Typed DEF EditorTypeOK, Call, Table
        <5>2. call[c].content \in Content /\ call[c].crossed \in BOOLEAN
          BY <5>1, Groups_Typed DEF Call
        <5> HIDE DEF config, inline
        <5> QED BY <5>1, <5>2 DEF Job
      <4> HIDE DEF job
      <4>3. jobs \in Seq(Job)
        BY DEF EditorTypeOK
      <4> QED BY <4>1, <4>2, <4>3
    <3> QED BY <2>17, <3>1, <3>2 DEF ServeRun, EditorTypeOK
  <2>18. ASSUME NEW c \in Calls, RunAnswers(c) PROVE EditorTypeOK'
    <3>1. call' \in [Calls -> Call]
      BY <2>18, Disown_Typed, Call_Typed, Calls_Typed DEF RunAnswers
    <3>2. /\ form' \in Plan /\ loading' \in [RuntimeIds -> Nat]
          /\ cache' \in [RuntimeIds -> {"unknown", "listed", "empty"}]
      BY <2>18, Groups_Typed, Asking_Typed DEF RunAnswers, Unmount, Pending
    <3>3. deletion' \in Deletion
      BY <2>18 DEF RunAnswers, Unmount, EditorTypeOK, Deletion
    <3>4. running' \in BOOLEAN /\ late' \in BOOLEAN
      BY <2>18 DEF RunAnswers, EndWasHeard, EditorTypeOK
    <3> QED BY <2>18, <3>1, <3>2, <3>3, <3>4 DEF RunAnswers, Unmount, EditorTypeOK
  <2>19. CASE Execute
    <3>1. PICK j \in DOMAIN jobs : StartJob(j) \/ EndJob(j)
      BY <2>19 DEF Execute
    <3>2. PICK stage \in {"refused", "started", "over"}, type \in {"started", "completed", "error"} :
             Tell(j, stage, type)
      BY <3>1 DEF StartJob, EndJob
    <3>3. jobs \in Seq(Job) /\ jobs[j] \in Job /\ events \in Seq(Event)
      BY DEF EditorTypeOK
    <3>4. [jobs[j] EXCEPT !.stage = stage] \in Job
      BY <3>3 DEF Job
    <3>5. jobs' \in Seq(Job)
      BY <3>2, <3>3, <3>4 DEF Tell
    <3>6. [type |-> type, job |-> j] \in Event
      BY <3>3 DEF Event
    <3>7. events' \in Seq(Event)
      BY <3>2, <3>3, <3>6 DEF Tell
    <3> QED BY <3>2, <3>5, <3>7 DEF Tell, EditorTypeOK
  <2>20. CASE Hear
    <3>1. /\ events \in Seq(Event) /\ events # <<>>
          /\ Handle(Head(events)) /\ events' = Tail(events)
      BY <2>20 DEF Hear, EditorTypeOK
    <3>2. Head(events) \in Event /\ events' \in Seq(Event)
      BY <3>1
    <3>3. running' \in BOOLEAN /\ late' \in BOOLEAN
      BY <3>1, <3>2 DEF Handle, Event, EditorTypeOK
    <3> QED BY <2>20, <3>2, <3>3 DEF Hear, EditorTypeOK
  <2> QED BY <2>1, <2>2, <2>3, <2>4, <2>5, <2>6, <2>7, <2>8, <2>9, <2>10, <2>11, <2>12, <2>13,
             <2>14, <2>15, <2>16, <2>17, <2>18, <2>19, <2>20 DEF EditorNext, Answer
<1> QED BY <1>1, <1>2, PTL DEF EditorSpec

(***************************************************************************)
(* What is stored and executed.                                            *)
(***************************************************************************)
\* The steps that write the server's table, its executions or the calls.
Quiet == UNCHANGED <<stored, jobs, call>>

Disowned == call' = Disown /\ UNCHANGED <<stored, jobs>>

LEMMA Steps ==
  ASSUME EditorTypeOK, [EditorNext]_vars
  PROVE  \/ Quiet \/ Disowned
         \/ \E c \in Calls, run \in BOOLEAN : Click(c, run)
         \/ \E c \in Calls : \/ ServeSave(c) \/ SaveAnswers(c) \/ CallFails(c)
                            \/ ServeRun(c) \/ RunAnswers(c)
         \/ ServeDelete \/ Execute
<1> USE DEF Quiet, Disowned, serverVars, planVars, formVars, userVars, mountVars
<1>1. CASE UNCHANGED vars
  BY <1>1 DEF vars
<1>2. CASE Mount \/ ResetToNew \/ Delete \/ \E p \in Plans : SelectPlan(p)
  BY <1>2 DEF Mount, ResetToNew, Delete, SelectPlan
<1>3. CASE Leave
  BY <1>3 DEF Leave
<1>4. CASE EditForm
  BY <1>4, EditForm_Edits DEF Edit
<1>5. CASE PlansAnswer \/ RuntimesAnswer \/ DeleteAnswers \/ \E r \in RuntimeIds : ModelsAnswer(r)
  BY <1>5 DEF PlansAnswer, RuntimesAnswer, DeleteAnswers, ModelsAnswer
<1>6. CASE Hear
  BY <1>6 DEF Hear
<1> QED BY <1>1, <1>2, <1>3, <1>4, <1>5, <1>6 DEF EditorNext, Answer

\* A plan that passes the browser's check is complete.
LEMMA Valid_Complete ==
  ASSUME NEW content \in Content, Valid(content)
  PROVE  Complete(content)
<1>1. PICK i \in DOMAIN content.groups : content.groups[i].on
  BY DEF Valid, Enabled
<1>2. \A j \in DOMAIN content.groups : content.groups[j] \in Group
  BY DEF Content
<1>3. content.groups[i] \in {g \in Range(content.groups) : g.on}
  BY <1>1 DEF Range
<1>4. ASSUME NEW g \in Range(content.groups), g.on
      PROVE  g.runtime # NoRuntime /\ g.model
  <2>1. PICK j \in DOMAIN content.groups : g = content.groups[j]
    BY DEF Range
  <2> QED BY <1>2, <1>4, <2>1 DEF Valid, Enabled, Group
<1> QED BY <1>3, <1>4 DEF Complete

\* Every content on its way to the table or to an execution has passed it.
ValidInv ==
    /\ \A p \in Plans : stored[p] # Absent => Valid(stored[p])
    /\ \A c \in Calls : call[c].stage \in {"saving", "updated", "created", "posting"}
                        => Valid(call[c].content)
    /\ \A j \in DOMAIN jobs : Valid(jobs[j].config)

\* A plan that was saved and not yet asked to run is stored as it was clicked,
\* unless somebody deleted it or saved it anew.
RunInv ==
    /\ \A c \in Calls :
          call[c].stage \in {"updated", "created", "posting"} /\ call[c].plan # NoPlan =>
             stored[call[c].plan] \in {call[c].content, Absent} \/ call[c].crossed
    /\ RunIsTheClickedPlan

\* The server looked up the runtimes of what it started.
StartedInv ==
    \A j \in DOMAIN jobs : jobs[j].stage \in {"started", "over"} =>
       \A g \in Range(jobs[j].config.groups) : g.runtime \in Runtimes

StorageInv == ValidInv /\ RunInv /\ StartedInv

LEMMA Storage_Steps ==
  ASSUME EditorTypeOK, StorageInv, [EditorNext]_vars
  PROVE  StorageInv'
<1> USE DEF StorageInv, ValidInv, RunInv, StartedInv, RunIsTheClickedPlan
<1>0. /\ call \in [Calls -> Call] /\ stored \in Table /\ jobs \in Seq(Job)
      /\ form \in Plan
  BY DEF EditorTypeOK
<1>1. CASE Quiet
  BY <1>1 DEF Quiet
<1>2. CASE Disowned
  <2>1. ASSUME NEW c \in Calls
        PROVE  /\ call'[c].stage = call[c].stage /\ call'[c].plan = call[c].plan
               /\ call'[c].content = call[c].content /\ call'[c].crossed = call[c].crossed
    BY <1>0, <1>2 DEF Disowned, Disown, Call
  <2> QED BY <1>2, <2>1 DEF Disowned
<1>3. ASSUME NEW c \in Calls, NEW run \in BOOLEAN, Click(c, run) PROVE StorageInv'
  <2>1. /\ Valid(form.content) /\ UNCHANGED <<stored, jobs>>
        /\ \A d \in Calls \ {c} : call'[d] = call[d]
        /\ call'[c].content = form.content
        /\ call'[c].stage = FirstAwait(run)
        /\ call'[c].plan = IF FirstAwait(run) = "posting" THEN form.id ELSE SaveId
    BY <1>0, <1>3 DEF Click, serverVars
  <2>2. FirstAwait(run) = "saving" \/ (FirstAwait(run) = "posting" /\ form.id = NoPlan)
    BY DEF FirstAwait
  <2> QED BY <2>1, <2>2
<1>4. ASSUME NEW c \in Calls, ServeSave(c) PROVE StorageInv'
  <2>1. call[c].stage = "saving" /\ UNCHANGED jobs
    BY <1>4 DEF ServeSave
  <2>2. PICK p \in IF call[c].plan = NoPlan THEN fresh ELSE {call[c].plan} :
          IF call[c].plan # NoPlan /\ stored[p] = Absent
          THEN call' = [call EXCEPT ![c].stage = "failed"] /\ UNCHANGED stored
          ELSE /\ call' = [Crossing(c, p) EXCEPT
                              ![c].stage = IF call[c].plan = NoPlan THEN "created" ELSE "updated",
                              ![c].plan = p]
               /\ stored' = [stored EXCEPT ![p] = call[c].content]
    BY <1>4 DEF ServeSave
  <2>3. p \in Plans
    BY <1>0, <2>2 DEF EditorTypeOK, Call
  <2>4. CASE call[c].plan # NoPlan /\ stored[p] = Absent
    <3>1. /\ UNCHANGED stored /\ call'[c].stage = "failed"
          /\ \A d \in Calls \ {c} : call'[d] = call[d]
      BY <1>0, <2>2, <2>4 DEF Call
    <3> QED BY <2>1, <3>1
  <2>5. CASE ~(call[c].plan # NoPlan /\ stored[p] = Absent)
    <3>1. /\ stored'[p] = call[c].content
          /\ \A q \in Plans \ {p} : stored'[q] = stored[q]
      BY <1>0, <2>2, <2>3, <2>5 DEF Table
    <3>2. Crossing(c, p) \in [Calls -> Call]
      BY Crossing_Typed
    <3>3. call' = [Crossing(c, p) EXCEPT
                     ![c].stage = IF call[c].plan = NoPlan THEN "created" ELSE "updated",
                     ![c].plan = p]
      BY <2>2, <2>5
    <3>4. /\ call'[c].plan = p /\ call'[c].content = Crossing(c, p)[c].content
          /\ \A d \in Calls \ {c} : call'[d] = Crossing(c, p)[d]
      BY <3>2, <3>3 DEF Call
    <3>5. ASSUME NEW d \in Calls
          PROVE  /\ Crossing(c, p)[d].stage = call[d].stage
                 /\ Crossing(c, p)[d].plan = call[d].plan
                 /\ Crossing(c, p)[d].content = call[d].content
                 /\ call[d].crossed \/ (d # c /\ call[d].plan = p) => Crossing(c, p)[d].crossed
      BY <1>0 DEF Crossing, Call
    <3> HIDE <3>3
    <3>6. ValidInv'
      BY <2>1, <3>1, <3>4, <3>5
    <3>7. RunInv'
      <4>1. ASSUME NEW d \in Calls, d # c,
                   call'[d].stage \in {"updated", "created", "posting"}, call'[d].plan # NoPlan
            PROVE  stored'[call'[d].plan] \in {call'[d].content, Absent} \/ call'[d].crossed
        <5>1. /\ call'[d] = Crossing(c, p)[d] /\ call[d].plan \in Plans
              /\ stored[call[d].plan] \in {call[d].content, Absent} \/ call[d].crossed
          BY <1>0, <3>4, <3>5, <4>1 DEF Call
        <5>2. CASE call[d].plan = p
          BY <3>5, <4>1, <5>1, <5>2
        <5>3. CASE call[d].plan # p
          BY <3>1, <3>5, <5>1, <5>3
        <5> QED BY <5>2, <5>3
      <4>2. stored'[call'[c].plan] = call'[c].content
        BY <3>1, <3>4, <3>5
      <4> QED BY <2>1, <4>1, <4>2
    <3> QED BY <2>1, <3>6, <3>7
  <2> QED BY <2>4, <2>5
<1>5. ASSUME NEW c \in Calls, SaveAnswers(c) PROVE StorageInv'
  <2>1. /\ UNCHANGED <<stored, jobs>> /\ \A d \in Calls \ {c} : call'[d] = call[d]
        /\ call[c].stage \in {"updated", "created"}
        /\ \/ /\ call'[c].plan = call[c].plan /\ call'[c].content = call[c].content
              /\ call'[c].crossed = call[c].crossed
           \/ call'[c].stage = "idle"
    BY <1>0, <1>5 DEF SaveAnswers, serverVars, Idle, Call
  <2> QED BY <2>1
<1>6. ASSUME NEW c \in Calls, CallFails(c) PROVE StorageInv'
  <2>1. /\ UNCHANGED <<stored, jobs>> /\ call'[c].stage = "idle"
        /\ \A d \in Calls \ {c} : call'[d] = call[d]
    BY <1>0, <1>6 DEF CallFails, serverVars, Idle
  <2> QED BY <2>1
<1>7. ASSUME NEW c \in Calls, ServeRun(c) PROVE StorageInv'
  <2> DEFINE inline == call[c].plan = NoPlan
             config == IF inline THEN call[c].content ELSE stored[call[c].plan]
             job == [config |-> config, asked |-> call[c].content,
                     crossed |-> call[c].crossed, stage |-> "new"]
  <2>1. /\ call[c].stage = "posting" /\ UNCHANGED stored
        /\ call'[c].stage \in {"refused", "posted"}
        /\ \A d \in Calls \ {c} : call'[d] = call[d]
    BY <1>0, <1>7 DEF ServeRun, Call
  <2>2. jobs' = jobs \/ (config # Absent /\ jobs' = Append(jobs, job))
    BY <1>7 DEF ServeRun
  <2>3. config # Absent => Valid(config) /\ (config = call[c].content \/ call[c].crossed)
    <3>1. CASE inline
      BY <2>1, <3>1
    <3>2. CASE ~inline
      <4>1. call[c].plan \in Plans
        BY <1>0, <3>2 DEF Call
      <4> QED BY <2>1, <3>2, <4>1
    <3> QED BY <3>1, <3>2
  <2>4. /\ job.config = config /\ job.asked = call[c].content
        /\ job.crossed = call[c].crossed /\ job.stage = "new"
    OBVIOUS
  <2> HIDE DEF job, config, inline
  <2>5. \A j \in DOMAIN jobs' :
           \/ j \in DOMAIN jobs /\ jobs'[j] = jobs[j]
           \/ config # Absent /\ jobs'[j] = job
    BY <1>0, <2>2
  <2> QED BY <2>1, <2>3, <2>4, <2>5
<1>8. ASSUME NEW c \in Calls, RunAnswers(c) PROVE StorageInv'
  <2>1. UNCHANGED <<stored, jobs>> /\ call' = [Disown EXCEPT ![c] = Idle]
    BY <1>8 DEF RunAnswers, serverVars
  <2>2. call'[c].stage = "idle" /\ \A d \in Calls \ {c} : call'[d] = Disown[d]
    BY <2>1 DEF Disown, Idle
  <2>3. ASSUME NEW d \in Calls
        PROVE  /\ Disown[d].stage = call[d].stage /\ Disown[d].plan = call[d].plan
               /\ Disown[d].content = call[d].content /\ Disown[d].crossed = call[d].crossed
    BY <1>0 DEF Disown, Call
  <2> QED BY <2>1, <2>2, <2>3
<1>9. CASE ServeDelete
  <2>1. /\ UNCHANGED <<jobs, call>>
        /\ \A p \in Plans : stored'[p] \in {stored[p], Absent}
    BY <1>0, <1>9 DEF ServeDelete, Table
  <2>2. \A c \in Calls : call[c].plan # NoPlan => call[c].plan \in Plans
    BY <1>0 DEF Call
  <2> QED BY <2>1, <2>2
<1>10. CASE Execute
  <2>1. PICK j \in DOMAIN jobs, stage \in {"refused", "started", "over"} :
           /\ jobs' = [jobs EXCEPT ![j].stage = stage] /\ UNCHANGED <<stored, call>>
           /\ stage \in {"started", "over"} =>
                \/ jobs[j].stage = "started"
                \/ \A g \in Range(jobs[j].config.groups) : g.runtime \in Runtimes
    BY <1>10 DEF Execute, StartJob, EndJob, Tell
  <2>2. /\ DOMAIN jobs' = DOMAIN jobs
        /\ \A k \in DOMAIN jobs : /\ jobs'[k].config = jobs[k].config
                                  /\ jobs'[k].asked = jobs[k].asked
                                  /\ jobs'[k].crossed = jobs[k].crossed
                                  /\ k # j => jobs'[k].stage = jobs[k].stage
        /\ jobs'[j].stage = stage
    <3>1. \A k \in DOMAIN jobs : jobs[k] \in Job
      BY <1>0
    <3> QED BY <2>1, <3>1 DEF Job
  <2> QED BY <2>1, <2>2
<1> QED BY <1>1, <1>2, <1>3, <1>4, <1>5, <1>6, <1>7, <1>8, <1>9, <1>10, Steps

LEMMA Storage_Init ==
  ASSUME EditorInit
  PROVE  StorageInv
<1>1. Valid(TwoGroups)
  BY EditorAssumption DEF Valid, Enabled, TwoGroups, NewGroup
<1>2. \A p \in Plans : stored[p] # Absent => Valid(stored[p])
  BY <1>1 DEF EditorInit, StoredFirst
<1>3. jobs = <<>> /\ \A c \in Calls : call[c].stage = "idle"
  BY DEF EditorInit, Idle
<1> QED BY <1>2, <1>3 DEF StorageInv, ValidInv, RunInv, StartedInv, RunIsTheClickedPlan

\* Only complete plans are stored, and what is announced as started is complete
\* and names runtimes the server knows.
THEOREM StoredPlansCorrect == EditorSpec => []StartedPlansAreRunnable
<1>1. EditorInit => StorageInv
  BY Storage_Init
<1>2. EditorTypeOK /\ StorageInv /\ [EditorNext]_vars => StorageInv'
  BY Storage_Steps
<1>3. EditorTypeOK /\ StorageInv => StartedPlansAreRunnable
  <2> SUFFICES ASSUME EditorTypeOK, StorageInv PROVE StartedPlansAreRunnable
    OBVIOUS
  <2>1. \A p \in Plans : stored[p] \in Content
    BY DEF EditorTypeOK, Table
  <2>2. \A j \in DOMAIN jobs : jobs[j] \in Job
    BY DEF EditorTypeOK
  <2>3. \A j \in DOMAIN jobs : jobs[j].config \in Content
    BY <2>2 DEF Job
  <2>4. /\ \A p \in Plans : stored[p] # Absent => Complete(stored[p])
        /\ \A j \in DOMAIN jobs : Complete(jobs[j].config)
    BY <2>1, <2>3, Valid_Complete DEF StorageInv, ValidInv
  <2> QED BY <2>4 DEF StorageInv, StartedInv, StartedPlansAreRunnable
<1> QED BY <1>1, <1>2, <1>3, EditorTypeCorrect, PTL DEF EditorSpec

\* Between the click and the execution, two requests later, the plan does not
\* change, but for another save of it.
THEOREM ClickedPlanCorrect == EditorSpec => []RunIsTheClickedPlan
<1>1. EditorInit => StorageInv
  BY Storage_Init
<1>2. EditorTypeOK /\ StorageInv /\ [EditorNext]_vars => StorageInv'
  BY Storage_Steps
<1>3. StorageInv => RunIsTheClickedPlan
  BY DEF StorageInv, RunInv
<1> QED BY <1>1, <1>2, <1>3, EditorTypeCorrect, PTL DEF EditorSpec

(***************************************************************************)
(* The form and the loaded plan.                                           *)
(***************************************************************************)
OpenInv == OnePlanIsOpen /\ (~mounted => form.id = NoPlan)

\* What OwnFormIsKept says of one step.
Kept ==
    (/\ mounted /\ mounted' /\ edits' = edits /\ acts' = acts
     /\ active.id = NoPlan /\ active'.id = NoPlan)
    => OnlyFilled(form', form) \/ OwnDeletionEnds

\* A render copies the loaded plan, or fills the form in.
LEMMA Render_Fills ==
  ASSUME EditorTypeOK, NEW f \in Plan, NEW a \in Plan, NEW c \in Cache, NEW pending \in Pending,
         NEW rts \in BOOLEAN, NEW why, Render(f, a, c, pending, rts, why)
  PROVE  IF a.id # NoPlan /\ why \cap {"plan", "cache"} # {} THEN form' = a
         ELSE form'.id = f.id /\ OnlyFilled(form', f)
BY Render_Shows, WithRuntime_Fills, OnlyFilled_Reflexive

LEMMA Form_Steps ==
  ASSUME EditorTypeOK, OpenInv, [EditorNext]_vars
  PROVE  OpenInv' /\ Kept
<1> USE DEF OpenInv, OnePlanIsOpen, Kept
<1>0. /\ form \in Plan /\ active \in Plan /\ cache \in Cache /\ loading \in Pending
      /\ known \in BOOLEAN /\ NoForm \in Plan /\ NoFetch \in Pending /\ NoForm.id = NoPlan
  BY Groups_Typed, Asking_Typed DEF EditorTypeOK, Cache, Pending, NoForm
<1>1. ASSUME UNCHANGED <<form, active, mounted>> PROVE OpenInv' /\ Kept
  BY <1>1, OnlyFilled_Reflexive
<1>2. ASSUME mounted' = FALSE, form' = NoForm PROVE OpenInv' /\ Kept
  BY <1>0, <1>2
<1>3. CASE UNCHANGED vars
  BY <1>1, <1>3 DEF vars, planVars, formVars, mountVars
<1>4. CASE Mount
  <2>1. /\ ~mounted /\ mounted' = TRUE /\ UNCHANGED active
        /\ cache' = [r \in RuntimeIds |-> "unknown"]
        /\ Render(NoForm, active, cache', NoFetch, known, {"plan", "runtimes", "cache"})
    BY <1>4 DEF Mount, planVars
  <2>2. cache' \in Cache
    BY <2>1 DEF Cache
  <2>3. active.id # NoPlan => form' = active
    BY <1>0, <2>1, <2>2, Render_Fills
  <2> QED BY <2>1, <2>3
<1>5. CASE Leave
  BY <1>2, <1>5 DEF Leave, Unmount
<1>6. CASE EditForm
  <2>1. PICK f \in Plan, l \in Pending : Edit(f, l) /\ f.id \in {form.id, NoPlan}
    BY <1>6, EditForm_Edits
  <2>2. /\ form' = f /\ UNCHANGED <<active, mounted>> /\ mounted /\ edits' # edits
    BY <2>1 DEF Edit, EditorTypeOK, planVars, mountVars
  <2> QED BY <2>1, <2>2
<1>7. CASE ResetToNew
  <2>1. active' = NoForm /\ acts' # acts
    BY <1>7 DEF ResetToNew, Act, EditorTypeOK
  <2> QED BY <1>0, <1>7, <2>1 DEF ResetToNew, mountVars
<1>8. CASE Delete
  BY <1>1, <1>8 DEF Delete, planVars, formVars, mountVars
<1>9. ASSUME NEW p \in Plans, SelectPlan(p) PROVE OpenInv' /\ Kept
  <2>1. /\ active' = [id |-> p, content |-> plans[p]] /\ UNCHANGED mounted /\ mounted
        /\ Render(form, active', cache, loading, known, {"plan"})
    BY <1>9 DEF SelectPlan, mountVars
  <2>2. active' \in Plan /\ active'.id # NoPlan
    BY <2>1, EditorAssumption DEF EditorTypeOK, Table, Plan
  <2>3. form' = active'
    BY <1>0, <2>1, <2>2, Render_Fills
  <2> QED BY <2>1, <2>2, <2>3
<1>10. ASSUME NEW c \in Calls, NEW run \in BOOLEAN, Click(c, run) PROVE OpenInv' /\ Kept
  BY <1>1, <1>10 DEF Click, planVars, formVars, mountVars
<1>11. CASE PlansAnswer
  BY <1>1, <1>11 DEF PlansAnswer, formVars
<1>12. CASE RuntimesAnswer
  <2>1. UNCHANGED <<active, mounted>>
    BY <1>12 DEF RuntimesAnswer, planVars
  <2>2. CASE mounted
    <3>1. Render(form, active, cache, loading, TRUE, {"runtimes"})
      BY <1>12, <2>2 DEF RuntimesAnswer
    <3>2. {"runtimes"} \cap {"plan", "cache"} = {}
      OBVIOUS
    <3>3. form'.id = form.id /\ OnlyFilled(form', form)
      BY <1>0, <3>1, <3>2, Render_Fills
    <3> QED BY <2>1, <2>2, <3>3
  <2>3. CASE ~mounted
    BY <1>1, <1>12, <2>1, <2>3 DEF RuntimesAnswer
  <2> QED BY <2>2, <2>3
<1>13. CASE ServeDelete
  BY <1>1, <1>13 DEF ServeDelete, planVars, formVars, mountVars
<1>14. CASE DeleteAnswers
  <2>1. \/ UNCHANGED <<form, active, mounted>>
        \/ active' = NoForm /\ UNCHANGED <<form, mounted>>
        \/ /\ active' = NoForm /\ UNCHANGED mounted /\ OwnDeletionEnds
           /\ form' = deletion.blank
    BY <1>14 DEF DeleteAnswers, OwnDeletionEnds, planVars, mountVars
  <2>2. deletion.blank.id = NoPlan
    BY DEF EditorTypeOK, Deletion
  <2> QED BY <1>0, <2>1, <2>2, OnlyFilled_Reflexive
<1>15. ASSUME NEW r \in RuntimeIds, ModelsAnswer(r) PROVE OpenInv' /\ Kept
  <2>1. /\ mounted /\ UNCHANGED <<active, mounted>>
        /\ Render(form, active, cache', [loading EXCEPT ![r] = @ - 1], known, {"cache"})
    BY <1>15 DEF ModelsAnswer, planVars, mountVars
  <2>2. cache' \in Cache /\ [loading EXCEPT ![r] = @ - 1] \in Pending
    BY <1>15 DEF ModelsAnswer, EditorTypeOK, Cache, Pending
  <2>3. IF active.id # NoPlan THEN form' = active
        ELSE form'.id = form.id /\ OnlyFilled(form', form)
    BY <1>0, <2>1, <2>2, Render_Fills
  <2> QED BY <2>1, <2>3
<1>16. ASSUME NEW c \in Calls, ServeSave(c) \/ CallFails(c) \/ ServeRun(c) PROVE OpenInv' /\ Kept
  BY <1>1, <1>16 DEF ServeSave, CallFails, ServeRun, planVars, formVars, mountVars
<1>17. ASSUME NEW c \in Calls, SaveAnswers(c) PROVE OpenInv' /\ Kept
  <2>1. /\ active' = [id |-> call[c].plan, content |-> call[c].content] /\ UNCHANGED mounted
        /\ IF mounted THEN Render(form, active', cache, loading, known, {"plan"})
           ELSE UNCHANGED form
    BY <1>17 DEF SaveAnswers, mountVars
  <2>2. active' \in Plan
    BY <2>1, Groups_Typed DEF EditorTypeOK, Call, Plan
  <2>3. mounted => IF active'.id # NoPlan THEN form' = active'
                   ELSE form'.id = form.id /\ OnlyFilled(form', form)
    BY <1>0, <2>1, <2>2, Render_Fills
  <2> QED BY <2>1, <2>3
<1>18. ASSUME NEW c \in Calls, RunAnswers(c) PROVE OpenInv' /\ Kept
  BY <1>2, <1>18 DEF RunAnswers, Unmount
<1>19. CASE Execute
  BY <1>1, <1>19 DEF Execute, StartJob, EndJob, Tell, planVars, formVars, mountVars
<1>20. CASE Hear
  BY <1>1, <1>20 DEF Hear, planVars, formVars, mountVars
<1> QED BY <1>3, <1>4, <1>5, <1>6, <1>7, <1>8, <1>9, <1>10, <1>11, <1>12, <1>13, <1>14, <1>15,
           <1>16, <1>17, <1>18, <1>19, <1>20 DEF EditorNext, Answer

\* The form never has the id of another plan than the loaded one.
THEOREM OnePlanCorrect == EditorSpec => []OnePlanIsOpen
<1>1. EditorInit => OpenInv
  BY DEF EditorInit, OpenInv, OnePlanIsOpen, NoForm
<1>2. EditorTypeOK /\ OpenInv /\ [EditorNext]_vars => OpenInv'
  BY Form_Steps
<1>3. OpenInv => OnePlanIsOpen
  BY DEF OpenInv
<1> QED BY <1>1, <1>2, <1>3, EditorTypeCorrect, PTL DEF EditorSpec

\* While no plan is loaded, nothing but the user and the end of the user's own
\* deletion changes what was entered.
THEOREM OwnFormCorrect == EditorSpec => OwnFormIsKept
<1>1. EditorInit => OpenInv
  BY DEF EditorInit, OpenInv, OnePlanIsOpen, NoForm
<1>2. EditorTypeOK /\ OpenInv /\ [EditorNext]_vars => OpenInv' /\ [Kept]_vars
  BY Form_Steps
<1>3. [][Kept]_vars <=> OwnFormIsKept
  BY PTL DEF Kept, OwnFormIsKept
<1> QED BY <1>1, <1>2, <1>3, EditorTypeCorrect, PTL DEF EditorSpec

=============================================================================

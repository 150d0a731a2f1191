-------------------------- MODULE NorthboundProofs --------------------------
(***************************************************************************)
(* What a caller of the Hub can rely on: its opaque refs, the output it    *)
(* reads, the admission of its requests and its browser contexts.          *)
(***************************************************************************)
EXTENDS HubReferences, OutputPaging, NorthboundAccess, InteractionContexts,
        FiniteSetTheorems, SequenceTheorems, TLAPS

-----------------------------------------------------------------------------
(* Opaque refs: a ref carries the session and the client of what made it.  *)

StartPhases == {"reserved", "sent", "abandoned", "made", "dropped", "over"}
StartRecords == [phase : StartPhases, who : Clients, gen : Nat]
JobRefRecords == [name : Starts, owner : Clients, gen : Nat, locator : Starts \cup {NoWork}]
OutRefRecords == [name : Runs, owner : Clients, gen : Nat, locator : Runs]
UseRecords == [phase : {"resolved", "ran"}, who : Clients, gen : Nat, locator : Makers,
               source : Makers, ran : Nat]

RefTypes ==
    /\ link \in [gen : Nat, up : BOOLEAN]
    /\ start \in [Makers -> StartRecords \cup {Rest}]
    /\ use \in [Uses -> UseRecords \cup {Rest}]
    /\ jobRefs \subseteq JobRefRecords /\ outRefs \subseteq OutRefRecords

\* A call that was made keeps its client and its generation.
Begun(o) == start[o] # Rest

\* A ref of a call is the call's own.
OwnRef(name, owner, gen) ==
    Begun(name) /\ owner = start[name].who /\ gen = start[name].gen

RefsAreOwn ==
    /\ \A r \in jobRefs : OwnRef(r.name, r.owner, r.gen)
    /\ \A r \in outRefs : OwnRef(r.name, r.owner, r.gen) /\ r.locator = r.name

UsesAreOwn ==
    \A u \in Uses : use[u] # Rest =>
        /\ use[u].locator = use[u].source
        /\ OwnRef(use[u].locator, use[u].who, use[u].gen)
        /\ use[u].phase = "ran" => use[u].ran = use[u].gen

RefsIInv == RefTypes /\ RefsAreOwn /\ UsesAreOwn /\ OneRefPerStart

LEMMA RestIsIdle ==
    /\ Rest \notin StartRecords /\ Rest \notin UseRecords /\ Rest.phase = "idle"
    /\ \A s \in StartRecords : s.phase # "idle"
    /\ \A s \in UseRecords : s.phase # "idle"
BY DEF Rest, StartRecords, UseRecords, StartPhases

LEMMA RefsStart == RefsInit => RefsIInv
BY DEF RefsInit, RefsIInv, RefTypes, RefsAreOwn, UsesAreOwn, OneRefPerStart, Rest

\* How a step may change the starts: a call that has begun keeps its client
\* and its generation.
Advancing ==
    /\ start' \in [Makers -> StartRecords \cup {Rest}]
    /\ \A o \in Makers : Begun(o) =>
         start'[o] # Rest /\ start'[o].who = start[o].who /\ start'[o].gen = start[o].gen

LEMMA OwnStays ==
    ASSUME Advancing, NEW o \in Makers, NEW w, NEW g, OwnRef(o, w, g)
    PROVE  OwnRef(o, w, g)'
BY DEF OwnRef, Begun, Advancing

\* Starts advance and refs only go.
LEMMA RefsChange ==
    ASSUME RefsIInv, Advancing, link' \in [gen : Nat, up : BOOLEAN],
           jobRefs' \subseteq JobRefRecords, outRefs' \subseteq OutRefRecords,
           \A r \in jobRefs' : \/ \E q \in jobRefs : q.name = r.name /\ q.owner = r.owner /\ q.gen = r.gen
                               \/ OwnRef(r.name, r.owner, r.gen)',
           \A r \in outRefs' : r \in outRefs
                               \/ (OwnRef(r.name, r.owner, r.gen)' /\ r.locator = r.name),
           OneRefPerStart', use' = use
    PROVE  RefsIInv'
<1> USE DEF RefsIInv
<1>1. \A r \in jobRefs : r.name \in Makers
  BY DEF RefTypes, JobRefRecords, Makers
<1>2. \A r \in outRefs : r.name \in Makers
  BY DEF RefTypes, OutRefRecords, Makers
<1>3. \A r \in jobRefs' : OwnRef(r.name, r.owner, r.gen)'
  BY <1>1, OwnStays DEF RefsAreOwn
<1>4. \A r \in outRefs' : OwnRef(r.name, r.owner, r.gen)' /\ r.locator = r.name
  BY <1>2, OwnStays DEF RefsAreOwn
<1>5. \A u \in Uses : use[u] # Rest => use[u].locator \in Makers
  BY DEF RefTypes, UseRecords
<1>6. UsesAreOwn'
  <2> SUFFICES ASSUME NEW u \in Uses, use[u] # Rest
               PROVE  /\ use[u].locator = use[u].source
                      /\ OwnRef(use[u].locator, use[u].who, use[u].gen)'
                      /\ use[u].phase = "ran" => use[u].ran = use[u].gen
    BY DEF UsesAreOwn, OwnRef, Begun
  <2> QED BY <1>5, OwnStays DEF UsesAreOwn
<1>7. RefsAreOwn'
  BY <1>3, <1>4 DEF RefsAreOwn
<1>8. RefTypes'
  BY DEF RefTypes, Advancing
<1> QED BY <1>6, <1>7, <1>8

\* One call moves to another phase.
LEMMA PhaseChange ==
    ASSUME RefsIInv, NEW o \in Makers, Begun(o), NEW ph \in StartPhases,
           start' = [start EXCEPT ![o].phase = ph]
    PROVE  Advancing /\ start'[o].phase = ph /\ \A x \in Makers : x # o => start'[x] = start[x]
<1>1. start[o] \in StartRecords /\ start \in [Makers -> StartRecords \cup {Rest}]
  BY DEF RefsIInv, RefTypes, Begun
<1>2. [start[o] EXCEPT !.phase = ph] \in StartRecords
  BY <1>1 DEF StartRecords
<1>3. start' = [start EXCEPT ![o] = [start[o] EXCEPT !.phase = ph]]
  BY <1>1
<1>4. start'[o] = [start[o] EXCEPT !.phase = ph] /\ \A x \in Makers : x # o => start'[x] = start[x]
  BY <1>1, <1>3
<1>5. start'[o].phase = ph /\ start'[o].who = start[o].who /\ start'[o].gen = start[o].gen
      /\ start'[o] # Rest
  BY <1>1, <1>2, <1>4, RestIsIdle DEF StartRecords
<1>6. start' \in [Makers -> StartRecords \cup {Rest}]
  BY <1>1, <1>2, <1>3
<1> QED BY <1>4, <1>5, <1>6 DEF Advancing, Begun

LEMMA StartsBegin ==
    ASSUME RefsIInv, NEW o \in Makers, start[o].phase = "idle", NEW c \in Clients,
           NEW ph \in StartPhases, link' = link,
           start' = [start EXCEPT ![o] = [phase |-> ph, who |-> c, gen |-> link.gen]]
    PROVE  /\ Advancing /\ start'[o].phase = ph /\ \A x \in Makers : x # o => start'[x] = start[x]
           /\ OwnRef(o, c, link.gen)' /\ ~Begun(o)
<1>1. start \in [Makers -> StartRecords \cup {Rest}] /\ link.gen \in Nat
  BY DEF RefsIInv, RefTypes
<1> DEFINE s == [phase |-> ph, who |-> c, gen |-> link.gen]
<1>2. s \in StartRecords /\ s.phase = ph /\ s.who = c /\ s.gen = link.gen
  BY <1>1 DEF StartRecords
<1>3. start[o] = Rest
  BY <1>1, RestIsIdle
<1> HIDE DEF s
<1>4. start' = [start EXCEPT ![o] = s]
  BY DEF s
<1>5. start'[o] = s /\ \A x \in Makers : x # o => start'[x] = start[x]
  BY <1>1, <1>4
<1>6. start' \in [Makers -> StartRecords \cup {Rest}]
  BY <1>1, <1>2, <1>4
<1>7. Advancing
  BY <1>3, <1>5, <1>6 DEF Advancing, Begun
<1>8. (OwnRef(o, c, link.gen))' <=> start'[o] # Rest /\ c = start'[o].who /\ link'.gen = start'[o].gen
  BY DEF OwnRef, Begun
<1> QED BY <1>2, <1>3, <1>5, <1>7, <1>8, RestIsIdle DEF Begun

-----------------------------------------------------------------------------
(* The operations.                                                         *)

LEMMA JobRefFacts ==
    ASSUME RefsIInv, NEW r \in jobRefs
    PROVE  /\ r \in JobRefRecords /\ r.name \in Starts /\ r.name \in Makers
           /\ start[r.name] \in StartRecords
           /\ r.owner = start[r.name].who /\ r.gen = start[r.name].gen
BY DEF RefsIInv, RefTypes, JobRefRecords, Makers, RefsAreOwn, OwnRef, Begun

LEMMA ReserveKeeps ==
    ASSUME RefsIInv, NEW o \in Starts, NEW c \in Clients, Reserve(o, c) PROVE RefsIInv'
<1>0. PICK r : r = [name |-> o, owner |-> c, gen |-> link.gen, locator |-> NoWork]
  OBVIOUS
<1>1. /\ start[o].phase = "idle" /\ jobRefs' = jobRefs \cup {r}
      /\ start' = [start EXCEPT ![o] = [phase |-> "reserved", who |-> c, gen |-> link.gen]]
      /\ UNCHANGED <<link, outRefs, use>> /\ o \in Makers
  BY <1>0 DEF Reserve, Makers
<1>2. r \in JobRefRecords /\ r.name = o /\ r.owner = c /\ r.gen = link.gen /\ r.locator = NoWork
  BY <1>0 DEF JobRefRecords, RefsIInv, RefTypes
<1>3. /\ Advancing /\ start'[o].phase = "reserved" /\ ~Begun(o)
      /\ \A x \in Makers : x # o => start'[x] = start[x]
      /\ OwnRef(o, c, link.gen)'
  BY <1>1, StartsBegin DEF StartPhases
<1>4. \A q \in jobRefs : q.name # o /\ q.name \in Makers
  BY <1>3, JobRefFacts DEF RefsIInv, RefsAreOwn, OwnRef
<1>5. OneRefPerStart'
  BY <1>1, <1>2, <1>3, <1>4 DEF RefsIInv, OneRefPerStart
<1>6. OwnRef(r.name, r.owner, r.gen)'
  BY <1>1, <1>2, <1>3 DEF OwnRef, Begun
<1> QED BY <1>1, <1>2, <1>3, <1>5, <1>6, RefsChange DEF RefsIInv, RefTypes

\* release_unbound takes away every ref of a start that is not over.
LEMMA ReleasedAll ==
    ASSUME RefsIInv, NEW o \in Starts, start[o].phase # "over"
    PROVE  Released(o) \subseteq jobRefs /\ \A r \in Released(o) : r.name # o
BY JobRefFacts DEF Released, RefsIInv, OneRefPerStart

LEMMA PhaseOnlyKeeps ==
    ASSUME RefsIInv, NEW o \in Makers, Begun(o), NEW ph \in StartPhases,
           start' = [start EXCEPT ![o].phase = ph],
           jobRefs' \subseteq jobRefs,
           \A r \in jobRefs' : r.name = o => (start[o].phase = "over") = (ph = "over"),
           UNCHANGED <<link, outRefs, use>>
    PROVE  RefsIInv'
<1>1. /\ Advancing /\ start'[o].phase = ph
      /\ \A x \in Makers : x # o => start'[x] = start[x]
  BY PhaseChange
<1>2. OneRefPerStart'
  BY <1>1, JobRefFacts DEF RefsIInv, OneRefPerStart
<1> QED BY <1>1, <1>2, RefsChange DEF RefsIInv, RefTypes

LEMMA BegunPhase ==
    ASSUME RefsIInv, NEW o \in Makers, start[o].phase # "idle"
    PROVE  Begun(o) /\ start[o] \in StartRecords
BY RestIsIdle DEF RefsIInv, RefTypes, Begun

LEMMA StartStepKeeps ==
    ASSUME RefsIInv, NEW o \in Starts, DispatchStart(o) \/ StartFails(o)
    PROVE  RefsIInv'
<1>1. o \in Makers /\ start[o].phase \in {"reserved", "sent", "made"}
      /\ UNCHANGED <<link, outRefs, use>>
  BY DEF Makers, DispatchStart, StartFails
<1>2. Begun(o)
  BY <1>1, BegunPhase
<1>3. CASE start' = [start EXCEPT ![o].phase = "sent"] /\ UNCHANGED jobRefs
  BY <1>1, <1>2, <1>3, PhaseOnlyKeeps DEF StartPhases
<1>4. CASE start' = [start EXCEPT ![o].phase = "over"] /\ jobRefs' = Released(o)
  BY <1>1, <1>2, <1>4, ReleasedAll, PhaseOnlyKeeps DEF StartPhases
<1> QED BY <1>3, <1>4 DEF DispatchStart, StartFails

LEMMA DispatchRunKeeps ==
    ASSUME RefsIInv, NEW o \in Runs, NEW c \in Clients, DispatchRun(o, c) PROVE RefsIInv'
<1>1. /\ start[o].phase = "idle" /\ UNCHANGED <<link, jobRefs, outRefs, use>> /\ o \in Makers
      /\ start' = [start EXCEPT ![o] = [phase |-> "sent", who |-> c, gen |-> link.gen]]
  BY DEF DispatchRun, Makers
<1>2. Advancing /\ \A x \in Makers : x # o => start'[x] = start[x]
  BY <1>1, StartsBegin DEF StartPhases
<1>3. \A r \in jobRefs : r.name # o /\ r.name \in Makers
  BY JobRefFacts, RefConstants
<1>4. OneRefPerStart'
  BY <1>1, <1>2, <1>3 DEF RefsIInv, OneRefPerStart
<1> QED BY <1>1, <1>2, <1>4, RefsChange DEF RefsIInv, RefTypes

LEMMA MakerStepKeeps ==
    ASSUME RefsIInv, NEW o \in Makers, Made(o) \/ CallerGone(o) PROVE RefsIInv'
<1>1. start[o].phase \in {"sent", "abandoned", "made"} /\ UNCHANGED <<link, jobRefs, outRefs, use>>
  BY DEF Made, CallerGone
<1>2. Begun(o) /\ start \in [Makers -> StartRecords \cup {Rest}]
  BY <1>1, BegunPhase DEF RefsIInv, RefTypes
<1>3. PICK ph \in {"made", "dropped", "abandoned"} : start' = [start EXCEPT ![o].phase = ph]
  BY <1>2 DEF Made, CallerGone
<1> QED BY <1>1, <1>2, <1>3, PhaseOnlyKeeps DEF StartPhases

\* bind: of the one unbound ref that a start may have.
LEMMA BindStartKeeps ==
    ASSUME RefsIInv, NEW o \in Starts, BindStart(o) PROVE RefsIInv'
<1>1. /\ start[o].phase = "made" /\ o \in Makers /\ UNCHANGED <<link, outRefs, use>>
      /\ jobRefs' = (jobRefs \ RefBound(o)) \cup {[r EXCEPT !.locator = o] : r \in RefBound(o)}
      /\ start' = [start EXCEPT ![o].phase = "over"]
  BY DEF BindStart, Makers
<1>2. /\ Advancing /\ start'[o].phase = "over"
      /\ \A x \in Makers : x # o => start'[x] = start[x]
  BY <1>1, BegunPhase, PhaseChange DEF StartPhases
<1>3. RefBound(o) \subseteq jobRefs /\ \A r \in jobRefs : r \in RefBound(o) <=> r.name = o
  BY <1>1, JobRefFacts DEF RefBound, RefsIInv, OneRefPerStart
<1>4. \A r \in RefBound(o) : /\ [r EXCEPT !.locator = o] \in JobRefRecords
                              /\ [r EXCEPT !.locator = o].name = o
                              /\ [r EXCEPT !.locator = o].owner = r.owner
                              /\ [r EXCEPT !.locator = o].gen = r.gen
                              /\ [r EXCEPT !.locator = o].locator = o
  BY <1>3, JobRefFacts DEF JobRefRecords
<1>5. \A r, q \in RefBound(o) : r = q
  BY <1>3 DEF RefsIInv, OneRefPerStart
<1>6. \A r \in jobRefs' : \/ r \in jobRefs /\ r.name # o
                          \/ \E q \in RefBound(o) : r = [q EXCEPT !.locator = o]
  BY <1>1, <1>3
<1>7. NoWork # o
  BY RefConstants
<1>8. OneRefPerStart'
  <2> SUFFICES ASSUME NEW r \in jobRefs'
               PROVE  /\ \A q \in jobRefs' : q.name = r.name => q = r
                      /\ r.locator = NoWork => start'[r.name].phase # "over"
                      /\ r.locator # NoWork => r.locator = r.name /\ start'[r.name].phase = "over"
    BY DEF OneRefPerStart
  <2>1. CASE r \in jobRefs /\ r.name # o
    <3>1. start'[r.name] = start[r.name]
      BY <1>2, <2>1, JobRefFacts
    <3>2. \A q \in jobRefs' : q.name = r.name => q \in jobRefs
      BY <1>4, <1>6, <2>1
    <3> QED BY <2>1, <3>1, <3>2 DEF RefsIInv, OneRefPerStart
  <2>2. CASE \E q \in RefBound(o) : r = [q EXCEPT !.locator = o]
    <3>1. r.name = o /\ r.locator = o
      BY <1>4, <2>2
    <3>2. \A q \in jobRefs' : q.name = o => q = r
      BY <1>4, <1>5, <1>6, <2>2
    <3> QED BY <1>2, <1>7, <3>1, <3>2
  <2> QED BY <1>6, <2>1, <2>2
<1>9. jobRefs' \subseteq JobRefRecords
  BY <1>4, <1>6, JobRefFacts
<1>10. \A r \in jobRefs' : \E q \in jobRefs : q.name = r.name /\ q.owner = r.owner /\ q.gen = r.gen
  <2> SUFFICES ASSUME NEW r \in jobRefs'
               PROVE  \E q \in jobRefs : q.name = r.name /\ q.owner = r.owner /\ q.gen = r.gen
    OBVIOUS
  <2>1. CASE r \in jobRefs
    BY <2>1
  <2>2. ASSUME NEW q \in RefBound(o), r = [q EXCEPT !.locator = o]
        PROVE  q \in jobRefs /\ q.name = r.name /\ q.owner = r.owner /\ q.gen = r.gen
    BY <1>3, <1>4, <2>2
  <2> QED BY <1>6, <2>1, <2>2
<1> QED BY <1>1, <1>2, <1>8, <1>9, <1>10, RefsChange DEF RefsIInv, RefTypes

LEMMA PublishOutputKeeps ==
    ASSUME RefsIInv, NEW o \in Runs, PublishOutput(o) PROVE RefsIInv'
<1>0. PICK r : r = [name |-> o, owner |-> start[o].who, gen |-> start[o].gen, locator |-> o]
  OBVIOUS
<1>1. /\ start[o].phase = "made" /\ o \in Makers /\ UNCHANGED <<link, jobRefs, use>>
      /\ start' = [start EXCEPT ![o].phase = "over"]
      /\ outRefs' \subseteq outRefs \cup {r}
  BY <1>0 DEF PublishOutput, Makers
<1>2. Begun(o) /\ start[o] \in StartRecords
  BY <1>1, BegunPhase
<1>3. r \in OutRefRecords /\ r.name = o /\ r.owner = start[o].who /\ r.gen = start[o].gen
      /\ r.locator = o
  BY <1>0, <1>2 DEF OutRefRecords, StartRecords
<1>4. /\ Advancing /\ \A x \in Makers : x # o => start'[x] = start[x]
  BY <1>1, <1>2, PhaseChange DEF StartPhases
<1>5. OwnRef(r.name, r.owner, r.gen)'
  BY <1>1, <1>2, <1>3, <1>4 DEF OwnRef, Begun, Advancing
<1>6. \A q \in jobRefs : q.name # o /\ q.name \in Makers
  BY JobRefFacts, RefConstants
<1>7. OneRefPerStart'
  BY <1>1, <1>4, <1>6 DEF RefsIInv, OneRefPerStart
<1> QED BY <1>1, <1>3, <1>4, <1>5, <1>7, RefsChange DEF RefsIInv, RefTypes

\* Nothing begins and refs only expire.
LEMMA ExpiryKeeps ==
    ASSUME RefsIInv, UNCHANGED <<start, use>>, link' \in [gen : Nat, up : BOOLEAN],
           jobRefs' \subseteq jobRefs, outRefs' \subseteq outRefs
    PROVE  RefsIInv'
<1>1. Advancing
  BY DEF RefsIInv, RefTypes, Advancing, Begun
<1>2. OneRefPerStart'
  BY DEF RefsIInv, OneRefPerStart
<1> QED BY <1>1, <1>2, RefsChange DEF RefsIInv, RefTypes

-----------------------------------------------------------------------------
(* Using a ref.                                                            *)

LEMMA UseKeeps ==
    ASSUME RefsIInv, NEW u \in Uses, NEW n \in UseRecords \cup {Rest},
           use' = [use EXCEPT ![u] = n], UNCHANGED <<link, start, jobRefs, outRefs>>,
           n # Rest => /\ n.locator = n.source /\ OwnRef(n.locator, n.who, n.gen)
                       /\ n.phase = "ran" => n.ran = n.gen
    PROVE  RefsIInv'
<1>1. /\ use' \in [Uses -> UseRecords \cup {Rest}] /\ use'[u] = n
      /\ \A x \in Uses : x # u => use'[x] = use[x]
  BY DEF RefsIInv, RefTypes
<1>2. UsesAreOwn'
  BY <1>1 DEF RefsIInv, UsesAreOwn, OwnRef, Begun
<1>3. RefsAreOwn' /\ OneRefPerStart'
  BY DEF RefsIInv, RefsAreOwn, OneRefPerStart, OwnRef, Begun
<1> QED BY <1>1, <1>2, <1>3 DEF RefsIInv, RefTypes

LEMMA ResolvedIsOwn ==
    ASSUME RefsIInv, NEW c \in Clients, NEW o \in Makers, NEW among \in SUBSET (jobRefs \cup outRefs),
           NEW r \in Resolved(among, c, o), NEW u \in Uses,
           use' = [use EXCEPT ![u] = [phase |-> "resolved", who |-> c, gen |-> link.gen,
                                      locator |-> r.locator, source |-> o, ran |-> 0]],
           UNCHANGED <<link, start, jobRefs, outRefs>>
    PROVE  RefsIInv'
<1> DEFINE n == [phase |-> "resolved", who |-> c, gen |-> link.gen,
                 locator |-> r.locator, source |-> o, ran |-> 0]
<1>1. r.name = o /\ r.owner = c /\ r.gen = link.gen /\ r.locator # NoWork
      /\ r \in jobRefs \cup outRefs
  BY DEF Resolved
<1>2. r.locator = o /\ OwnRef(o, c, link.gen) /\ link.gen \in Nat
  BY <1>1 DEF RefsIInv, RefTypes, RefsAreOwn, OneRefPerStart
<1>3. n \in UseRecords /\ n.locator = o /\ n.source = o /\ n.who = c /\ n.gen = link.gen
      /\ n.phase = "resolved"
  BY <1>2 DEF UseRecords
<1> HIDE DEF n
<1>4. use' = [use EXCEPT ![u] = n]
  BY DEF n
<1> QED BY <1>2, <1>3, <1>4, UseKeeps

LEMMA ResolveKeeps ==
    ASSUME RefsIInv, NEW u \in Uses, NEW c \in Clients, NEW o \in Makers,
           UseJob(u, c, o) \/ UseTest(u, c, o) \/ ReadOutput(u, c, o)
    PROVE  RefsIInv'
<1>1. UNCHANGED <<link, start, jobRefs, outRefs>>
  BY DEF UseJob, UseTest, UseRef, ReadOutput
<1>2. CASE UseRef(u, c, o)
  <2>1. PICK r \in Resolved(RegistryOf(o), c, o) :
          use' = [use EXCEPT ![u] = [phase |-> "resolved", who |-> c, gen |-> link.gen,
                                     locator |-> r.locator, source |-> o, ran |-> 0]]
    BY <1>2 DEF UseRef
  <2>2. RegistryOf(o) \in SUBSET (jobRefs \cup outRefs)
    BY DEF RegistryOf
  <2> QED BY <1>1, <2>1, <2>2, ResolvedIsOwn
<1>3. CASE ReadOutput(u, c, o)
  <2>1. PICK r \in Resolved(outRefs, c, o) :
          use' = [use EXCEPT ![u] = [phase |-> "resolved", who |-> c, gen |-> link.gen,
                                     locator |-> r.locator, source |-> o, ran |-> 0]]
    BY <1>3 DEF ReadOutput
  <2>2. outRefs \in SUBSET (jobRefs \cup outRefs)
    OBVIOUS
  <2> QED BY <1>1, <2>1, <2>2, ResolvedIsOwn
<1> QED BY <1>2, <1>3 DEF UseJob, UseTest

LEMMA RunUseKeeps ==
    ASSUME RefsIInv, NEW u \in Uses, RunUse(u) \/ EndUse(u) PROVE RefsIInv'
<1>1. UNCHANGED <<link, start, jobRefs, outRefs>> /\ use[u].phase \in {"resolved", "ran"}
  BY DEF RunUse, EndUse
<1>2. use \in [Uses -> UseRecords \cup {Rest}] /\ use[u] \in UseRecords
  BY <1>1, RestIsIdle DEF RefsIInv, RefTypes
<1>3. CASE use' = [use EXCEPT ![u] = Rest]
  BY <1>1, <1>3, UseKeeps
<1>4. CASE /\ RunUse(u) /\ link.gen = use[u].gen
           /\ use' = [use EXCEPT ![u] = [use[u] EXCEPT !.phase = "ran", !.ran = link.gen]]
  <2> DEFINE n == [use[u] EXCEPT !.phase = "ran", !.ran = link.gen]
  <2>1. link.gen \in Nat
    BY DEF RefsIInv, RefTypes
  <2>2. n \in UseRecords /\ n.locator = use[u].locator /\ n.source = use[u].source
        /\ n.who = use[u].who /\ n.gen = use[u].gen /\ n.ran = link.gen
    BY <1>2, <2>1 DEF UseRecords
  <2>3. use[u].locator = use[u].source /\ OwnRef(use[u].locator, use[u].who, use[u].gen)
    BY <1>2, RestIsIdle DEF RefsIInv, UsesAreOwn
  <2> HIDE DEF n
  <2>4. use' = [use EXCEPT ![u] = n]
    BY <1>4 DEF n
  <2>5. n.locator = n.source /\ OwnRef(n.locator, n.who, n.gen) /\ n.ran = n.gen
    BY <1>4, <2>2, <2>3
  <2> QED BY <1>1, <2>2, <2>4, <2>5, UseKeeps
<1>5. CASE RunUse(u)
  <2> DEFINE fits == /\ link.up /\ link.gen = use[u].gen
                     /\ \E d \in onDevice : d.name = use[u].locator
                                             /\ (d.name \in Runs => d.gen = link.gen)
  <2>1. use' = [use EXCEPT ![u] = IF fits THEN [use[u] EXCEPT !.phase = "ran", !.ran = link.gen]
                                  ELSE Rest]
    BY <1>2, <1>5 DEF RunUse
  <2>2. CASE fits
    BY <1>4, <1>5, <2>1, <2>2
  <2>3. CASE ~fits
    BY <1>3, <2>1, <2>3
  <2> QED BY <2>2, <2>3
<1> QED BY <1>3, <1>5 DEF EndUse

LEMMA RefsSteps == ASSUME RefsIInv, [RefsNext]_refVars PROVE RefsIInv'
<1>1. link \in [gen : Nat, up : BOOLEAN]
  BY DEF RefsIInv, RefTypes
<1>2. ASSUME NEW r, JobRefExpires(r) \/ OutRefExpires(r) PROVE RefsIInv'
  BY <1>1, <1>2, ExpiryKeeps DEF JobRefExpires, OutRefExpires
<1>3. ASSUME NEW d, DeviceForgets(d) PROVE RefsIInv'
  BY <1>1, <1>3, ExpiryKeeps DEF DeviceForgets
<1>4. ASSUME NEW o, Quarantined(o) PROVE RefsIInv'
  BY <1>1, <1>4, ExpiryKeeps DEF Quarantined
<1>5. CASE LinkEnds \/ LinkBegins \/ UNCHANGED refVars
  <2>0. link.gen \in Nat /\ link.gen + 1 \in Nat
    BY <1>1
  <2>1. link' \in [gen : Nat, up : BOOLEAN] /\ UNCHANGED <<start, use, jobRefs, outRefs>>
    <3>1. CASE LinkEnds
      BY <1>1, <3>1 DEF LinkEnds
    <3>2. CASE LinkBegins
      BY <2>0, <3>2 DEF LinkBegins
    <3>3. CASE UNCHANGED refVars
      BY <1>1, <3>3 DEF refVars
    <3> QED BY <1>5, <3>1, <3>2, <3>3
  <2> QED BY <2>1, ExpiryKeeps
<1> QED BY <1>2, <1>3, <1>4, <1>5, ReserveKeeps, StartStepKeeps, BindStartKeeps, DispatchRunKeeps,
     PublishOutputKeeps, MakerStepKeeps, ResolveKeeps, RunUseKeeps
     DEF RefsNext, ReserveJob, ReserveTest

\* An opaque job or output ref leads to what its own client made in the same
\* session, and every start has at most one (v2_managed_job_refs.rs,
\* v2_ephemeral_data_refs.rs), for any clients, starts, runs and generations.
THEOREM RefsAreSafe == RefsSpec => []RefsSafe
<1>1. RefsInit => RefsIInv
  BY RefsStart
<1>2. RefsIInv /\ [RefsNext]_refVars => RefsIInv'
  BY RefsSteps
<1>3. RefsIInv => RefsSafe
  <2> SUFFICES ASSUME RefsIInv, NEW u \in Uses, use[u].phase = "ran"
               PROVE  LET o == use[u].locator IN
                      /\ o = use[u].source /\ start[o].phase # "idle"
                      /\ use[u].who = start[o].who /\ use[u].ran = start[o].gen
    BY DEF RefsIInv, RefsSafe, RefReachesItsOwn
  <2>1. use[u] # Rest /\ use[u] \in UseRecords
    BY RestIsIdle DEF RefsIInv, RefTypes
  <2>2. use[u].locator \in Makers
    BY <2>1 DEF UseRecords
  <2> QED BY <2>1, <2>2, RestIsIdle DEF RefsIInv, RefTypes, UsesAreOwn, OwnRef, Begun
<1> QED BY <1>1, <1>2, <1>3, PTL DEF RefsSpec

-----------------------------------------------------------------------------
(* Output: the buffer is the tail of the stream and a reader has a prefix of *)
(* it, with gaps it was told of.                                           *)

\* The bytes of the stream from one position up to another, and where a
\* position is found in them.
Span(from, to) == Bytes(from, to - from)
FirstAt(from, at) == at - from + 1
LastAt(from, at) == at - from

\* The buffer is the tail of the stream, never longer than its capacity.
BufferIsTail ==
    /\ earliest <= total /\ total - earliest <= Capacity
    /\ buffer = Span(earliest, total)

\* A run keeps two prefixes of the stream, each flagged when it is not all of it.
KeptIsPrefix ==
    kept = [inline |-> Span(0, Least(total, InlineMax)),
            retained |-> Span(0, Least(total, RetainedMax)),
            inlineCut |-> InlineMax < total, retainedCut |-> RetainedMax < total]

PagingTypes ==
    /\ total \in Nat /\ earliest \in Nat /\ closed \in BOOLEAN
    /\ reader \in [source : {"none", "job", "run"}, offset : Nat, got : Seq(Nat),
                   gaps : BOOLEAN, done : BOOLEAN]

\* What the client has: strictly increasing positions below its offset, and
\* all of them unless it was told of a gap.
ReaderHasPrefix ==
    /\ \A i \in 1..Len(reader.got) : reader.got[i] < reader.offset
    /\ \A i, j \in 1..Len(reader.got) : i < j => reader.got[i] < reader.got[j]
    /\ ~reader.gaps => reader.got = Span(0, reader.offset)

ReaderIsWithin ==
    /\ reader.source = "none" => ~reader.done /\ ~reader.gaps /\ reader.offset = 0
    /\ reader.source = "job" =>
         /\ reader.offset <= total
         /\ reader.done => closed /\ reader.offset = total
    /\ reader.source = "run" =>
         /\ closed /\ ~reader.gaps /\ reader.offset <= Least(total, RetainedMax)
         /\ reader.done => reader.offset = Least(total, RetainedMax)

PagingIInv == PagingTypes /\ BufferIsTail /\ KeptIsPrefix /\ ReaderHasPrefix /\ ReaderIsWithin

-----------------------------------------------------------------------------

LEMMA BytesAre ==
    ASSUME NEW a \in Nat, NEW n \in Nat
    PROVE  /\ Bytes(a, n) \in Seq(Nat) /\ Len(Bytes(a, n)) = n
           /\ \A i \in 1..n : Bytes(a, n)[i] = a + i - 1
<1>1. \A i \in 1..n : a + i - 1 \in Nat
  OBVIOUS
<1>2. Bytes(a, n) \in [1..n -> Nat]
  BY <1>1 DEF Bytes
<1>3. Bytes(a, n) \in Seq(Nat)
  BY <1>2, SeqDef
<1>. QED  BY <1>2, <1>3, LenProperties DEF Bytes

LEMMA SpanIs ==
    ASSUME NEW a \in Nat, NEW b \in Nat, a <= b
    PROVE  /\ Span(a, b) \in Seq(Nat) /\ Len(Span(a, b)) = b - a
           /\ \A i \in 1..b - a : Span(a, b)[i] = a + i - 1
<1>1. b - a \in Nat /\ \A i \in 1..b - a : a + i - 1 \in Nat
  OBVIOUS
<1>2. Span(a, b) \in [1..b - a -> Nat] /\ \A i \in 1..b - a : Span(a, b)[i] = a + i - 1
  BY <1>1 DEF Bytes, Span
<1>. HIDE DEF Span
<1>3. Span(a, b) \in Seq(Nat)
  BY <1>1, <1>2, SeqDef
<1>. QED  BY <1>1, <1>2, <1>3, LenProperties

LEMMA SpanOf ==
    ASSUME NEW a \in Nat, NEW n \in Nat
    PROVE  Bytes(a, n) = Span(a, a + n) /\ Bytes(0, n) = Span(0, n)
<1>1. a + n - a = n /\ n - 0 = n
  OBVIOUS
<1>. QED  BY <1>1 DEF Span

LEMMA SpanEmpty ==
    ASSUME NEW a \in Nat PROVE Span(a, a) = <<>>
<1>1. Span(a, a) \in Seq(Nat) /\ Len(Span(a, a)) = 0
  BY SpanIs
<1>. QED  BY <1>1, EmptySeq

LEMMA SpanJoin ==
    ASSUME NEW a \in Nat, NEW b \in Nat, NEW c \in Nat, a <= b, b <= c
    PROVE  Span(a, b) \o Span(b, c) = Span(a, c)
<1>. DEFINE s == Span(a, b)  t == Span(b, c)  u == Span(a, c)
<1>1. PICK m \in Nat, n \in Nat : m = b - a /\ n = c - b
  OBVIOUS
<1>2. /\ s \in Seq(Nat) /\ Len(s) = m /\ t \in Seq(Nat) /\ Len(t) = n
      /\ u \in Seq(Nat) /\ Len(u) = m + n
      /\ \A i \in 1..m : s[i] = a + i - 1
      /\ \A i \in 1..n : t[i] = b + i - 1
      /\ \A i \in 1..m + n : u[i] = a + i - 1
  <2>1. s \in Seq(Nat) /\ Len(s) = b - a /\ \A i \in 1..b - a : s[i] = a + i - 1
    BY SpanIs
  <2>2. t \in Seq(Nat) /\ Len(t) = c - b /\ \A i \in 1..c - b : t[i] = b + i - 1
    BY SpanIs
  <2>3. u \in Seq(Nat) /\ Len(u) = c - a /\ \A i \in 1..c - a : u[i] = a + i - 1
    BY SpanIs
  <2>4. c - a = m + n
    BY <1>1
  <2>. HIDE DEF s, t, u
  <2>. QED  BY <1>1, <2>1, <2>2, <2>3, <2>4
<1>. HIDE DEF s, t, u
<1>3. /\ s \o t \in Seq(Nat) /\ Len(s \o t) = m + n
      /\ \A i \in 1..m + n : (s \o t)[i] = IF i <= m THEN s[i] ELSE t[i - m]
  BY <1>2, ConcatProperties
<1>4. ASSUME NEW i \in 1..m + n PROVE (s \o t)[i] = u[i]
  <2>1. CASE i <= m
    BY <2>1, <1>2, <1>3
  <2>2. CASE ~(i <= m)
    <3>1. i - m \in 1..n
      BY <2>2
    <3>2. t[i - m] = a + m + (i - m) - 1
      BY <3>1, <1>1, <1>2
    <3>. QED  BY <2>2, <3>2, <1>2, <1>3
  <2>. QED  BY <2>1, <2>2
<1>5. s \o t = u
  BY <1>2, <1>3, <1>4, SeqEqual
<1>. QED  BY <1>5 DEF s, t, u

LEMMA SpanPart ==
    ASSUME NEW a \in Nat, NEW x \in Nat, NEW y \in Nat, NEW z \in Nat,
           a <= x, x <= y, y <= z
    PROVE  SubSeq(Span(a, z), FirstAt(a, x), LastAt(a, y)) = Span(x, y)
<1>. DEFINE s == Span(a, z)  t == Span(x, y)
<1>1. PICK c \in Nat, j \in Nat, k \in Nat, n \in Nat :
        c = FirstAt(a, x) /\ j = LastAt(a, y) /\ k = y - x /\ n = z - a
  BY DEF FirstAt, LastAt
<1>2. c = x - a + 1 /\ j = y - a
  BY <1>1 DEF FirstAt, LastAt
<1>3. /\ s \in Seq(Nat) /\ Len(s) = n /\ \A h \in 1..n : s[h] = a + h - 1
      /\ t \in Seq(Nat) /\ Len(t) = k /\ \A h \in 1..k : t[h] = x + h - 1
  <2>1. s \in Seq(Nat) /\ Len(s) = z - a /\ \A h \in 1..z - a : s[h] = a + h - 1
    BY SpanIs
  <2>2. t \in Seq(Nat) /\ Len(t) = y - x /\ \A h \in 1..y - x : t[h] = x + h - 1
    BY SpanIs
  <2>. HIDE DEF s, t
  <2>. QED  BY <1>1, <2>1, <2>2
<1>. HIDE DEF s, t
<1>4. \A h \in c..j : h \in 1..n
  BY <1>1, <1>2
<1>5. \A h \in c..j : s[h] \in Nat
  BY <1>3, <1>4, ElementOfSeq
<1>6. /\ SubSeq(s, c, j) \in Seq(Nat)
      /\ Len(SubSeq(s, c, j)) = IF c <= j THEN j - c + 1 ELSE 0
      /\ \A h \in 1..j - c + 1 : SubSeq(s, c, j)[h] = s[c + h - 1]
  BY <1>5, SubSeqProperties, c \in Int, j \in Int
<1>7. Len(SubSeq(s, c, j)) = k /\ j - c + 1 = k
  BY <1>1, <1>2, <1>6
<1>8. ASSUME NEW h \in 1..k PROVE SubSeq(s, c, j)[h] = t[h]
  <2>1. c + h - 1 \in 1..n /\ h \in 1..j - c + 1
    BY <1>1, <1>2
  <2>2. s[c + h - 1] = a + (c + h - 1) - 1
    BY <1>3, <2>1
  <2>. QED  BY <2>1, <2>2, <1>2, <1>3, <1>6
<1>9. SubSeq(s, c, j) = t
  BY <1>3, <1>6, <1>7, <1>8, SeqEqual
<1>. QED  BY <1>1, <1>9 DEF s, t

LEMMA LeastIs ==
    ASSUME NEW a \in Nat, NEW b \in Nat
    PROVE  /\ Least(a, b) \in Nat /\ Least(a, b) <= a /\ Least(a, b) <= b
           /\ Least(a, b) = a \/ Least(a, b) = b
BY DEF Least

-----------------------------------------------------------------------------
LEMMA PagingStarts == PagingInit => PagingIInv
<1>. SUFFICES ASSUME PagingInit PROVE PagingIInv
  OBVIOUS
<1>1. Span(0, 0) = <<>>
  BY SpanEmpty, 0 \in Nat
<1>2. Least(0, InlineMax) = 0 /\ Least(0, RetainedMax) = 0
  BY PagingConstants DEF Least
<1>3. <<>> \in Seq(Nat) /\ Len(<<>>) = 0
  BY EmptySeq
<1>4. PagingTypes
  BY <1>3 DEF PagingInit, PagingTypes
<1>5. BufferIsTail
  BY <1>1, PagingConstants DEF PagingInit, BufferIsTail
<1>6. KeptIsPrefix
  <2>1. (InlineMax < 0) = FALSE /\ (RetainedMax < 0) = FALSE
    BY PagingConstants
  <2>. QED  BY <1>1, <1>2, <2>1 DEF PagingInit, KeptIsPrefix
<1>7. ReaderHasPrefix
  BY <1>1, <1>3 DEF PagingInit, ReaderHasPrefix
<1>8. ReaderIsWithin
  BY DEF PagingInit, ReaderIsWithin
<1>. QED  BY <1>4, <1>5, <1>6, <1>7, <1>8 DEF PagingIInv

\* A chunk extends the tail and both prefixes.
LEMMA WriteKeeps ==
    ASSUME PagingIInv, NEW n \in 1..Written, WriteOutput(n)
    PROVE  PagingIInv'
<1>. n \in Nat /\ n > 0
  BY PagingConstants
<1>1. /\ total \in Nat /\ earliest \in Nat /\ earliest <= total /\ ~closed
      /\ total - earliest <= Capacity /\ buffer = Span(earliest, total)
      /\ Capacity \in Nat /\ InlineMax \in Nat /\ RetainedMax \in Nat
  BY PagingConstants DEF PagingIInv, PagingTypes, BufferIsTail, WriteOutput
<1>2. total' = total + n /\ UNCHANGED <<closed, reader>> /\ kept' = Drained(n)
  BY DEF WriteOutput, AppendBytes
<1>0. PICK new \in Nat : new = total + n /\ Bytes(total, n) = Span(total, new)
  BY <1>1, SpanOf
<1>3. BufferIsTail' /\ earliest' \in Nat
  <2>. DEFINE pushed == buffer \o Bytes(total, n)
              lost == IF Len(pushed) > Capacity THEN Len(pushed) - Capacity ELSE 0
  <2>1. pushed = Span(earliest, new) /\ Len(pushed) = new - earliest
    <3>1. earliest <= total /\ total <= new /\ earliest <= new
      BY <1>0, <1>1
    <3>2. Span(earliest, total) \o Span(total, new) = Span(earliest, new)
      BY <1>1, <3>1, SpanJoin
    <3>3. Len(Span(earliest, new)) = new - earliest
      BY <1>1, <3>1, SpanIs
    <3>. QED  BY <1>0, <1>1, <3>2, <3>3
  <2>2. buffer' = SubSeq(pushed, lost + 1, Len(pushed)) /\ earliest' = earliest + lost
    BY DEF WriteOutput, AppendBytes
  <2>3. PICK e \in Nat : e = earliest + lost
    <3>. HIDE DEF pushed
    <3>1. Len(pushed) \in Nat
      BY <1>0, <1>1, <2>1
    <3>. QED  BY <1>1, <3>1
  <2>4. /\ earliest <= e /\ e <= new /\ new - e <= Capacity
        /\ lost + 1 = FirstAt(earliest, e) /\ Len(pushed) = LastAt(earliest, new)
    BY <1>0, <1>1, <2>1, <2>3 DEF FirstAt, LastAt
  <2>. HIDE DEF lost, pushed
  <2>5. buffer' = SubSeq(Span(earliest, new), FirstAt(earliest, e), LastAt(earliest, new))
    BY <2>1, <2>2, <2>4, Zenon
  <2>6. new <= new
    OBVIOUS
  <2>7. buffer' = Span(e, new)
    BY <1>1, <2>4, <2>5, <2>6, SpanPart
  <2>. QED  BY <1>0, <1>2, <2>2, <2>3, <2>4, <2>7 DEF BufferIsTail
<1>4. ASSUME NEW max \in Nat
      PROVE  LET old == Span(0, Least(total, max))
                 more == Least(n, max - Len(old))
             IN  /\ old \o Bytes(total, more) = Span(0, Least(new, max))
                 /\ ((max < total) \/ more < n) = (max < new)
  <2>. DEFINE old == Span(0, Least(total, max))
              more == Least(n, max - Len(old))
  <2>1. Len(old) = Least(total, max) /\ old \in Seq(Nat)
    <3>1. PICK l \in Nat : l = Least(total, max) /\ 0 <= l /\ l - 0 = l
      BY <1>1, LeastIs
    <3>. QED  BY <3>1, SpanIs, 0 \in Nat
  <2>2. CASE total <= max
    <3>1. Least(total, max) = total /\ max - total \in Nat /\ 0 <= total
      BY <1>1, <2>2 DEF Least
    <3>2. /\ more \in Nat /\ more = Least(n, max - total)
          /\ total + more = Least(new, max) /\ (more < n) = (max < new)
      BY <1>0, <1>1, <2>1, <2>2, <3>1 DEF Least
    <3>3. PICK c \in Nat : c = Least(new, max) /\ total <= c
      BY <1>0, <1>1, <2>2 DEF Least
    <3>. HIDE DEF more
    <3>4. Bytes(total, more) = Span(total, total + more)
      BY <1>1, <3>2, SpanOf
    <3>5. Span(0, total) \o Span(total, c) = Span(0, c)
      BY <1>1, <3>1, <3>3, SpanJoin, 0 \in Nat, Zenon
    <3>6. ~(max < total)
      BY <1>1, <2>2
    <3>7. old \o Bytes(total, more) = Span(0, Least(new, max))
      BY <3>1, <3>2, <3>3, <3>4, <3>5, Zenon
    <3>8. ((max < total) \/ more < n) = (max < new)
      BY <3>2, <3>6
    <3>. HIDE DEF old
    <3>. QED  BY <3>7, <3>8, Zenon DEF old, more
  <2>3. CASE max < total
    <3>1. Least(total, max) = max /\ Least(new, max) = max /\ more = 0
      BY <1>0, <1>1, <2>1, <2>3 DEF Least
    <3>. HIDE DEF more
    <3>2. Bytes(total, 0) = <<>>
      <4>1. Bytes(total, 0) \in Seq(Nat) /\ Len(Bytes(total, 0)) = 0
        BY <1>1, BytesAre, 0 \in Nat
      <4>. QED  BY <4>1, EmptySeq
    <3>3. max < new /\ 0 < n
      BY <1>0, <1>1, <2>3
    <3>. HIDE DEF old
    <3>4. old \o <<>> = old
      BY <2>1, ConcatEmptySeq
    <3>5. old \o Bytes(total, more) = Span(0, Least(new, max))
      <4>1. old = Span(0, max)
        BY <3>1, Zenon DEF old
      <4>. QED  BY <3>1, <3>2, <3>4, <4>1, Zenon
    <3>6. ((max < total) \/ more < n) = (max < new)
      BY <2>3, <3>1, <3>3, Zenon
    <3>. QED  BY <3>5, <3>6, Zenon DEF old, more
  <2>. QED  BY <1>1, <2>2, <2>3
<1>5. KeptIsPrefix'
  <2>1. /\ kept.inline = Span(0, Least(total, InlineMax))
        /\ kept.retained = Span(0, Least(total, RetainedMax))
        /\ kept.inlineCut = (InlineMax < total) /\ kept.retainedCut = (RetainedMax < total)
    BY DEF PagingIInv, KeptIsPrefix
  <2>2. kept' = [inline |-> Span(0, Least(new, InlineMax)),
                 retained |-> Span(0, Least(new, RetainedMax)),
                 inlineCut |-> InlineMax < new, retainedCut |-> RetainedMax < new]
    BY <1>1, <1>2, <1>4, <2>1, Zenon DEF Drained
  <2>3. total' = new
    BY <1>0, <1>2
  <2>. QED  BY <2>2, <2>3 DEF KeptIsPrefix
<1>6. PagingTypes'
  BY <1>1, <1>2, <1>3 DEF PagingIInv, PagingTypes
<1>7. ReaderHasPrefix'
  BY <1>2 DEF PagingIInv, ReaderHasPrefix
<1>8. ReaderIsWithin'
  BY <1>1, <1>2 DEF PagingIInv, ReaderIsWithin, PagingTypes
<1>. QED  BY <1>3, <1>5, <1>6, <1>7, <1>8 DEF PagingIInv

LEMMA CloseKeeps == ASSUME PagingIInv, CloseStream PROVE PagingIInv'
BY DEF CloseStream, PagingIInv, PagingTypes, BufferIsTail, KeptIsPrefix, ReaderHasPrefix, ReaderIsWithin

LEMMA FollowKeeps ==
    ASSUME PagingIInv, NEW s \in {"job", "run"}, Follow(s)
    PROVE  PagingIInv'
<1>1. reader.source = "none" /\ (s = "run" => closed)
      /\ UNCHANGED <<buffer, total, earliest, closed, kept, last>>
  BY DEF Follow
<1>2. /\ reader' \in [source : {"none", "job", "run"}, offset : Nat, got : Seq(Nat),
                      gaps : BOOLEAN, done : BOOLEAN]
      /\ reader'.source = s /\ reader'.offset = reader.offset /\ reader'.got = reader.got
      /\ reader'.gaps = reader.gaps /\ reader'.done = reader.done
  BY DEF Follow, PagingIInv, PagingTypes
<1>3. 0 <= total /\ 0 <= Least(total, RetainedMax)
  BY PagingConstants, LeastIs DEF PagingIInv, PagingTypes
<1>. QED
  BY <1>1, <1>2, <1>3
  DEF PagingIInv, PagingTypes, BufferIsTail, KeptIsPrefix, ReaderHasPrefix, ReaderIsWithin

-----------------------------------------------------------------------------
\* What the rolling buffer answers, in the stream's own positions.
LEMMA RollingRangeIs ==
    ASSUME PagingIInv, NEW offset \in Nat, offset <= total, NEW max \in 1..ReadMax
    PROVE  \E first, next \in Nat :
             /\ first >= offset /\ first >= earliest /\ first <= next /\ next <= total
             /\ next - first <= max /\ Len(Span(first, next)) = next - first
             /\ Least(Greatest(offset, earliest), total) = first
             /\ ~(offset < earliest) => first = offset
             /\ RollingRange(offset, max) =
                 [bytes |-> Span(first, next), requested |-> offset, earliest |-> earliest,
                  next |-> next, total |-> total, eof |-> closed /\ next >= total,
                  gap |-> offset < earliest, truncated |-> earliest > 0]
<1>. DEFINE first == Greatest(offset, earliest)
            size == Least(max, total - first)
<1>1. /\ total \in Nat /\ earliest \in Nat /\ earliest <= total /\ max \in Nat
      /\ buffer = Span(earliest, total)
  BY PagingConstants DEF PagingIInv, PagingTypes, BufferIsTail
<1>2. /\ first \in Nat /\ first >= offset /\ first >= earliest /\ first <= total
      /\ ~(offset < earliest) => first = offset
      /\ Least(first, total) = first
  BY <1>1 DEF Greatest, Least
<1>. HIDE DEF first
<1>3. /\ size \in Nat /\ first + size <= total /\ size <= max
      /\ Least(first - earliest + max, total - earliest) = first - earliest + size
  BY <1>1, <1>2 DEF Least
<1>. HIDE DEF size
<1>4. Len(buffer) = total - earliest
  BY <1>1, SpanIs
<1>5. PICK next \in Nat : next = first + size
  BY <1>2, <1>3
<1>6. SubSeq(buffer, first - earliest + 1, first - earliest + size) = Span(first, next)
  <2>1. /\ earliest <= first /\ first <= next /\ next <= total
        /\ first - earliest + 1 = FirstAt(earliest, first)
        /\ first - earliest + size = LastAt(earliest, next)
    BY <1>1, <1>2, <1>3, <1>5 DEF FirstAt, LastAt
  <2>. QED  BY <1>1, <1>2, <2>1, SpanPart
<1>7. Len(Span(first, next)) = next - first /\ next - first = size /\ first <= next
  <2>1. first <= next /\ next - first = size
    BY <1>2, <1>3, <1>5
  <2>. QED  BY <1>2, <2>1, SpanIs
<1>8. Least(Greatest(offset, earliest), total) = first
  BY <1>2 DEF first
<1>9. RollingRange(offset, max) =
        [bytes |-> Span(first, next), requested |-> offset, earliest |-> earliest,
         next |-> next, total |-> total, eof |-> closed /\ next >= total,
         gap |-> offset < earliest, truncated |-> earliest > 0]
  <2>1. SubSeq(buffer, first - earliest + 1, Least(first - earliest + max, Len(buffer)))
          = Span(first, next)
    BY <1>3, <1>4, <1>6
  <2>2. first + Len(Span(first, next)) = next
    BY <1>2, <1>5, <1>7
  <2>. QED  BY <1>8, <2>1, <2>2, Zenon DEF RollingRange
<1>10. next <= total /\ next - first <= max
  BY <1>3, <1>5, <1>7
<1>. QED  BY <1>2, <1>7, <1>8, <1>9, <1>10

\* So the Hub's check, which recomputes the range, accepts it.
LEMMA HonestRangesHold ==
    ASSUME PagingIInv PROVE HonestRangesPass
<1>. SUFFICES ASSUME NEW offset \in 0..total, NEW max \in 1..ReadMax
              PROVE  Validated(RollingRange(offset, max), offset, max)
  BY DEF HonestRangesPass
<1>1. total \in Nat /\ offset \in Nat /\ offset <= total /\ max \in Nat
      /\ earliest \in Nat /\ earliest <= total /\ total - earliest <= Capacity
  BY PagingConstants DEF PagingIInv, PagingTypes, BufferIsTail
<1>2. PICK first, next \in Nat :
        /\ first >= offset /\ first >= earliest /\ first <= next /\ next <= total
        /\ next - first <= max /\ Len(Span(first, next)) = next - first
        /\ Least(Greatest(offset, earliest), total) = first
        /\ ~(offset < earliest) => first = offset
        /\ RollingRange(offset, max) =
            [bytes |-> Span(first, next), requested |-> offset, earliest |-> earliest,
             next |-> next, total |-> total, eof |-> closed /\ next >= total,
             gap |-> offset < earliest, truncated |-> earliest > 0]
  BY <1>1, RollingRangeIs
<1>. DEFINE r == RollingRange(offset, max)
<1>3. /\ r.bytes = Span(first, next) /\ r.requested = offset /\ r.earliest = earliest
      /\ r.next = next /\ r.total = total /\ r.eof = (closed /\ next >= total)
      /\ r.gap = (offset < earliest) /\ r.truncated = (earliest > 0)
  BY <1>2
<1>. HIDE DEF r
<1>4. r.requested = offset /\ r.earliest <= r.total /\ r.next <= r.total
      /\ r.total - r.earliest <= Capacity /\ Len(r.bytes) <= max
  BY <1>1, <1>2, <1>3
<1>5. r.gap = (offset < r.earliest) /\ r.truncated = (r.earliest > 0)
  BY <1>3, Zenon
<1>6. ~(r.eof /\ r.next < r.total)
  <2>1. ~(next >= total /\ next < total)
    BY <1>1
  <2>. QED  BY <1>3, <2>1, Zenon
<1>7. r.next = Least(Greatest(offset, r.earliest), r.total) + Len(r.bytes)
  <2>1. next = first + (next - first)
    OBVIOUS
  <2>. QED  BY <1>2, <1>3, <2>1, Zenon
<1>8. Validated(r, offset, max)
  BY <1>4, <1>5, <1>6, <1>7, Zenon DEF Validated
<1>. QED  BY <1>8 DEF r

\* A client that takes the next bytes of the stream.
LEMMA ReceiveKeeps ==
    ASSUME PagingIInv, NEW first \in Nat, NEW next \in Nat, NEW r,
           first >= reader.offset, first <= next,
           r.bytes = Span(first, next), r.next = next,
           r.gap \in BOOLEAN, r.eof \in BOOLEAN, ~r.gap => first = reader.offset, Receive(r)
    PROVE  /\ PagingTypes' /\ BufferIsTail' /\ KeptIsPrefix' /\ ReaderHasPrefix'
           /\ reader'.source = reader.source /\ reader'.offset = next
           /\ reader'.gaps = (reader.gaps \/ r.gap) /\ reader'.done = r.eof
<1>. DEFINE b == Span(first, next)  got == reader.got
<1>0. PICK size \in Nat : size = next - first
  OBVIOUS
<1>1. /\ reader.offset \in Nat /\ got \in Seq(Nat) /\ reader.gaps \in BOOLEAN
      /\ UNCHANGED <<buffer, total, earliest, closed, kept>>
  BY DEF PagingIInv, PagingTypes, Receive
<1>2. b \in Seq(Nat) /\ Len(b) = size /\ \A i \in 1..size : b[i] = first + i - 1
  BY <1>0, SpanIs
<1>. HIDE DEF b
<1>3. /\ got \o b \in Seq(Nat) /\ Len(got \o b) = Len(got) + size /\ Len(got) \in Nat
      /\ \A i \in 1..Len(got) + size :
           (got \o b)[i] = IF i <= Len(got) THEN got[i] ELSE b[i - Len(got)]
  BY <1>1, <1>2, ConcatProperties, LenProperties
<1>4. /\ reader' \in [source : {"none", "job", "run"}, offset : Nat, got : Seq(Nat),
                      gaps : BOOLEAN, done : BOOLEAN]
      /\ reader'.source = reader.source /\ reader'.offset = next
      /\ reader'.got = got \o b /\ reader'.gaps = (reader.gaps \/ r.gap) /\ reader'.done = r.eof
  <2>1. reader' = [reader EXCEPT !.offset = next, !.got = got \o b,
                                 !.gaps = reader.gaps \/ r.gap, !.done = r.eof]
    BY DEF Receive, b
  <2>2. next \in Nat /\ (reader.gaps \/ r.gap) \in BOOLEAN
    BY <1>1
  <2>3. reader \in [source : {"none", "job", "run"}, offset : Nat, got : Seq(Nat),
                    gaps : BOOLEAN, done : BOOLEAN]
    BY DEF PagingIInv, PagingTypes
  <2>4. PICK g, h, o : g = got \o b /\ h = (reader.gaps \/ r.gap) /\ o = next
    OBVIOUS
  <2>5. reader' = [reader EXCEPT !.offset = o, !.got = g, !.gaps = h, !.done = r.eof]
    BY <2>1, <2>4, Zenon
  <2>6. g \in Seq(Nat) /\ h \in BOOLEAN /\ o \in Nat
    BY <1>3, <2>2, <2>4
  <2>. HIDE DEF got
  <2>7. /\ reader' \in [source : {"none", "job", "run"}, offset : Nat, got : Seq(Nat),
                         gaps : BOOLEAN, done : BOOLEAN]
        /\ reader'.source = reader.source /\ reader'.offset = o
        /\ reader'.got = g /\ reader'.gaps = h /\ reader'.done = r.eof
    BY <2>3, <2>5, <2>6
  <2>. QED  BY <2>4, <2>7, Zenon
<1>5. \A i \in 1..Len(got) : got[i] < reader.offset /\ got[i] \in Nat
  BY <1>1, ElementOfSeq DEF PagingIInv, ReaderHasPrefix
<1>6. \A i, j \in 1..Len(got) : i < j => got[i] < got[j]
  BY DEF PagingIInv, ReaderHasPrefix
<1>. HIDE DEF got
<1>7. \A i \in Len(got) + 1..Len(got) + size : i - Len(got) \in 1..size
  BY <1>3
<1>8. \A i \in 1..Len(got) + size :
        IF i <= Len(got) THEN (got \o b)[i] = got[i] /\ (got \o b)[i] < reader.offset
        ELSE (got \o b)[i] = first + (i - Len(got)) - 1
  BY <1>2, <1>3, <1>5, <1>7
<1>9. \A i \in 1..Len(got \o b) : (got \o b)[i] < next
  BY <1>0, <1>1, <1>3, <1>5, <1>8
<1>10. \A i, j \in 1..Len(got \o b) : i < j => (got \o b)[i] < (got \o b)[j]
  <2>. SUFFICES ASSUME NEW i \in 1..Len(got) + size, NEW j \in 1..Len(got) + size, i < j
                PROVE  (got \o b)[i] < (got \o b)[j]
    BY <1>3
  <2>1. CASE j <= Len(got)
    <3>1. i \in 1..Len(got) /\ j \in 1..Len(got)
      BY <1>3, <2>1
    <3>2. (got \o b)[i] = got[i] /\ (got \o b)[j] = got[j]
      BY <1>8, <2>1, <3>1
    <3>. QED  BY <1>6, <3>1, <3>2
  <2>2. CASE i <= Len(got) /\ ~(j <= Len(got))
    <3>1. (got \o b)[i] < reader.offset /\ (got \o b)[j] = first + (j - Len(got)) - 1
          /\ (got \o b)[i] = got[i] /\ got[i] \in Nat
      BY <1>3, <1>5, <1>8, <2>2
    <3>. QED  BY <1>1, <1>3, <2>2, <3>1
  <2>3. CASE ~(i <= Len(got))
    <3>1. (got \o b)[i] = first + (i - Len(got)) - 1 /\ (got \o b)[j] = first + (j - Len(got)) - 1
      BY <1>3, <1>8, <2>3
    <3>. QED  BY <1>3, <3>1
  <2>. QED  BY <2>1, <2>2, <2>3
<1>11. ~reader'.gaps => got \o b = Span(0, next)
  <2>. SUFFICES ASSUME ~reader'.gaps PROVE got \o b = Span(0, next)
    OBVIOUS
  <2>1. first = reader.offset /\ got = Span(0, reader.offset) /\ 0 <= first
    BY <1>4 DEF PagingIInv, ReaderHasPrefix, got
  <2>2. Span(0, first) \o Span(first, next) = Span(0, next)
    BY <2>1, SpanJoin, 0 \in Nat
  <2>. QED  BY <2>1, <2>2 DEF b
<1>12. PagingTypes' /\ BufferIsTail' /\ KeptIsPrefix'
  BY <1>1, <1>4 DEF PagingIInv, PagingTypes, BufferIsTail, KeptIsPrefix
<1>13. ReaderHasPrefix'
  BY <1>4, <1>9, <1>10, <1>11 DEF ReaderHasPrefix
<1>. QED  BY <1>4, <1>12, <1>13

LEMMA PageJobKeeps ==
    ASSUME PagingIInv, NEW max \in 1..ReadMax, PageJob(max)
    PROVE  PagingIInv'
<1>. DEFINE r == RollingRange(reader.offset, max)
<1>1. CASE UNCHANGED pagingVars
  BY <1>1 DEF pagingVars, PagingIInv, PagingTypes, BufferIsTail, KeptIsPrefix,
              ReaderHasPrefix, ReaderIsWithin
<1>2. CASE Receive(r)
  <2>1. /\ reader.offset \in Nat /\ reader.offset <= total /\ reader.source = "job"
        /\ total \in Nat /\ closed \in BOOLEAN
    BY DEF PagingIInv, PagingTypes, ReaderIsWithin, PageJob
  <2>2. PICK first \in Nat, next \in Nat :
          /\ first >= reader.offset /\ first <= next /\ next <= total
          /\ r.bytes = Span(first, next) /\ r.next = next
          /\ r.gap \in BOOLEAN /\ r.eof \in BOOLEAN /\ (r.eof => closed /\ next = total)
          /\ ~r.gap => first = reader.offset
    <3>1. PICK first, next \in Nat :
            /\ first >= reader.offset /\ first <= next /\ next <= total
            /\ ~(reader.offset < earliest) => first = reader.offset
            /\ r = [bytes |-> Span(first, next), requested |-> reader.offset,
                    earliest |-> earliest, next |-> next, total |-> total,
                    eof |-> closed /\ next >= total,
                    gap |-> reader.offset < earliest, truncated |-> earliest > 0]
      BY <2>1, RollingRangeIs
    <3>. HIDE DEF r
    <3>2. /\ r.bytes = Span(first, next) /\ r.next = next
          /\ r.gap = (reader.offset < earliest) /\ r.eof = (closed /\ next >= total)
      BY <3>1
    <3>3. r.gap \in BOOLEAN /\ r.eof \in BOOLEAN
      BY <3>2
    <3>4. r.eof => closed /\ next = total
      <4>1. (closed /\ next >= total) => closed /\ next = total
        BY <2>1, <3>1
      <4>. QED  BY <3>2, <4>1, Zenon
    <3>5. ~r.gap => first = reader.offset
      BY <3>1, <3>2
    <3>. QED  BY <3>1, <3>2, <3>3, <3>4, <3>5
  <2>. HIDE DEF r
  <2>4. /\ PagingTypes' /\ BufferIsTail' /\ KeptIsPrefix' /\ ReaderHasPrefix'
        /\ reader'.source = reader.source /\ reader'.offset = next
        /\ reader'.done = r.eof
    BY <1>2, <2>2, ReceiveKeeps
  <2>5. UNCHANGED <<total, closed>>
    BY <1>2 DEF Receive
  <2>6. ReaderIsWithin'
    BY <2>1, <2>2, <2>4, <2>5 DEF ReaderIsWithin
  <2>. QED  BY <2>4, <2>6 DEF PagingIInv
<1>. QED  BY <1>1, <1>2 DEF PageJob

LEMMA PageRunKeeps ==
    ASSUME PagingIInv, NEW max \in 1..ReadMax, PageRun(max)
    PROVE  PagingIInv'
<1>. DEFINE r == RetainedRange(reader.offset, max)
<1>1. /\ reader.offset \in Nat /\ total \in Nat /\ RetainedMax \in Nat /\ max \in Nat
      /\ closed /\ reader.source = "run" /\ ~reader.gaps
      /\ reader.offset <= Least(total, RetainedMax)
      /\ kept.retained = Span(0, Least(total, RetainedMax))
  BY PagingConstants DEF PagingIInv, PagingTypes, ReaderIsWithin, PageRun, KeptIsPrefix
<1>2. PICK o \in Nat, w \in Nat : o = reader.offset /\ w = Least(total, RetainedMax)
  BY <1>1, LeastIs
<1>3. PICK next \in Nat : next = Least(o + max, w) /\ o <= next /\ next <= w
  BY <1>1, <1>2 DEF Least
<1>4. Len(Span(0, w)) = w /\ Len(Span(o, next)) = next - o
  <2>1. 0 <= w /\ w - 0 = w
    OBVIOUS
  <2>. QED  BY <1>3, <2>1, SpanIs, 0 \in Nat
<1>5. SubSeq(Span(0, w), o + 1, next) = Span(o, next)
  <2>1. 0 <= o /\ FirstAt(0, o) = o + 1 /\ LastAt(0, next) = next
    BY DEF FirstAt, LastAt
  <2>2. SubSeq(Span(0, w), FirstAt(0, o), LastAt(0, next)) = Span(o, next)
    BY <1>3, <2>1, SpanPart, 0 \in Nat
  <2>. QED  BY <2>1, <2>2, Zenon
<1>6. o + (next - o) = next
  OBVIOUS
<1>7. /\ r.bytes = Span(o, next) /\ r.next = next /\ r.gap \in BOOLEAN /\ ~r.gap
      /\ r.eof \in BOOLEAN /\ (r.eof => next = w)
  <2>1. r = [NoRange EXCEPT !.bytes = Span(o, next), !.requested = o, !.total = w,
                            !.next = next, !.eof = next >= w]
    BY <1>1, <1>2, <1>3, <1>4, <1>5, <1>6 DEF RetainedRange
  <2>. HIDE DEF r
  <2>2. /\ r.bytes = Span(o, next) /\ r.next = next /\ r.gap = FALSE /\ r.eof = (next >= w)
    BY <2>1 DEF NoRange
  <2>3. (next >= w) => next = w
    BY <1>3
  <2>4. r.eof => next = w
    BY <2>2, <2>3, Zenon
  <2>5. ~r.gap /\ r.gap \in BOOLEAN
    BY <2>2, Zenon
  <2>6. r.eof \in BOOLEAN
    BY <2>2
  <2>. QED  BY <2>2, <2>4, <2>5, <2>6, Zenon
<1>8. Receive(r)
  BY DEF PageRun
<1>. HIDE DEF r
<1>9. o >= reader.offset
  BY <1>2
<1>10. /\ PagingTypes' /\ BufferIsTail' /\ KeptIsPrefix' /\ ReaderHasPrefix'
       /\ reader'.source = reader.source /\ reader'.offset = next
       /\ reader'.gaps = (reader.gaps \/ r.gap) /\ reader'.done = r.eof
  BY <1>2, <1>3, <1>7, <1>8, <1>9, ReceiveKeeps
<1>11. UNCHANGED <<total, closed>>
  BY <1>8 DEF Receive
<1>12. ReaderIsWithin'
  BY <1>1, <1>2, <1>3, <1>7, <1>10, <1>11 DEF ReaderIsWithin
<1>. QED  BY <1>10, <1>12 DEF PagingIInv

LEMMA PagingInvariant == PagingSpec => []PagingIInv
<1>1. PagingIInv /\ [PagingNext]_pagingVars => PagingIInv'
  <2>. SUFFICES ASSUME PagingIInv, [PagingNext]_pagingVars PROVE PagingIInv'
    OBVIOUS
  <2>1. CASE UNCHANGED pagingVars
    BY <2>1 DEF pagingVars, PagingIInv, PagingTypes, BufferIsTail, KeptIsPrefix,
                ReaderHasPrefix, ReaderIsWithin
  <2>2. CASE PagingNext
    BY <2>2, WriteKeeps, CloseKeeps, FollowKeeps, PageJobKeeps, PageRunKeeps DEF PagingNext
  <2>. QED  BY <2>1, <2>2
<1>. QED  BY <1>1, PagingStarts, PTL DEF PagingSpec

\* A reader of rolling or retained output gets it in order or is told of the gap,
\* is told the end only at the end, and no honest range is refused
\* (RollingOutput::range, validate_managed_job_output), for any capacity and range.
THEOREM PagingIsSafe == PagingSpec => []PagingSafe
<1>1. PagingIInv => PagingSafe
  <2>. SUFFICES ASSUME PagingIInv PROVE PagingSafe
    OBVIOUS
  <2>1. InOrderOrTold
    <3>. SUFFICES ASSUME NEW i \in DOMAIN reader.got, NEW j \in DOMAIN reader.got, i < j
                  PROVE  /\ reader.got[i] < reader.got[j]
                         /\ ~reader.gaps => reader.got[j] - reader.got[i] = j - i
      BY DEF InOrderOrTold
    <3>1. reader.got \in Seq(Nat) /\ reader.offset \in Nat
      BY DEF PagingIInv, PagingTypes
    <3>2. i \in 1..Len(reader.got) /\ j \in 1..Len(reader.got) /\ Len(reader.got) \in Nat
      BY <3>1, LenProperties
    <3>3. reader.got[i] < reader.got[j]
      BY <3>2 DEF PagingIInv, ReaderHasPrefix
    <3>4. ASSUME ~reader.gaps PROVE reader.got[j] - reader.got[i] = j - i
      <4>1. reader.got = Span(0, reader.offset) /\ 0 <= reader.offset
            /\ reader.offset - 0 = reader.offset
        BY <3>1, <3>4 DEF PagingIInv, ReaderHasPrefix
      <4>2. /\ Len(reader.got) = reader.offset
            /\ \A k \in 1..reader.offset : reader.got[k] = 0 + k - 1
        <5>1. PICK o \in Nat : o = reader.offset /\ 0 <= o
          BY <3>1
        <5>2. /\ Len(Span(0, o)) = o - 0
              /\ \A k \in 1..o - 0 : Span(0, o)[k] = 0 + k - 1
          BY <5>1, SpanIs, 0 \in Nat
        <5>3. o - 0 = o
          OBVIOUS
        <5>. QED  BY <4>1, <5>1, <5>2, <5>3
      <4>3. reader.got[i] = 0 + i - 1 /\ reader.got[j] = 0 + j - 1
        BY <3>2, <4>2
      <4>. QED  BY <3>2, <4>3
    <3>. QED  BY <3>3, <3>4
  <2>2. EndMeansAll
    <3>1. total \in Nat /\ RetainedMax \in Nat
      BY PagingConstants DEF PagingIInv, PagingTypes
    <3>2. ~(RetainedMax < total) => Least(total, RetainedMax) = total
      BY <3>1 DEF Least
    <3>3. /\ kept.retained = Span(0, Least(total, RetainedMax))
          /\ kept.retainedCut = (RetainedMax < total)
      BY DEF PagingIInv, KeptIsPrefix
    <3>4. Bytes(0, total) = Span(0, total)
      BY <3>1, SpanOf, 0 \in Nat
    <3>. QED  BY <3>2, <3>3, <3>4 DEF EndMeansAll, PagingIInv, ReaderHasPrefix, ReaderIsWithin
  <2>3. HonestRangesPass
    BY HonestRangesHold
  <2>. QED  BY <2>1, <2>2, <2>3 DEF PagingSafe
<1>. QED  BY <1>1, PagingInvariant, PTL

-----------------------------------------------------------------------------
(* Access: a call in the router has been proven for each layer behind it,  *)
(* and the counters count exactly the calls that hold something.           *)

Places == {"idle", "peer", "limits", "guard", "verify", "locked", "fetching", "asking",
           "reading", "decode", "inside"}
Charges == [age : Nat, refused : BOOLEAN]

AccessTypes ==
  /\ call \in [Calls -> Places]
  /\ ask \in [Calls -> [peer : Peers \cup {"none"}, key : Keys \cup {"none"}, flaw : Flaws]]
  /\ proven \in [Calls -> BOOLEAN]
  /\ holder \in Calls \cup {"none"}

ClockTypes ==
  /\ standing \subseteq Keys
  /\ dropped \in [Keys -> 0..JwksTtl + HttpTimeout]
  /\ cache \in [set : SUBSET Keys, age : 0..JwksTtl, tried : Nat]
  /\ fetch \in [age : 0..HttpTimeout, read : BOOLEAN, set : SUBSET Keys]

\* What has been looked for at a place is no longer there.
FlawsLeft(c) ==
  /\ mode = "proxy" => /\ call[c] \in {"idle", "peer", "limits", "guard", "inside"}
                       /\ call[c] = "peer" => ask[c].flaw \in {"none", "credential", "envelope"}
                       /\ call[c] \in {"limits", "guard"} => ask[c].flaw \in {"none", "envelope"}
  /\ mode # "proxy" => /\ call[c] # "peer" /\ ask[c].flaw # "credential"
                       /\ call[c] \in Holding \ {"guard", "inside"} =>
                            ask[c].flaw # "envelope" /\ ask[c].key \in Keys
                       /\ call[c] \in {"limits", "guard"} => ask[c].key \in Keys
                       /\ call[c] = "decode" => ask[c].flaw # "key"
                       /\ call[c] \in {"verify", "fetching", "locked", "decode"} => mode = "oidc"
                       /\ call[c] \in {"asking", "reading"} => mode # "oidc"
                       /\ mode # "oidc" => ask[c].flaw # "key"

FlawsAreFound == \A c \in Calls : FlawsLeft(c)

\* The lock is held while a key set is read or looked into, and by one call.
LockIsHeld ==
  /\ \A c \in Calls : call[c] \in {"fetching", "locked"} <=> holder = c
  /\ fetch.read => holder # "none" /\ call[holder] = "fetching"

\* How long ago the provider may have withdrawn a key that is still known.
KeysAreRecent ==
  /\ fetch.read => \A k \in fetch.set : k \in standing \/ dropped[k] <= fetch.age
  /\ \A k \in cache.set : k \in standing \/ dropped[k] <= cache.age + HttpTimeout
  /\ \A c \in Calls : call[c] = "locked" => cache.age < JwksTtl
  /\ \A c \in Calls : call[c] = "decode" => Stands(ask[c].key)

\* The requests that hold a slot of a peer's, or have just been given one.
PeerRequests(p) == {d \in Calls : call[d] \in Holding \cup {"limits"} /\ ask[d].peer = p}

PeerBudgets ==
  mode = "proxy" =>
    \A p \in Peers : /\ IsFiniteSet(PeerRequests(p))
                     /\ Cardinality(PeerRequests(p)) <= PeerSlots

Charged ==
  /\ spent \in Seq(Charges)
  /\ mode = "proxy" => \A i \in 1..Len(spent) : ~spent[i].refused

\* What an introspection said of a token is no older than the exchange it is part of.
InquiryRecent(c) ==
  call[c] = "reading" /\ inquiry[c].active =>
      ask[c].key \in standing \/ dropped[ask[c].key] <= inquiry[c].age

Inquiries ==
  /\ inquiry \in [Calls -> [age : 0..HttpTimeout, active : BOOLEAN]]
  /\ \A c \in Calls : InquiryRecent(c)

AccessIInv == /\ AccessTypes /\ ClockTypes /\ FlawsAreFound /\ LockIsHeld /\ KeysAreRecent
              /\ AccessIsProven /\ PeerBudgets /\ Charged

-----------------------------------------------------------------------------

LEMMA AccessNumbers ==
  /\ JwksTtl \in Nat /\ JwksTtl > 0 /\ HttpTimeout \in Nat /\ HttpTimeout > 0
  /\ KidInterval \in Nat /\ PeerSlots \in Nat /\ RateWindow \in Nat /\ PeerSlots > 0
  /\ "none" \notin Calls
BY AccessConstants DEF ValidOidcConfig, ValidLimits

LEMMA AccessStarts == AccessInit => AccessIInv
<1>. SUFFICES ASSUME AccessInit PROVE AccessIInv
  OBVIOUS
<1>1. AccessTypes
  BY DEF AccessInit, AccessTypes, Places, NoAsk, Flaws
<1>2. ClockTypes
  <2>1. JwksTtl + HttpTimeout \in 0..JwksTtl + HttpTimeout /\ JwksTtl \in 0..JwksTtl
        /\ 0 \in 0..HttpTimeout /\ KidInterval \in Nat
    BY AccessNumbers
  <2>2. dropped \in [Keys -> 0..JwksTtl + HttpTimeout] /\ standing \subseteq Keys
    BY <2>1 DEF AccessInit
  <2>3. cache \in [set : SUBSET Keys, age : 0..JwksTtl, tried : Nat]
    BY <2>1 DEF AccessInit
  <2>4. fetch \in [age : 0..HttpTimeout, read : BOOLEAN, set : SUBSET Keys]
    BY <2>1 DEF AccessInit, NoFetch
  <2>. QED  BY <2>2, <2>3, <2>4 DEF ClockTypes
<1>3. FlawsAreFound
  BY DEF AccessInit, FlawsAreFound, FlawsLeft, NoAsk, Holding
<1>4. LockIsHeld
  BY AccessNumbers DEF AccessInit, LockIsHeld, NoFetch
<1>5. KeysAreRecent
  BY DEF AccessInit, KeysAreRecent, NoFetch
<1>6. AccessIsProven
  BY DEF AccessInit, AccessIsProven
<1>7. PeerBudgets
  <2>1. \A p \in Peers : PeerRequests(p) = {}
    BY DEF AccessInit, PeerRequests, Holding
  <2>2. IsFiniteSet({}) /\ Cardinality({}) = 0
    BY FS_EmptySet
  <2>. QED  BY <2>1, <2>2, AccessNumbers DEF PeerBudgets
<1>8. Charged
  BY EmptySeq DEF AccessInit, Charged
<1>. QED  BY <1>1, <1>2, <1>3, <1>4, <1>5, <1>6, <1>7, <1>8 DEF AccessIInv

\* A step that gives no request a slot of a peer's keeps the budgets.
LEMMA BudgetsShrink ==
  ASSUME PeerBudgets, UNCHANGED mode, \A p \in Peers : PeerRequests(p)' \subseteq PeerRequests(p)
  PROVE  PeerBudgets'
<1>. SUFFICES ASSUME mode = "proxy", NEW p \in Peers
              PROVE  IsFiniteSet(PeerRequests(p)') /\ Cardinality(PeerRequests(p)') <= PeerSlots
  BY DEF PeerBudgets
<1>1. IsFiniteSet(PeerRequests(p)) /\ Cardinality(PeerRequests(p)) <= PeerSlots
  BY DEF PeerBudgets
<1>2. PICK A, B : A = PeerRequests(p) /\ B = PeerRequests(p)'
  OBVIOUS
<1>3. B \subseteq A /\ IsFiniteSet(A) /\ Cardinality(A) <= PeerSlots
  BY <1>1, <1>2
<1>4. IsFiniteSet(B) /\ Cardinality(B) <= Cardinality(A)
  BY <1>3, FS_Subset
<1>5. Cardinality(A) \in Nat /\ Cardinality(B) \in Nat
  BY <1>3, <1>4, FS_CardinalityType
<1>. QED  BY <1>2, <1>3, <1>4, <1>5, AccessNumbers

\* One call moves on; the provider, the verifier and the windows stay.
OnlyCall(c) ==
  /\ call' \in [Calls -> Places] /\ \A d \in Calls \ {c} : call'[d] = call[d]
  /\ ask' \in [Calls -> [peer : Peers \cup {"none"}, key : Keys \cup {"none"}, flaw : Flaws]]
  /\ \A d \in Calls \ {c} : ask'[d] = ask[d]
  /\ proven' \in [Calls -> BOOLEAN] /\ \A d \in Calls \ {c} : proven'[d] = proven[d]
  /\ UNCHANGED <<mode, standing, dropped>>

LEMMA AnswerMoves ==
  ASSUME AccessIInv, NEW c \in Calls, Answer(c), proven' \in [Calls -> BOOLEAN],
         \A d \in Calls \ {c} : proven'[d] = proven[d], UNCHANGED <<mode, standing, dropped>>
  PROVE  OnlyCall(c) /\ call'[c] = "idle" /\ ask'[c] = NoAsk
BY DEF AccessIInv, AccessTypes, Answer, OnlyCall, Places, NoAsk, Flaws

LEMMA MoveMoves ==
  ASSUME AccessIInv, NEW c \in Calls, NEW place \in Places, MoveTo(c, place),
         UNCHANGED <<mode, standing, dropped, proven>>
  PROVE  OnlyCall(c) /\ call'[c] = place /\ ask'[c] = ask[c]
BY DEF AccessIInv, AccessTypes, MoveTo, OnlyCall

LEMMA EntersMoves ==
  ASSUME AccessIInv, NEW c \in Calls, NEW b \in BOOLEAN, Enters(c, b),
         UNCHANGED <<mode, standing, dropped>>
  PROVE  /\ OnlyCall(c) /\ call'[c] = "inside" /\ proven'[c] = b
         /\ ask'[c].peer = ask[c].peer /\ ask'[c].flaw = "none"
<1>1. [NoAsk EXCEPT !.peer = ask[c].peer] = [peer |-> ask[c].peer, key |-> "none", flaw |-> "none"]
  BY DEF NoAsk
<1>2. ask[c].peer \in Peers \cup {"none"}
  BY DEF AccessIInv, AccessTypes
<1>3. [peer |-> ask[c].peer, key |-> "none", flaw |-> "none"]
        \in [peer : Peers \cup {"none"}, key : Keys \cup {"none"}, flaw : Flaws]
  BY <1>2 DEF Flaws
<1>. QED
  BY <1>1, <1>3 DEF AccessIInv, AccessTypes, Enters, OnlyCall, Places

\* What a call's own step owes: its place has the flaws it should, the lock and
\* the keys agree with it, it is proven inside, and its peer is as before.
LEMMA CallStep ==
  ASSUME AccessIInv, NEW c \in Calls, OnlyCall(c), ClockTypes',
         FlawsLeft(c)', LockIsHeld', holder' \in Calls \cup {"none"},
         fetch'.read => \A k \in fetch'.set : k \in standing \/ dropped[k] <= fetch'.age,
         \A k \in cache'.set : k \in standing \/ dropped[k] <= cache'.age + HttpTimeout,
         \A d \in Calls : call'[d] = "locked" => cache'.age < JwksTtl,
         call'[c] = "decode" => Stands(ask'[c].key),
         call'[c] = "inside" => proven'[c], Charged', PeerBudgets'
  PROVE  AccessIInv'
<1>1. AccessTypes'
  BY DEF AccessTypes, OnlyCall
<1>2. FlawsAreFound'
  <2>. SUFFICES ASSUME NEW d \in Calls PROVE FlawsLeft(d)'
    BY DEF FlawsAreFound
  <2>1. CASE d = c
    BY <2>1
  <2>2. CASE d # c
    BY <2>2 DEF AccessIInv, FlawsAreFound, FlawsLeft, OnlyCall
  <2>. QED  BY <2>1, <2>2
<1>3. KeysAreRecent'
  <2>2. \A d \in Calls : (call[d] = "decode" => Stands(ask[d].key))'
    <3>. SUFFICES ASSUME NEW d \in Calls, call'[d] = "decode" PROVE Stands(ask[d].key)'
      OBVIOUS
    <3>1. Stands(ask'[d].key)
      BY DEF AccessIInv, KeysAreRecent, OnlyCall
    <3>. QED  BY <3>1 DEF Stands, Grace, OnlyCall
  <2>3. UNCHANGED <<standing, dropped>>
    BY DEF OnlyCall
  <2>. QED  BY <2>2, <2>3 DEF KeysAreRecent
<1>4. AccessIsProven'
  BY DEF AccessIInv, AccessIsProven, OnlyCall
<1>. QED  BY <1>1, <1>2, <1>3, <1>4 DEF AccessIInv

\* A call's step that the lock and the key sets are not part of.
LEMMA PlainStep ==
  ASSUME AccessIInv, NEW c \in Calls, OnlyCall(c), UNCHANGED keyCache,
         call[c] \notin {"fetching", "locked"}, call'[c] \notin {"fetching", "locked"},
         FlawsLeft(c)', call'[c] = "decode" => Stands(ask'[c].key),
         call'[c] = "inside" => proven'[c], Charged', PeerBudgets'
  PROVE  AccessIInv'
<1>1. ClockTypes' /\ holder' \in Calls \cup {"none"}
  BY DEF AccessIInv, AccessTypes, ClockTypes, OnlyCall, keyCache
<1>2. LockIsHeld'
  <2>1. holder # c /\ holder' = holder /\ fetch' = fetch
    BY DEF AccessIInv, LockIsHeld, keyCache
  <2>2. holder \in Calls => holder \in Calls \ {c}
    BY <2>1
  <2>. QED
    BY <2>1, <2>2 DEF AccessIInv, LockIsHeld, OnlyCall, AccessTypes
<1>3. \A d \in Calls : call'[d] = "locked" => cache'.age < JwksTtl
  BY DEF AccessIInv, KeysAreRecent, OnlyCall, keyCache
<1>4. /\ fetch'.read => \A k \in fetch'.set : k \in standing \/ dropped[k] <= fetch'.age
      /\ \A k \in cache'.set : k \in standing \/ dropped[k] <= cache'.age + HttpTimeout
  BY DEF AccessIInv, KeysAreRecent, keyCache
<1>. QED  BY <1>1, <1>2, <1>3, <1>4, CallStep

\* A request that is answered gives its slots back.
LEMMA AnswerShrinks ==
  ASSUME AccessIInv, NEW c \in Calls, OnlyCall(c), call'[c] \notin Holding \cup {"limits"}
  PROVE  PeerBudgets'
<1>1. \A p \in Peers : PeerRequests(p)' \subseteq PeerRequests(p)
  BY DEF PeerRequests, OnlyCall
<1>. QED  BY <1>1, BudgetsShrink DEF AccessIInv, OnlyCall

\* A request that has its slot keeps it.
LEMMA MoveShrinks ==
  ASSUME AccessIInv, NEW c \in Calls, OnlyCall(c), call[c] \in Holding \cup {"limits"},
         ask'[c].peer = ask[c].peer
  PROVE  PeerBudgets'
<1>1. \A p \in Peers : PeerRequests(p)' \subseteq PeerRequests(p)
  BY DEF PeerRequests, OnlyCall
<1>. QED  BY <1>1, BudgetsShrink DEF AccessIInv, OnlyCall

LEMMA ChargedStays == ASSUME Charged, UNCHANGED <<mode, spent>> PROVE Charged'
BY DEF Charged

-----------------------------------------------------------------------------

LEMMA ArriveKeeps ==
  ASSUME AccessIInv, NEW c \in Calls, Arrive(c)
  PROVE  AccessIInv'
<1>1. PICK r \in IF mode = "proxy" THEN ProxiedRequests ELSE Requests :
        /\ mode # "proxy" => r.flaw # "credential"
        /\ r.flaw = "key" => mode = "oidc"
        /\ ask' = [ask EXCEPT ![c] = r]
  BY DEF Arrive
<1>2. /\ call[c] = "idle" /\ call' = [call EXCEPT ![c] = FirstLayer]
      /\ UNCHANGED <<mode, standing, dropped, keyCache, spent, proven>>
  BY DEF Arrive, verifier, provider, budgets
<1>3. /\ r \in [peer : Peers \cup {"none"}, key : Keys \cup {"none"}, flaw : Flaws]
      /\ mode # "proxy" => r.key \in Keys
      /\ mode = "proxy" => r.flaw \in {"none", "credential", "envelope"}
  BY <1>1 DEF ProxiedRequests, Requests, Flaws
<1>4. OnlyCall(c) /\ call'[c] = FirstLayer /\ ask'[c] = r
  BY <1>1, <1>2, <1>3 DEF OnlyCall, AccessIInv, AccessTypes, FirstLayer, Places
<1>5. FlawsLeft(c)'
  BY <1>1, <1>2, <1>3, <1>4 DEF FlawsLeft, FirstLayer, Holding
<1>6. PeerBudgets'
  <2>1. CASE mode = "proxy"
    BY <1>4, <2>1, AnswerShrinks DEF FirstLayer, Holding
  <2>2. CASE mode # "proxy"
    BY <1>2, <2>2 DEF PeerBudgets
  <2>. QED  BY <2>1, <2>2
<1>7. Charged'
  BY <1>2, ChargedStays DEF AccessIInv
<1>. QED  BY <1>2, <1>4, <1>5, <1>6, <1>7, PlainStep DEF FirstLayer

\* A request whose answer is given: whatever it held is let go.
LEMMA AnsweredKeeps ==
  ASSUME AccessIInv, NEW c \in Calls, Answer(c), UNCHANGED <<mode, standing, dropped, keyCache>>,
         proven' \in [Calls -> BOOLEAN], \A d \in Calls \ {c} : proven'[d] = proven[d],
         call[c] \notin {"fetching", "locked"}, Charged'
  PROVE  AccessIInv'
<1>1. OnlyCall(c) /\ call'[c] = "idle" /\ ask'[c] = NoAsk
  BY AnswerMoves
<1>2. FlawsLeft(c)'
  BY <1>1 DEF FlawsLeft, Holding, NoAsk
<1>3. PeerBudgets'
  BY <1>1, AnswerShrinks DEF Holding
<1>. QED  BY <1>1, <1>2, <1>3, PlainStep

LEMMA ProvenTypes == ASSUME AccessIInv PROVE proven \in [Calls -> BOOLEAN]
BY DEF AccessIInv, AccessTypes

LEMMA PeerGateKeeps ==
  ASSUME AccessIInv, NEW c \in Calls, enforce_trusted_proxy_loopback(c)
  PROVE  AccessIInv'
<1>1. /\ call[c] = "peer" /\ UNCHANGED <<mode, standing, dropped, keyCache, spent, proven>>
      /\ mode = "proxy"
  BY DEF enforce_trusted_proxy_loopback, verifier, provider, AccessIInv, FlawsAreFound, FlawsLeft
<1>2. Charged'
  BY <1>1, ChargedStays DEF AccessIInv
<1>3. CASE Answer(c)
  BY <1>1, <1>2, <1>3, AnsweredKeeps, ProvenTypes
<1>4. CASE /\ MoveTo(c, "limits") /\ ask[c].flaw # "credential"
           /\ ~(PeerInFlight(ask[c].peer) >= PeerSlots)
  <2>1. OnlyCall(c) /\ call'[c] = "limits" /\ ask'[c] = ask[c]
    BY <1>1, <1>4, MoveMoves DEF Places
  <2>2. FlawsLeft(c)'
    BY <1>1, <1>4, <2>1 DEF FlawsLeft, Holding, AccessIInv, FlawsAreFound
  <2>3. PeerBudgets'
    <3>. SUFFICES ASSUME NEW p \in Peers
                  PROVE  IsFiniteSet(PeerRequests(p)') /\ Cardinality(PeerRequests(p)') <= PeerSlots
      BY DEF PeerBudgets
    <3>1. IsFiniteSet(PeerRequests(p)) /\ Cardinality(PeerRequests(p)) <= PeerSlots
      BY <1>1 DEF AccessIInv, PeerBudgets
    <3>2. PICK A, B : A = PeerRequests(p) /\ B = PeerRequests(p)'
      OBVIOUS
    <3>3. CASE p # ask[c].peer
      <4>1. B = A
        BY <2>1, <3>2, <3>3 DEF PeerRequests, OnlyCall
      <4>. QED  BY <3>1, <3>2, <4>1
    <3>4. CASE p = ask[c].peer
      <4>1. B = A \cup {c}
        BY <2>1, <3>2, <3>4 DEF PeerRequests, OnlyCall
      <4>2. c \notin A
        BY <1>1, <3>2 DEF PeerRequests, Holding
      <4>3. IsFiniteSet(B) /\ Cardinality(B) = Cardinality(A) + 1
        <5>1. IsFiniteSet(A)
          BY <3>1, <3>2
        <5>. QED  BY <4>1, <4>2, <5>1, FS_AddElement
      <4>4. Cardinality(A) \in Nat
        BY <3>1, <3>2, FS_CardinalityType
      <4>5. ~(Cardinality(A) >= PeerSlots)
        BY <1>4, <3>2, <3>4 DEF PeerInFlight, PeerRequests
      <4>. QED  BY <3>2, <4>3, <4>4, <4>5, AccessNumbers
    <3>. QED  BY <3>3, <3>4
  <2>. QED  BY <1>1, <1>2, <2>1, <2>2, <2>3, PlainStep
<1>. QED  BY <1>3, <1>4 DEF enforce_trusted_proxy_loopback

LEMMA LimitsKeeps ==
  ASSUME AccessIInv, NEW c \in Calls, enforce_http_limits(c)
  PROVE  AccessIInv'
<1>1. /\ call[c] = "limits" /\ UNCHANGED <<mode, standing, dropped, keyCache, proven>>
  BY DEF enforce_http_limits, verifier, provider
<1>2. Charged'
  <2>1. CASE UNCHANGED spent
    BY <1>1, <2>1, ChargedStays DEF AccessIInv
  <2>2. CASE spent' = Append(spent, [age |-> 0, refused |-> ask[c].flaw = "credential"])
    <3>1. PICK e \in Charges : /\ e = [age |-> 0, refused |-> ask[c].flaw = "credential"]
                               /\ mode = "proxy" => ~e.refused
      <4>1. mode = "proxy" => ask[c].flaw # "credential"
        BY <1>1 DEF AccessIInv, FlawsAreFound, FlawsLeft
      <4>2. PICK b \in BOOLEAN : b = (ask[c].flaw = "credential")
        OBVIOUS
      <4>3. [age |-> 0, refused |-> b] \in Charges /\ [age |-> 0, refused |-> b].refused = b
        BY DEF Charges
      <4>4. mode = "proxy" => ~b
        BY <4>1, <4>2
      <4>. QED  BY <4>2, <4>3, <4>4
    <3>2. spent' = Append(spent, e) /\ spent \in Seq(Charges)
      BY <2>2, <3>1 DEF AccessIInv, Charged
    <3>3. /\ spent' \in Seq(Charges) /\ Len(spent') = Len(spent) + 1 /\ Len(spent) \in Nat
          /\ \A i \in 1..Len(spent) : spent'[i] = spent[i]
          /\ spent'[Len(spent) + 1] = e
      BY <3>2
    <3>4. \A i \in 1..Len(spent') : i \in 1..Len(spent) \/ i = Len(spent) + 1
      BY <3>3
    <3>. QED  BY <1>1, <3>1, <3>3, <3>4 DEF AccessIInv, Charged
  <2>. QED  BY <2>1, <2>2 DEF enforce_http_limits
<1>3. CASE Answer(c)
  BY <1>1, <1>2, <1>3, AnsweredKeeps, ProvenTypes
<1>4. CASE MoveTo(c, "guard")
  <2>1. OnlyCall(c) /\ call'[c] = "guard" /\ ask'[c] = ask[c]
    BY <1>1, <1>4, MoveMoves DEF Places
  <2>2. FlawsLeft(c)'
    BY <1>1, <2>1 DEF FlawsLeft, Holding, AccessIInv, FlawsAreFound
  <2>3. PeerBudgets'
    BY <1>1, <2>1, MoveShrinks
  <2>. QED  BY <1>1, <1>2, <2>1, <2>2, <2>3, PlainStep
<1>. QED  BY <1>3, <1>4 DEF enforce_http_limits

LEMMA ProxyGuardKeeps ==
  ASSUME AccessIInv, NEW c \in Calls, trusted_proxy_guard(c)
  PROVE  AccessIInv'
<1>1. /\ call[c] = "guard" /\ mode = "proxy"
      /\ UNCHANGED <<mode, standing, dropped, keyCache, spent>>
  BY DEF trusted_proxy_guard, verifier, provider, budgets
<1>2. Charged'
  BY <1>1, ChargedStays DEF AccessIInv
<1>3. CASE Answer(c) /\ UNCHANGED proven
  BY <1>1, <1>2, <1>3, AnsweredKeeps, ProvenTypes
<1>4. CASE ask[c].flaw # "envelope" /\ Enters(c, ask[c].flaw = "none")
  <2>1. (ask[c].flaw = "none") = TRUE
    BY <1>1, <1>4 DEF AccessIInv, FlawsAreFound, FlawsLeft
  <2>2. /\ OnlyCall(c) /\ call'[c] = "inside" /\ proven'[c]
        /\ ask'[c].peer = ask[c].peer /\ ask'[c].flaw = "none"
    BY <1>1, <1>4, <2>1, EntersMoves
  <2>3. FlawsLeft(c)'
    BY <1>1, <2>2 DEF FlawsLeft, Holding
  <2>4. PeerBudgets'
    BY <1>1, <2>2, MoveShrinks DEF Holding
  <2>. QED  BY <1>1, <1>2, <2>2, <2>3, <2>4, PlainStep
<1>. QED  BY <1>3, <1>4 DEF trusted_proxy_guard

LEMMA ResourceGuardKeeps ==
  ASSUME AccessIInv, NEW c \in Calls, oauth_resource_guard(c)
  PROVE  AccessIInv'
<1>1. /\ call[c] = "guard" /\ mode # "proxy"
      /\ UNCHANGED <<mode, standing, dropped, keyCache, spent, proven>>
  BY DEF oauth_resource_guard, verifier, provider, budgets
<1>2. Charged'
  BY <1>1, ChargedStays DEF AccessIInv
<1>3. CASE Answer(c)
  BY <1>1, <1>2, <1>3, AnsweredKeeps, ProvenTypes
<1>4. ASSUME NEW place \in {"verify", "asking"}, ask[c].flaw # "envelope", MoveTo(c, place),
             place = "verify" <=> mode = "oidc"
      PROVE  AccessIInv'
  <2>1. OnlyCall(c) /\ call'[c] = place /\ ask'[c] = ask[c]
    BY <1>1, <1>4, MoveMoves DEF Places
  <2>2. FlawsLeft(c)'
    BY <1>1, <1>4, <2>1 DEF FlawsLeft, Holding, AccessIInv, FlawsAreFound
  <2>3. PeerBudgets'
    BY <1>1, <2>1, MoveShrinks DEF Holding
  <2>. QED  BY <1>1, <1>2, <2>1, <2>2, <2>3, PlainStep
<1>. QED  BY <1>3, <1>4 DEF oauth_resource_guard

-----------------------------------------------------------------------------
LEMMA LockKeeps ==
  ASSUME AccessIInv, NEW c \in Calls, LockCache(c)
  PROVE  AccessIInv'
<1>1. /\ call[c] = "verify" /\ holder = "none" /\ holder' = c /\ mode # "proxy"
      /\ UNCHANGED <<mode, standing, dropped, spent, proven>>
  BY DEF LockCache, provider, budgets, AccessIInv, FlawsAreFound, FlawsLeft
<1>2. Charged'
  BY <1>1, ChargedStays DEF AccessIInv
<1>3. PICK place \in {"fetching", "locked"} :
        /\ MoveTo(c, place)
        /\ place = "fetching" => /\ cache' = [cache EXCEPT !.tried = 0]
                                 /\ fetch' = [age |-> 0, read |-> FALSE, set |-> {}]
        /\ place = "locked" => UNCHANGED <<cache, fetch>> /\ CacheFresh
  BY DEF LockCache
<1>4. OnlyCall(c) /\ call'[c] = place /\ ask'[c] = ask[c]
  BY <1>1, <1>3, MoveMoves DEF Places
<1>5. FlawsLeft(c)'
  BY <1>1, <1>4 DEF FlawsLeft, Holding, AccessIInv, FlawsAreFound
<1>6. PeerBudgets'
  BY <1>1, <1>4, MoveShrinks DEF Holding
<1>7. /\ cache' \in [set : SUBSET Keys, age : 0..JwksTtl, tried : Nat]
      /\ cache'.set = cache.set /\ cache'.age = cache.age
  BY <1>3 DEF AccessIInv, ClockTypes
<1>8. /\ fetch' \in [age : 0..HttpTimeout, read : BOOLEAN, set : SUBSET Keys] /\ ~fetch'.read
  <2>1. ~fetch.read
    BY <1>1 DEF AccessIInv, LockIsHeld
  <2>2. 0 \in 0..HttpTimeout
    BY AccessNumbers
  <2>3. CASE place = "fetching"
    <3>1. fetch' = [age |-> 0, read |-> FALSE, set |-> {}]
      BY <1>3, <2>3
    <3>. QED  BY <2>2, <3>1
  <2>4. CASE place = "locked"
    BY <1>3, <2>1, <2>4 DEF AccessIInv, ClockTypes
  <2>. QED  BY <2>3, <2>4
<1>9. ClockTypes'
  BY <1>1, <1>7, <1>8 DEF AccessIInv, ClockTypes
<1>10. \A d \in Calls : call[d] \notin {"fetching", "locked"}
  BY <1>1, AccessNumbers DEF AccessIInv, LockIsHeld
<1>11. LockIsHeld'
  BY <1>1, <1>4, <1>8, <1>10 DEF LockIsHeld, OnlyCall
<1>12. \A d \in Calls : call'[d] = "locked" => cache'.age < JwksTtl
  BY <1>3, <1>4, <1>7, <1>10 DEF OnlyCall, CacheFresh
<1>13. \A k \in cache'.set : k \in standing \/ dropped[k] <= cache'.age + HttpTimeout
  BY <1>7 DEF AccessIInv, KeysAreRecent
<1>. QED
  BY <1>1, <1>2, <1>4, <1>5, <1>6, <1>8, <1>9, <1>11, <1>12, <1>13, CallStep

LEMMA FetchReadsKeeps == ASSUME AccessIInv, FetchReads PROVE AccessIInv'
<1>1. /\ holder # "none" /\ call[holder] = "fetching"
      /\ UNCHANGED <<mode, standing, dropped, cache, holder, call, ask, spent, proven>>
      /\ fetch' = [fetch EXCEPT !.read = TRUE, !.set = standing]
  BY DEF FetchReads, provider, budgets
<1>2. /\ fetch' \in [age : 0..HttpTimeout, read : BOOLEAN, set : SUBSET Keys]
      /\ fetch'.set = standing
  BY <1>1 DEF AccessIInv, ClockTypes
<1>3. AccessTypes' /\ ClockTypes'
  BY <1>1, <1>2 DEF AccessIInv, AccessTypes, ClockTypes
<1>4. FlawsAreFound' /\ LockIsHeld' /\ AccessIsProven'
  BY <1>1 DEF AccessIInv, FlawsAreFound, FlawsLeft, LockIsHeld, AccessIsProven
<1>5. KeysAreRecent'
  BY <1>1, <1>2 DEF AccessIInv, KeysAreRecent, Stands, Grace
<1>6. PeerBudgets' /\ Charged'
  BY <1>1 DEF AccessIInv, PeerBudgets, PeerRequests, Charged
<1>. QED  BY <1>3, <1>4, <1>5, <1>6 DEF AccessIInv

LEMMA RefreshKeeps ==
  ASSUME AccessIInv, NEW c \in Calls, refresh_locked(c)
  PROVE  AccessIInv'
<1>1. /\ call[c] = "fetching" /\ fetch.read /\ fetch' = NoFetch /\ MoveTo(c, "locked")
      /\ cache' = [cache EXCEPT !.set = fetch.set, !.age = 0]
      /\ UNCHANGED <<mode, standing, dropped, holder, spent, proven>> /\ mode # "proxy"
  BY DEF refresh_locked, provider, budgets, AccessIInv, FlawsAreFound, FlawsLeft
<1>2. Charged'
  BY <1>1, ChargedStays DEF AccessIInv
<1>3. OnlyCall(c) /\ call'[c] = "locked" /\ ask'[c] = ask[c]
  BY <1>1, MoveMoves DEF Places
<1>4. FlawsLeft(c)'
  BY <1>1, <1>3 DEF FlawsLeft, Holding, AccessIInv, FlawsAreFound
<1>5. PeerBudgets'
  BY <1>1, <1>3, MoveShrinks DEF Holding
<1>6. /\ cache' \in [set : SUBSET Keys, age : 0..JwksTtl, tried : Nat]
      /\ cache'.set = fetch.set /\ cache'.age = 0
  <2>1. 0 \in 0..JwksTtl
    BY AccessNumbers
  <2>. QED  BY <1>1, <2>1 DEF AccessIInv, ClockTypes
<1>7. fetch' \in [age : 0..HttpTimeout, read : BOOLEAN, set : SUBSET Keys] /\ ~fetch'.read
  <2>1. 0 \in 0..HttpTimeout
    BY AccessNumbers
  <2>. QED  BY <1>1, <2>1 DEF NoFetch
<1>8. ClockTypes'
  BY <1>1, <1>6, <1>7 DEF AccessIInv, ClockTypes
<1>9. LockIsHeld' /\ holder \in Calls \cup {"none"}
  BY <1>1, <1>3, <1>7 DEF AccessIInv, AccessTypes, LockIsHeld, OnlyCall
<1>10. \A k \in cache'.set : k \in standing \/ dropped[k] <= cache'.age + HttpTimeout
  <2>. SUFFICES ASSUME NEW k \in fetch.set, k \notin standing PROVE dropped[k] <= 0 + HttpTimeout
    BY <1>6
  <2>1. dropped[k] <= fetch.age /\ fetch.age \in 0..HttpTimeout /\ k \in Keys
        /\ dropped[k] \in 0..JwksTtl + HttpTimeout
    BY <1>1 DEF AccessIInv, KeysAreRecent, ClockTypes
  <2>. QED  BY <2>1, AccessNumbers
<1>11. cache'.age < JwksTtl
  BY <1>6, AccessNumbers
<1>. QED
  BY <1>1, <1>2, <1>3, <1>4, <1>5, <1>7, <1>8, <1>9, <1>10, <1>11, CallStep

\* The holder's request is answered and the lock let go.
LEMMA ReleasedKeeps ==
  ASSUME AccessIInv, NEW c \in Calls, holder = c, Answer(c), holder' = "none", fetch' = NoFetch,
         UNCHANGED <<mode, standing, dropped, cache, spent>>,
         proven' \in [Calls -> BOOLEAN], \A d \in Calls \ {c} : proven'[d] = proven[d]
  PROVE  AccessIInv'
<1>1. OnlyCall(c) /\ call'[c] = "idle" /\ ask'[c] = NoAsk
  BY AnswerMoves
<1>2. Charged'
  BY ChargedStays DEF AccessIInv
<1>3. FlawsLeft(c)'
  BY <1>1 DEF FlawsLeft, Holding, NoAsk
<1>4. PeerBudgets'
  BY <1>1, AnswerShrinks DEF Holding
<1>5. fetch' \in [age : 0..HttpTimeout, read : BOOLEAN, set : SUBSET Keys] /\ ~fetch'.read
  <2>1. 0 \in 0..HttpTimeout
    BY AccessNumbers
  <2>. QED  BY <2>1 DEF NoFetch
<1>6. ClockTypes'
  BY <1>5 DEF AccessIInv, ClockTypes
<1>7. LockIsHeld'
  BY <1>1, <1>5, AccessNumbers DEF AccessIInv, LockIsHeld, OnlyCall
<1>8. \A d \in Calls : call'[d] = "locked" => cache'.age < JwksTtl
  BY <1>1 DEF AccessIInv, KeysAreRecent, OnlyCall
<1>9. \A k \in cache'.set : k \in standing \/ dropped[k] <= cache'.age + HttpTimeout
  BY DEF AccessIInv, KeysAreRecent
<1>. QED  BY <1>1, <1>2, <1>3, <1>4, <1>5, <1>6, <1>7, <1>8, <1>9, CallStep

LEMMA FetchFailsKeeps ==
  ASSUME AccessIInv, NEW c \in Calls, FetchFails(c)
  PROVE  AccessIInv'
<1>1. holder = c
  BY DEF FetchFails, AccessIInv, LockIsHeld
<1>. QED  BY <1>1, ReleasedKeeps, ProvenTypes DEF FetchFails, provider, budgets

LEMMA DecodingKeeps ==
  ASSUME AccessIInv, NEW c \in Calls, decoding_key_for(c)
  PROVE  AccessIInv'
<1>1. /\ call[c] = "locked" /\ holder' = "none" /\ holder = c /\ mode # "proxy"
      /\ UNCHANGED <<mode, standing, dropped, cache, fetch, spent, proven>>
  BY DEF decoding_key_for, provider, budgets, AccessIInv, FlawsAreFound, FlawsLeft, LockIsHeld
<1>2. Charged'
  BY <1>1, ChargedStays DEF AccessIInv
<1>3. ~fetch'.read
  BY <1>1 DEF AccessIInv, LockIsHeld
<1>4. ClockTypes'
  BY <1>1 DEF AccessIInv, ClockTypes
<1>5. ASSUME OnlyCall(c), call'[c] \in {"idle", "decode"} PROVE LockIsHeld'
  BY <1>1, <1>3, <1>5, AccessNumbers DEF AccessIInv, LockIsHeld, OnlyCall
<1>6. ASSUME OnlyCall(c), call'[c] \in {"idle", "decode"}
      PROVE  \A d \in Calls : call'[d] = "locked" => cache'.age < JwksTtl
  BY <1>1, <1>6 DEF AccessIInv, KeysAreRecent, OnlyCall
<1>7. \A k \in cache'.set : k \in standing \/ dropped[k] <= cache'.age + HttpTimeout
  BY <1>1 DEF AccessIInv, KeysAreRecent
<1>8. CASE Answer(c)
  <2>1. OnlyCall(c) /\ call'[c] = "idle" /\ ask'[c] = NoAsk
    BY <1>1, <1>8, AnswerMoves, ProvenTypes
  <2>2. FlawsLeft(c)'
    BY <2>1 DEF FlawsLeft, Holding, NoAsk
  <2>3. PeerBudgets'
    BY <2>1, AnswerShrinks DEF Holding
  <2>. QED  BY <1>1, <1>2, <1>3, <1>4, <1>5, <1>6, <1>7, <2>1, <2>2, <2>3, CallStep
<1>9. CASE MoveTo(c, "decode") /\ ask[c].key \in cache.set /\ ask[c].flaw # "key"
  <2>1. OnlyCall(c) /\ call'[c] = "decode" /\ ask'[c] = ask[c]
    BY <1>1, <1>9, MoveMoves DEF Places
  <2>2. FlawsLeft(c)'
    BY <1>1, <1>9, <2>1 DEF FlawsLeft, Holding, AccessIInv, FlawsAreFound
  <2>3. PeerBudgets'
    BY <1>1, <2>1, MoveShrinks DEF Holding
  <2>4. Stands(ask[c].key)
    <3>. SUFFICES ASSUME ask[c].key \notin standing
                  PROVE  dropped[ask[c].key] < JwksTtl + HttpTimeout
      BY <1>1 DEF Stands, Grace, AccessIInv, FlawsAreFound, FlawsLeft
    <3>1. /\ cache.age \in 0..JwksTtl /\ cache.age < JwksTtl
          /\ dropped[ask[c].key] <= cache.age + HttpTimeout
          /\ dropped[ask[c].key] \in 0..JwksTtl + HttpTimeout
      BY <1>1, <1>9 DEF AccessIInv, KeysAreRecent, ClockTypes
    <3>. QED  BY <3>1, AccessNumbers
  <2>. QED  BY <1>1, <1>2, <1>3, <1>4, <1>5, <1>6, <1>7, <2>1, <2>2, <2>3, <2>4, CallStep
<1>. QED  BY <1>8, <1>9 DEF decoding_key_for

LEMMA VerifyKeeps ==
  ASSUME AccessIInv, NEW c \in Calls, VerifyToken(c)
  PROVE  AccessIInv'
<1>1. /\ call[c] = "decode" /\ mode # "proxy"
      /\ UNCHANGED <<mode, standing, dropped, keyCache, spent>>
  BY DEF VerifyToken, verifier, provider, budgets, AccessIInv, FlawsAreFound, FlawsLeft
<1>2. Charged'
  BY <1>1, ChargedStays DEF AccessIInv
<1>3. CASE Answer(c) /\ UNCHANGED proven
  BY <1>1, <1>2, <1>3, AnsweredKeeps, ProvenTypes
<1>4. CASE ask[c].flaw # "claims" /\ Enters(c, ask[c].flaw = "none" /\ Stands(ask[c].key))
  <2>1. ask[c].flaw = "none"
    BY <1>1, <1>4
    DEF AccessIInv, FlawsAreFound, FlawsLeft, Holding, AccessTypes, Flaws
  <2>2. Stands(ask[c].key)
    BY <1>1 DEF AccessIInv, KeysAreRecent
  <2>3. (ask[c].flaw = "none" /\ Stands(ask[c].key)) = TRUE
    BY <2>1, <2>2
  <2>4. Enters(c, TRUE)
    BY <1>4, <2>3
  <2>5. /\ OnlyCall(c) /\ call'[c] = "inside" /\ proven'[c]
        /\ ask'[c].peer = ask[c].peer /\ ask'[c].flaw = "none"
    BY <1>1, <2>4, EntersMoves
  <2>6. FlawsLeft(c)'
    BY <1>1, <2>5 DEF FlawsLeft, Holding
  <2>7. PeerBudgets'
    BY <1>1, <2>5, MoveShrinks DEF Holding
  <2>. QED  BY <1>1, <1>2, <2>5, <2>6, <2>7, PlainStep
<1>. QED  BY <1>3, <1>4 DEF VerifyToken

LEMMA IntrospectsKeeps ==
  ASSUME AccessIInv, NEW c \in Calls, ProviderIntrospects(c)
  PROVE  AccessIInv'
<1>1. /\ call[c] = "asking" /\ MoveTo(c, "reading") /\ mode # "proxy"
      /\ UNCHANGED <<mode, standing, dropped, keyCache, spent, proven>>
  BY DEF ProviderIntrospects, provider, budgets, AccessIInv, FlawsAreFound, FlawsLeft
<1>2. Charged'
  BY <1>1, ChargedStays DEF AccessIInv
<1>3. OnlyCall(c) /\ call'[c] = "reading" /\ ask'[c] = ask[c]
  BY <1>1, MoveMoves DEF Places
<1>4. FlawsLeft(c)'
  BY <1>1, <1>3 DEF FlawsLeft, Holding, AccessIInv, FlawsAreFound
<1>5. PeerBudgets'
  BY <1>1, <1>3, MoveShrinks DEF Holding
<1>. QED  BY <1>1, <1>2, <1>3, <1>4, <1>5, PlainStep

LEMMA IntrospectionKeeps ==
  ASSUME AccessIInv, Inquiries, NEW c \in Calls, IntrospectionAnswers(c)
  PROVE  AccessIInv'
<1>1. /\ call[c] \in {"asking", "reading"} /\ mode # "proxy" /\ mode # "oidc"
      /\ UNCHANGED <<mode, standing, dropped, keyCache, spent>>
  BY DEF IntrospectionAnswers, provider, budgets, AccessIInv, FlawsAreFound, FlawsLeft
<1>2. Charged'
  BY <1>1, ChargedStays DEF AccessIInv
<1>3. CASE Answer(c) /\ UNCHANGED proven
  BY <1>1, <1>2, <1>3, AnsweredKeeps, ProvenTypes
<1>4. CASE /\ call[c] = "reading" /\ inquiry[c].active /\ ask[c].flaw # "claims"
           /\ Enters(c, ask[c].flaw = "none" /\ Stands(ask[c].key))
  <2>1. ask[c].flaw = "none" /\ ask[c].key \in Keys
    BY <1>1, <1>4 DEF AccessIInv, FlawsAreFound, FlawsLeft, Holding, AccessTypes, Flaws
  <2>2. Stands(ask[c].key)
    <3>1. ask[c].key \in standing \/ dropped[ask[c].key] <= inquiry[c].age
      BY <1>4 DEF Inquiries, InquiryRecent
    <3>2. inquiry[c].age \in 0..HttpTimeout /\ dropped[ask[c].key] \in 0..JwksTtl + HttpTimeout
      BY <2>1 DEF Inquiries, AccessIInv, ClockTypes
    <3>. QED  BY <1>1, <3>1, <3>2, AccessNumbers DEF Stands, Grace
  <2>3. (ask[c].flaw = "none" /\ Stands(ask[c].key)) = TRUE
    BY <2>1, <2>2
  <2>4. Enters(c, TRUE)
    BY <1>4, <2>3
  <2>5. /\ OnlyCall(c) /\ call'[c] = "inside" /\ proven'[c]
        /\ ask'[c].peer = ask[c].peer /\ ask'[c].flaw = "none"
    BY <1>1, <2>4, EntersMoves
  <2>6. FlawsLeft(c)'
    BY <1>1, <2>5 DEF FlawsLeft, Holding
  <2>7. PeerBudgets'
    BY <1>1, <2>5, MoveShrinks DEF Holding
  <2>. QED  BY <1>1, <1>2, <2>5, <2>6, <2>7, PlainStep
<1>. QED  BY <1>3, <1>4 DEF IntrospectionAnswers

LEMMA LeaveKeeps ==
  ASSUME AccessIInv, NEW c \in Calls, Leave(c)
  PROVE  AccessIInv'
<1>1. /\ call[c] = "inside" /\ Answer(c)
      /\ UNCHANGED <<mode, standing, dropped, keyCache, spent>>
  BY DEF Leave, verifier, provider, budgets
<1>2. proven' \in [Calls -> BOOLEAN] /\ \A d \in Calls \ {c} : proven'[d] = proven[d]
  BY ProvenTypes DEF Leave
<1>3. Charged'
  BY <1>1, ChargedStays DEF AccessIInv
<1>. QED  BY <1>1, <1>2, <1>3, AnsweredKeeps

LEMMA DisconnectKeeps ==
  ASSUME AccessIInv, NEW c \in Calls, Disconnect(c)
  PROVE  AccessIInv'
<1>1. /\ call[c] \in {"verify", "fetching", "asking", "reading", "inside"} /\ Answer(c)
      /\ UNCHANGED <<mode, standing, dropped, cache, spent>>
  BY DEF Disconnect, provider, budgets
<1>2. proven' \in [Calls -> BOOLEAN] /\ \A d \in Calls \ {c} : proven'[d] = proven[d]
  BY ProvenTypes DEF Disconnect
<1>3. CASE holder = c
  BY <1>1, <1>2, <1>3, ReleasedKeeps DEF Disconnect
<1>4. CASE holder # c
  <2>1. UNCHANGED keyCache
    BY <1>1, <1>4 DEF Disconnect, keyCache
  <2>2. call[c] \notin {"fetching", "locked"}
    BY <1>4 DEF AccessIInv, LockIsHeld
  <2>3. Charged'
    BY <1>1, ChargedStays DEF AccessIInv
  <2>. QED  BY <1>1, <1>2, <2>1, <2>2, <2>3, AnsweredKeeps
<1>. QED  BY <1>3, <1>4

LEMMA RotateKeeps ==
  ASSUME AccessIInv, NEW k \in Keys, Rotate(k)
  PROVE  AccessIInv'
<1>1. UNCHANGED <<mode, cache, holder, fetch, call, ask, spent, proven>>
  BY DEF Rotate, verifier, keyCache, budgets
<1>2. /\ standing' \subseteq Keys /\ dropped' \in [Keys -> 0..JwksTtl + HttpTimeout]
      /\ \A j \in Keys \ {k} : dropped'[j] = dropped[j] /\ (j \in standing <=> j \in standing')
      /\ k \in standing' \/ dropped'[k] = 0
  <2>1. 0 \in 0..JwksTtl + HttpTimeout
    BY AccessNumbers
  <2>. QED  BY <2>1 DEF Rotate, AccessIInv, ClockTypes
<1>3. AccessTypes' /\ ClockTypes'
  BY <1>1, <1>2 DEF AccessIInv, AccessTypes, ClockTypes
<1>4. FlawsAreFound' /\ LockIsHeld' /\ AccessIsProven'
  BY <1>1 DEF AccessIInv, FlawsAreFound, FlawsLeft, LockIsHeld, AccessIsProven
<1>5. KeysAreRecent'
  <2>1. fetch.age \in Nat /\ cache.age \in Nat /\ fetch.set \subseteq Keys /\ cache.set \subseteq Keys
        /\ fetch.age >= 0 /\ cache.age + HttpTimeout >= 0 /\ 0 < JwksTtl + HttpTimeout
    BY AccessNumbers DEF AccessIInv, ClockTypes
  <2>2. fetch.read => \A j \in fetch.set : j \in standing' \/ dropped'[j] <= fetch.age
    BY <1>2, <2>1 DEF AccessIInv, KeysAreRecent
  <2>3. \A j \in cache.set : j \in standing' \/ dropped'[j] <= cache.age + HttpTimeout
    BY <1>2, <2>1 DEF AccessIInv, KeysAreRecent
  <2>4. \A c \in Calls : call[c] = "decode" =>
          ask[c].key \in standing' \/ dropped'[ask[c].key] < JwksTtl + HttpTimeout
    <3>. SUFFICES ASSUME NEW c \in Calls, call[c] = "decode"
                  PROVE  ask[c].key \in standing' \/ dropped'[ask[c].key] < JwksTtl + HttpTimeout
      OBVIOUS
    <3>1. ask[c].key \in Keys /\ Stands(ask[c].key)
      BY DEF AccessIInv, KeysAreRecent, FlawsAreFound, FlawsLeft, Holding
    <3>2. mode = "oidc"
      BY DEF AccessIInv, FlawsAreFound, FlawsLeft
    <3>. QED  BY <1>2, <2>1, <3>1, <3>2 DEF Stands, Grace
  <2>5. \A c \in Calls : call[c] = "decode" => mode = "oidc"
    BY DEF AccessIInv, FlawsAreFound, FlawsLeft
  <2>. QED  BY <1>1, <2>2, <2>3, <2>4, <2>5 DEF AccessIInv, KeysAreRecent, Stands, Grace
<1>6. PeerBudgets' /\ Charged'
  BY <1>1 DEF AccessIInv, PeerBudgets, PeerRequests, Charged
<1>. QED  BY <1>3, <1>4, <1>5, <1>6 DEF AccessIInv

LEMMA TickKeeps == ASSUME AccessIInv, Tick PROVE AccessIInv'
<1>1. /\ \A c \in Calls : call[c] \notin {"locked", "decode"}
      /\ holder # "none" => fetch.age < HttpTimeout
      /\ UNCHANGED <<mode, standing, holder, call, ask, proven>>
  BY DEF Tick
<1>2. /\ dropped' \in [Keys -> 0..JwksTtl + HttpTimeout]
      /\ \A k \in Keys : dropped'[k] <= dropped[k] + 1
  <2>1. dropped' = [k \in Keys |-> Older(dropped[k], JwksTtl + HttpTimeout)]
    BY DEF Tick
  <2>2. \A k \in Keys : dropped[k] \in 0..JwksTtl + HttpTimeout
    BY DEF AccessIInv, ClockTypes
  <2>3. \A n \in 0..JwksTtl + HttpTimeout :
          /\ Older(n, JwksTtl + HttpTimeout) \in 0..JwksTtl + HttpTimeout
          /\ Older(n, JwksTtl + HttpTimeout) <= n + 1
    BY AccessNumbers DEF Older
  <2>. QED  BY <2>1, <2>2, <2>3
<1>3. /\ cache' \in [set : SUBSET Keys, age : 0..JwksTtl, tried : Nat] /\ cache'.set = cache.set
      /\ cache'.age = cache.age + 1 \/ cache'.age = JwksTtl
  <2>1. PICK a, b : a = Older(cache.age, JwksTtl) /\ b = Older(cache.tried, KidInterval)
    OBVIOUS
  <2>2. a \in 0..JwksTtl /\ b \in Nat /\ (a = cache.age + 1 \/ a = JwksTtl)
    BY <2>1, AccessNumbers DEF AccessIInv, ClockTypes, Older
  <2>3. cache' = [cache EXCEPT !.age = a, !.tried = b]
    BY <2>1 DEF Tick
  <2>. QED  BY <2>2, <2>3 DEF AccessIInv, ClockTypes
<1>4. /\ fetch' \in [age : 0..HttpTimeout, read : BOOLEAN, set : SUBSET Keys]
      /\ fetch'.read = fetch.read /\ fetch'.set = fetch.set
      /\ holder # "none" => fetch'.age = fetch.age + 1
  <2>1. PICK a : a = IF holder = "none" THEN 0 ELSE fetch.age + 1
    OBVIOUS
  <2>2. a \in 0..HttpTimeout
    BY <1>1, <2>1, AccessNumbers DEF AccessIInv, ClockTypes
  <2>3. fetch' = [fetch EXCEPT !.age = a]
    BY <2>1 DEF Tick
  <2>. QED  BY <2>1, <2>2, <2>3 DEF AccessIInv, ClockTypes
<1>5. AccessTypes' /\ ClockTypes'
  BY <1>1, <1>2, <1>3, <1>4 DEF AccessIInv, AccessTypes, ClockTypes
<1>6. FlawsAreFound' /\ LockIsHeld' /\ AccessIsProven' /\ PeerBudgets'
  BY <1>1, <1>4 DEF AccessIInv, FlawsAreFound, FlawsLeft, LockIsHeld, AccessIsProven,
                    PeerBudgets, PeerRequests
<1>7. KeysAreRecent'
  <2>1. /\ fetch.age \in 0..HttpTimeout /\ fetch.set \subseteq Keys
        /\ cache.age \in 0..JwksTtl /\ cache.set \subseteq Keys
        /\ \A k \in Keys : dropped[k] \in 0..JwksTtl + HttpTimeout
        /\ \A k \in Keys : dropped'[k] \in 0..JwksTtl + HttpTimeout
    BY <1>2 DEF AccessIInv, ClockTypes
  <2>2. ASSUME fetch.read, NEW k \in fetch.set, k \notin standing
        PROVE  dropped'[k] <= fetch'.age
    <3>1. k \in Keys /\ dropped[k] <= fetch.age /\ fetch'.age = fetch.age + 1
      BY <1>4, <2>1, <2>2 DEF AccessIInv, KeysAreRecent, LockIsHeld
    <3>. QED  BY <1>2, <2>1, <3>1
  <2>3. ASSUME NEW k \in cache.set, k \notin standing
        PROVE  dropped'[k] <= cache'.age + HttpTimeout
    <3>1. k \in Keys /\ dropped[k] <= cache.age + HttpTimeout
      BY <2>1, <2>3 DEF AccessIInv, KeysAreRecent
    <3>2. dropped'[k] <= dropped[k] + 1 /\ dropped'[k] \in 0..JwksTtl + HttpTimeout
          /\ dropped[k] \in 0..JwksTtl + HttpTimeout
      BY <1>2, <2>1, <3>1
    <3>. QED  BY <1>3, <2>1, <3>1, <3>2, AccessNumbers
  <2>. QED  BY <1>1, <1>3, <1>4, <2>2, <2>3 DEF AccessIInv, KeysAreRecent
<1>8. Charged'
  <2>. DEFINE lapsed == {i \in 1..Len(spent) : spent[i].age + 1 >= RateWindow}
  <2>1. spent \in Seq(Charges) /\ Len(spent) \in Nat
        /\ \A i \in 1..Len(spent) : spent[i] \in Charges
    BY LenProperties, ElementOfSeq DEF AccessIInv, Charged
  <2>2. IsFiniteSet(lapsed) /\ Cardinality(lapsed) \in 0..Len(spent)
    <3>1. IsFiniteSet(1..Len(spent)) /\ Cardinality(1..Len(spent)) = Len(spent)
      <4>1. PICK k \in Nat : k = Len(spent)
        BY <2>1
      <4>2. 1 \in Int /\ k \in Int
        OBVIOUS
      <4>3. IsFiniteSet(1..k) /\ Cardinality(1..k) = IF 1 > k THEN 0 ELSE k - 1 + 1
        BY <4>2, FS_Interval, Zenon
      <4>4. k = IF 1 > k THEN 0 ELSE k - 1 + 1
        OBVIOUS
      <4>. QED  BY <4>1, <4>3, <4>4, Zenon
    <3>2. IsFiniteSet(lapsed) /\ Cardinality(lapsed) <= Len(spent)
      BY <3>1, FS_Subset
    <3>. QED  BY <2>1, <3>2, FS_CardinalityType
  <2>3. PICK n \in Nat, m \in Nat : n = Cardinality(lapsed) /\ m = Len(spent) - n
    <3>. HIDE DEF lapsed
    <3>. QED  BY <2>1, <2>2
  <2>4. spent' = [i \in 1..m |-> [age |-> spent[n + i].age + 1, refused |-> spent[n + i].refused]]
    BY <2>3 DEF Tick
  <2>5. \A i \in 1..m : n + i \in 1..Len(spent)
    BY <2>1, <2>3
  <2>6. \A i \in 1..m :
          /\ [age |-> spent[n + i].age + 1, refused |-> spent[n + i].refused] \in Charges
          /\ spent'[i].refused = spent[n + i].refused
    <3>1. TAKE i \in 1..m
    <3>2. spent[n + i] \in Charges
      BY <2>1, <2>5
    <3>3. [age |-> spent[n + i].age + 1, refused |-> spent[n + i].refused] \in Charges
      BY <3>2 DEF Charges
    <3>4. spent'[i].refused = spent[n + i].refused
      BY <2>4
    <3>. QED  BY <3>3, <3>4
  <2>7. spent' \in [1..m -> Charges]
    BY <2>4, <2>6
  <2>8. spent' \in Seq(Charges) /\ Len(spent') = m
    BY <2>7, SeqDef, LenProperties
  <2>. QED  BY <1>1, <2>5, <2>6, <2>8 DEF AccessIInv, Charged
<1>. QED  BY <1>5, <1>6, <1>7, <1>8 DEF AccessIInv

-----------------------------------------------------------------------------
\* A step that leaves the provider alone and no call newly reading.
LEMMA InquiriesStay ==
  ASSUME Inquiries, UNCHANGED <<standing, dropped>>,
         inquiry' \in [Calls -> [age : 0..HttpTimeout, active : BOOLEAN]],
         \A d \in Calls : call'[d] = "reading" =>
            call[d] = "reading" /\ ask'[d] = ask[d] /\ inquiry'[d] = inquiry[d]
  PROVE  Inquiries'
BY DEF Inquiries, InquiryRecent

\* What one call's step does to the others' places and requests.
LEMMA OthersStay ==
  ASSUME AccessIInv, NEW c \in Calls,
         Answer(c) \/ (\E place \in Places \ {"reading"} : MoveTo(c, place)) \/ (\E b : Enters(c, b))
  PROVE  \A d \in Calls : call'[d] = "reading" => call[d] = "reading" /\ ask'[d] = ask[d]
BY DEF AccessIInv, AccessTypes, Answer, MoveTo, Enters

LEMMA ReplyTypes ==
  NoInquiry \in [age : 0..HttpTimeout, active : BOOLEAN]
BY AccessNumbers DEF NoInquiry

LEMMA InquiriesKeep == ASSUME AccessIInv, Inquiries, AccessNext PROVE Inquiries'
<1>1. ASSUME UNCHANGED <<standing, dropped, inquiry>>,
             \A d \in Calls : call'[d] = "reading" => call[d] = "reading" /\ ask'[d] = ask[d]
      PROVE  Inquiries'
  BY <1>1, InquiriesStay DEF Inquiries
<1>2. ASSUME NEW c \in Calls, Arrive(c) PROVE Inquiries'
  BY <1>1, <1>2 DEF Arrive, provider, verifier, AccessIInv, AccessTypes, FirstLayer
<1>3. ASSUME NEW c \in Calls, enforce_trusted_proxy_loopback(c) PROVE Inquiries'
  BY <1>1, <1>3, OthersStay DEF enforce_trusted_proxy_loopback, provider, verifier, Places
<1>4. ASSUME NEW c \in Calls, enforce_http_limits(c) PROVE Inquiries'
  BY <1>1, <1>4, OthersStay DEF enforce_http_limits, provider, verifier, Places
<1>5. ASSUME NEW c \in Calls, trusted_proxy_guard(c) PROVE Inquiries'
  BY <1>1, <1>5, OthersStay DEF trusted_proxy_guard, provider, verifier
<1>6. ASSUME NEW c \in Calls, oauth_resource_guard(c) PROVE Inquiries'
  BY <1>1, <1>6, OthersStay DEF oauth_resource_guard, provider, verifier, Places
<1>7. ASSUME NEW c \in Calls, LockCache(c) PROVE Inquiries'
  BY <1>1, <1>7, OthersStay DEF LockCache, provider, Places
<1>8. ASSUME NEW c \in Calls, refresh_locked(c) PROVE Inquiries'
  BY <1>1, <1>8, OthersStay DEF refresh_locked, provider, Places
<1>9. ASSUME NEW c \in Calls, FetchFails(c) PROVE Inquiries'
  BY <1>1, <1>9, OthersStay DEF FetchFails, provider
<1>10. ASSUME NEW c \in Calls, decoding_key_for(c) PROVE Inquiries'
  BY <1>1, <1>10, OthersStay DEF decoding_key_for, provider, Places
<1>11. ASSUME NEW c \in Calls, VerifyToken(c) PROVE Inquiries'
  BY <1>1, <1>11, OthersStay DEF VerifyToken, provider, verifier
<1>12. ASSUME NEW c \in Calls, ProviderIntrospects(c) PROVE Inquiries'
  <2>1. UNCHANGED <<standing, dropped, ask>> /\ call' = [call EXCEPT ![c] = "reading"]
    BY <1>12 DEF ProviderIntrospects, provider, MoveTo
  <2>2. PICK b \in BOOLEAN : b = (ask[c].key \in standing)
    <3>1. (ask[c].key \in standing) = TRUE \/ (ask[c].key \in standing) = FALSE
      OBVIOUS
    <3>. QED  BY <3>1, Zenon
  <2>3. inquiry' = [inquiry EXCEPT ![c].active = b]
    BY <1>12, <2>2 DEF ProviderIntrospects
  <2>4. /\ inquiry' \in [Calls -> [age : 0..HttpTimeout, active : BOOLEAN]]
        /\ inquiry'[c].active = b /\ \A d \in Calls \ {c} : inquiry'[d] = inquiry[d]
    BY <2>3 DEF Inquiries
  <2>. QED  BY <2>1, <2>2, <2>4 DEF Inquiries, InquiryRecent, AccessIInv, AccessTypes
<1>13. ASSUME NEW c \in Calls, inquiry' = [inquiry EXCEPT ![c] = NoInquiry],
              UNCHANGED <<standing, dropped>>, call'[c] # "reading",
              \A d \in Calls : call'[d] = "reading" => call[d] = "reading" /\ ask'[d] = ask[d]
       PROVE  Inquiries'
  <2>1. /\ inquiry' \in [Calls -> [age : 0..HttpTimeout, active : BOOLEAN]]
        /\ \A d \in Calls \ {c} : inquiry'[d] = inquiry[d]
    BY <1>13, ReplyTypes DEF Inquiries
  <2>. QED  BY <1>13, <2>1, InquiriesStay
<1>14. ASSUME NEW c \in Calls, IntrospectionAnswers(c) PROVE Inquiries'
  <2>1. Answer(c) \/ \E b : Enters(c, b)
    BY <1>14 DEF IntrospectionAnswers
  <2>2. call'[c] # "reading"
    BY <2>1 DEF Answer, Enters, AccessIInv, AccessTypes
  <2>. QED  BY <1>13, <1>14, <2>1, <2>2, OthersStay DEF IntrospectionAnswers, provider
<1>15. ASSUME NEW c \in Calls, Leave(c) PROVE Inquiries'
  BY <1>1, <1>15, OthersStay DEF Leave, provider, verifier
<1>16. ASSUME NEW c \in Calls, Disconnect(c) PROVE Inquiries'
  <2>1. Answer(c) /\ call'[c] # "reading"
    BY <1>16 DEF Disconnect, Answer, AccessIInv, AccessTypes
  <2>. QED  BY <1>13, <1>16, <2>1, OthersStay DEF Disconnect, provider
<1>17. CASE FetchReads
  BY <1>1, <1>17 DEF FetchReads, provider
<1>18. CASE Tick
  <2>1. /\ UNCHANGED <<standing, call, ask>>
        /\ \A c \in Calls : Exchanging(c) => inquiry[c].age < HttpTimeout
        /\ inquiry' = [c \in Calls |->
             IF Exchanging(c) THEN [inquiry[c] EXCEPT !.age = @ + 1] ELSE inquiry[c]]
    BY <1>18 DEF Tick
  <2>2. \A k \in Keys : dropped'[k] <= dropped[k] + 1 /\ dropped[k] \in Nat /\ dropped'[k] \in Nat
    <3>1. dropped' = [k \in Keys |-> Older(dropped[k], JwksTtl + HttpTimeout)]
      BY <1>18 DEF Tick
    <3>. QED  BY <3>1, AccessNumbers DEF Older, AccessIInv, ClockTypes
  <2>3. ASSUME NEW c \in Calls
        PROVE  /\ inquiry'[c] \in [age : 0..HttpTimeout, active : BOOLEAN]
               /\ Exchanging(c) => /\ inquiry'[c].age = inquiry[c].age + 1
                                   /\ inquiry'[c].active = inquiry[c].active
    <3>1. inquiry[c] \in [age : 0..HttpTimeout, active : BOOLEAN]
      BY DEF Inquiries
    <3>2. CASE Exchanging(c)
      <4>1. inquiry'[c] = [inquiry[c] EXCEPT !.age = inquiry[c].age + 1]
        BY <2>1, <3>2
      <4>2. inquiry[c].age + 1 \in 0..HttpTimeout
        BY <2>1, <3>1, <3>2, AccessNumbers
      <4>. QED  BY <3>1, <4>1, <4>2
    <3>3. CASE ~Exchanging(c)
      BY <2>1, <3>1, <3>3
    <3>. QED  BY <3>2, <3>3
  <2>4. inquiry' \in [Calls -> [age : 0..HttpTimeout, active : BOOLEAN]]
    BY <2>1, <2>3
  <2>5. ASSUME NEW c \in Calls PROVE InquiryRecent(c)'
    <3>. SUFFICES ASSUME call[c] = "reading", inquiry'[c].active, ask[c].key \notin standing
                  PROVE  dropped'[ask[c].key] <= inquiry'[c].age
      BY <2>1 DEF InquiryRecent
    <3>1. Exchanging(c) /\ ask[c].key \in Keys
      BY DEF Exchanging, AccessIInv, FlawsAreFound, FlawsLeft, Holding
    <3>2. dropped[ask[c].key] <= inquiry[c].age /\ inquiry[c].age \in 0..HttpTimeout
      BY <2>3, <3>1 DEF Inquiries, InquiryRecent
    <3>. QED  BY <2>2, <2>3, <3>1, <3>2, AccessNumbers
  <2>. QED  BY <2>4, <2>5 DEF Inquiries
<1>19. ASSUME NEW k \in Keys, Rotate(k) PROVE Inquiries'
  <2>1. UNCHANGED <<inquiry, call, ask>>
    BY <1>19 DEF Rotate, verifier
  <2>2. /\ \A j \in Keys \ {k} : dropped'[j] = dropped[j] /\ (j \in standing <=> j \in standing')
        /\ k \in standing' \/ dropped'[k] = 0
    BY <1>19 DEF Rotate, AccessIInv, ClockTypes
  <2>3. ASSUME NEW c \in Calls PROVE InquiryRecent(c)'
    <3>. SUFFICES ASSUME call[c] = "reading", inquiry[c].active
                  PROVE  ask[c].key \in standing' \/ dropped'[ask[c].key] <= inquiry[c].age
      BY <2>1 DEF InquiryRecent
    <3>1. ask[c].key \in Keys
      BY DEF AccessIInv, FlawsAreFound, FlawsLeft, Holding
    <3>2. inquiry[c].age \in 0..HttpTimeout
          /\ (ask[c].key \in standing \/ dropped[ask[c].key] <= inquiry[c].age)
      BY DEF Inquiries, InquiryRecent
    <3>. QED  BY <2>2, <3>1, <3>2, AccessNumbers
  <2>. QED  BY <2>1, <2>3 DEF Inquiries
<1>. QED
  BY <1>2, <1>3, <1>4, <1>5, <1>6, <1>7, <1>8, <1>9, <1>10, <1>11, <1>12, <1>14, <1>15,
     <1>16, <1>17, <1>18, <1>19 DEF AccessNext

LEMMA AccessInvariant == AccessSpec => [](AccessIInv /\ Inquiries)
<1>1. AccessIInv /\ Inquiries /\ [AccessNext]_accessVars => (AccessIInv /\ Inquiries)'
  <2>. SUFFICES ASSUME AccessIInv, Inquiries, [AccessNext]_accessVars PROVE AccessIInv' /\ Inquiries'
    OBVIOUS
  <2>1. CASE UNCHANGED accessVars
    <3>1. AccessIInv'
      BY <2>1 DEF accessVars, AccessIInv, AccessTypes, ClockTypes, FlawsAreFound, FlawsLeft,
         LockIsHeld, KeysAreRecent, Stands, Grace, AccessIsProven, PeerBudgets, PeerRequests, Charged
    <3>2. Inquiries'
      BY <2>1 DEF accessVars, Inquiries, InquiryRecent
    <3>. QED  BY <3>1, <3>2
  <2>2. CASE AccessNext
    <3>1. AccessIInv'
      BY <2>2, ArriveKeeps, PeerGateKeeps, LimitsKeeps, ProxyGuardKeeps, ResourceGuardKeeps,
         LockKeeps, RefreshKeeps, FetchFailsKeeps, DecodingKeeps, VerifyKeeps, IntrospectsKeeps,
         IntrospectionKeeps, LeaveKeeps, DisconnectKeeps, FetchReadsKeeps, TickKeeps, RotateKeeps
      DEF AccessNext
    <3>. QED  BY <2>2, <3>1, InquiriesKeep
  <2>. QED  BY <2>1, <2>2
<1>2. AccessInit => Inquiries
  <2>. SUFFICES ASSUME AccessInit PROVE Inquiries
    OBVIOUS
  <2>1. inquiry \in [Calls -> [age : 0..HttpTimeout, active : BOOLEAN]]
    BY ReplyTypes DEF AccessInit
  <2>2. \A c \in Calls : call[c] = "idle"
    BY DEF AccessInit
  <2>. QED  BY <2>1, <2>2 DEF Inquiries, InquiryRecent
<1>. QED  BY <1>1, <1>2, AccessStarts, PTL DEF AccessSpec

\* Only a caller whose token stood no longer ago than a fresh key set or one
\* introspection allows gets in, however the exchanges with the provider fail or
\* overlap its changes of mind, and behind a proxy the traffic its gate refuses is
\* charged to no shared budget (v2_oidc_jwt.rs, v2_m1_northbound.rs, v2_limits.rs),
\* for any callers, peers, keys and limits.
THEOREM AccessIsSafe == AccessSpec => []AccessSafe
<1>1. AccessIInv => AccessSafe
  <2>. SUFFICES ASSUME AccessIInv, mode = "proxy" PROVE RefusedTrafficIsFree
    BY DEF AccessSafe, AccessIInv, RefusedTrafficIsFree
  <2>1. \A i \in 1..Len(spent) : ~spent[i].refused
    BY DEF AccessIInv, Charged
  <2>2. ASSUME NEW p \in Peers
        PROVE  Cardinality({c \in Calls : call[c] \in Holding /\ ask[c].peer = p}) <= PeerSlots
    <3>1. IsFiniteSet(PeerRequests(p)) /\ Cardinality(PeerRequests(p)) <= PeerSlots
      BY DEF AccessIInv, PeerBudgets
    <3>2. PICK B : B = {c \in Calls : call[c] \in Holding /\ ask[c].peer = p}
      OBVIOUS
    <3>3. B \subseteq PeerRequests(p)
      BY <3>2 DEF PeerRequests
    <3>4. IsFiniteSet(B) /\ Cardinality(B) <= Cardinality(PeerRequests(p))
      BY <3>1, <3>3, FS_Subset
    <3>5. Cardinality(B) \in Nat /\ Cardinality(PeerRequests(p)) \in Nat
      BY <3>1, <3>4, FS_CardinalityType
    <3>. QED  BY <3>1, <3>2, <3>4, <3>5, AccessNumbers
  <2>. QED  BY <2>1, <2>2 DEF RefusedTrafficIsFree
<1>. QED  BY <1>1, AccessInvariant, PTL

-----------------------------------------------------------------------------
(* Browser contexts: what a call carries is of its own context and session, *)
(* and is spent once where it is single-use, for any contexts and calls.   *)

\* A call in progress and a context, as records.
CallShape(c) ==
    c = [phase |-> c.phase, who |-> c.who, tool |-> c.tool, ctx |-> c.ctx, gen |-> c.gen,
         tab |-> c.tab, arg |-> c.arg, file |-> c.file, scope |-> c.scope,
         carried |-> c.carried, under |-> c.under, doc |-> c.doc]
ContextShape(b) == b = [state |-> b.state, owner |-> b.owner, gen |-> b.gen, scope |-> b.scope, due |-> b.due]
ContextShapes ==
    /\ menu \in Menus /\ lastRef \in Nat
    /\ contextCall = [k \in ContextCalls |-> contextCall[k]]
    /\ context = [c \in Contexts |-> context[c]]
    /\ \A k \in ContextCalls : contextCall[k].phase # "idle" =>
          CallShape(contextCall[k]) /\ contextCall[k].ctx \in Contexts
    /\ \A c \in Contexts : context[c].state = "open" => ContextShape(context[c])

\* A context is opened once; the refs that are live, and those that calls carry, were
\* numbered as they were minted, and what can be spent once is not live when carried.
Entered(k) == contextCall[k].phase \in {"entered", "prepared", "sent", "ran"}
SingleUse == {"file", "continuation"}
CallFine(k) ==
    /\ Entered(k) => /\ context[contextCall[k].ctx].state \in {"open", "gone"}
                     /\ IsOpen(contextCall[k].ctx) => context[contextCall[k].ctx].owner = contextCall[k].who
    /\ HoldsRefs(k) => \A r \in contextCall[k].carried :
          /\ r.ctx = contextCall[k].ctx /\ r.gen = contextCall[k].gen
          /\ r.id \in 1..lastRef /\ (r.kind \in SingleUse => r \notin refs)

RefsInOrder ==
    /\ \A r \in refs : r.id \in 1..lastRef /\ (r.kind \in {"page", "continuation"} => r.tab \in 1..lastRef)
    /\ \A r, s \in refs : r.id = s.id => r = s

\* What was seen on a tab is of the context and the generation of that tab.
TabsFit ==
    \A r, s \in refs : s.kind = "tab" /\ r.kind \in {"page", "continuation"} /\ r.tab = s.id =>
        r.ctx = s.ctx /\ r.gen = s.gen

ContextIInv ==
    /\ ContextShapes /\ (\A k \in ContextCalls : CallFine(k)) /\ RefsInOrder /\ TabsFit
    /\ SpentOnce /\ OneSnapshotPerTab

-----------------------------------------------------------------------------
\* How contexts and calls go on in a step that enters or prepares no call.
ContextStep(c) ==
    /\ context[c].state = "gone" => context'[c].state = "gone"
    /\ context[c].state = "open" =>
          /\ context'[c].state \in {"open", "gone"}
          /\ context'[c].state = "open" => context'[c].owner = context[c].owner
ContextCallStep(k) ==
    /\ Entered(k)' => /\ Entered(k) /\ contextCall'[k].ctx = contextCall[k].ctx
                      /\ contextCall'[k].who = contextCall[k].who
                      /\ contextCall'[k].gen = contextCall[k].gen
    /\ HoldsRefs(k)' => HoldsRefs(k) /\ contextCall'[k].carried = contextCall[k].carried
RefsStep ==
    /\ lastRef' \in Nat /\ lastRef' >= lastRef
    /\ \A r \in refs' : r \in refs \/ (r.id \in Nat /\ r.id > lastRef)

LEMMA CallGoesOn ==
    ASSUME ContextIInv, NEW k \in ContextCalls, ContextCallStep(k), RefsStep,
           \A c \in Contexts : ContextStep(c)
    PROVE  CallFine(k)'
<1>1. CallFine(k) /\ lastRef \in Nat
  BY DEF ContextIInv, ContextShapes
<1>2. Entered(k)' => contextCall[k].ctx \in Contexts
  BY DEF ContextCallStep, Entered, ContextIInv, ContextShapes
<1>3. Entered(k)' =>
         /\ context'[contextCall'[k].ctx].state \in {"open", "gone"}
         /\ context'[contextCall'[k].ctx].state = "open" =>
              context'[contextCall'[k].ctx].owner = contextCall'[k].who
  BY <1>1, <1>2 DEF CallFine, ContextCallStep, ContextStep, IsOpen
<1>4. ASSUME HoldsRefs(k)', NEW r \in contextCall'[k].carried
      PROVE  /\ r.ctx = contextCall'[k].ctx /\ r.gen = contextCall'[k].gen
             /\ r.id \in 1..lastRef' /\ (r.kind \in SingleUse => r \notin refs')
  <2>1. Entered(k)' /\ HoldsRefs(k) /\ contextCall'[k].carried = contextCall[k].carried
    BY <1>4 DEF ContextCallStep, HoldsRefs, Entered
  <2>2. /\ r.ctx = contextCall[k].ctx /\ r.gen = contextCall[k].gen
        /\ r.id \in 1..lastRef /\ (r.kind \in SingleUse => r \notin refs)
    BY <1>1, <1>4, <2>1 DEF CallFine
  <2> QED BY <1>1, <2>1, <2>2 DEF ContextCallStep, RefsStep
<1> QED BY <1>3, <1>4 DEF CallFine, IsOpen

LEMMA SpentGoesOn ==
    ASSUME ContextIInv, \A k \in ContextCalls : ContextCallStep(k)
    PROVE  SpentOnce'
BY DEF ContextIInv, SpentOnce, ContextCallStep

\* Fewer refs keep their order.
LEMMA FewerRefs ==
    ASSUME ContextIInv, refs' \subseteq refs, lastRef' \in Nat, lastRef' >= lastRef
    PROVE  RefsStep /\ RefsInOrder' /\ TabsFit' /\ OneSnapshotPerTab'
<1>1. lastRef \in Nat
  BY DEF ContextIInv, ContextShapes
<1>2. RefsStep
  BY DEF RefsStep
<1>3. RefsInOrder'
  BY <1>1 DEF RefsInOrder, ContextIInv
<1>4. TabsFit' /\ OneSnapshotPerTab'
  BY DEF TabsFit, OneSnapshotPerTab, ContextIInv
<1> QED BY <1>2, <1>3, <1>4

\* A step that mints nothing, enters nothing and prepares nothing.
LEMMA GoesOn ==
    ASSUME ContextIInv, ContextShapes', refs' \subseteq refs, lastRef' = lastRef,
           \A k \in ContextCalls : ContextCallStep(k), \A c \in Contexts : ContextStep(c)
    PROVE  ContextIInv'
<1>1. lastRef' \in Nat /\ lastRef' >= lastRef
  BY DEF ContextIInv, ContextShapes
<1>2. RefsStep /\ RefsInOrder' /\ TabsFit' /\ OneSnapshotPerTab'
  BY <1>1, FewerRefs
<1> QED BY <1>2, CallGoesOn, SpentGoesOn DEF ContextIInv

LEMMA ContextsStart == ContextsInit => ContextIInv
<1> SUFFICES ASSUME ContextsInit PROVE ContextIInv
  OBVIOUS
<1> USE DEF ContextsInit, IdleContextCall, Free
<1>1. ContextShapes
  BY DEF ContextShapes
<1>2. \A k \in ContextCalls : CallFine(k)
  BY DEF CallFine, Entered, HoldsRefs
<1>3. RefsInOrder /\ TabsFit /\ SpentOnce /\ OneSnapshotPerTab
  BY DEF RefsInOrder, TabsFit, SpentOnce, OneSnapshotPerTab, HoldsRefs
<1> QED BY <1>1, <1>2, <1>3 DEF ContextIInv

-----------------------------------------------------------------------------
\* One call changes: the others go on as they were.
LEMMA OneCall ==
    ASSUME ContextIInv, NEW k \in ContextCalls, NEW z, contextCall' = [contextCall EXCEPT ![k] = z]
    PROVE  /\ contextCall' = [j \in ContextCalls |-> contextCall'[j]]
           /\ contextCall'[k] = z
           /\ \A j \in ContextCalls : j # k => contextCall'[j] = contextCall[j]
BY DEF ContextIInv, ContextShapes

LEMMA SameCall ==
    ASSUME NEW k, contextCall'[k] = contextCall[k]
    PROVE  ContextCallStep(k)
BY DEF ContextCallStep, Entered, HoldsRefs

LEMMA EndedCall ==
    ASSUME NEW k, contextCall'[k].phase \in {"idle", "asked"}
    PROVE  ContextCallStep(k)
BY DEF ContextCallStep, Entered, HoldsRefs

LEMMA SameContext ==
    ASSUME NEW c, context'[c] = context[c] \/ context'[c] = Gone
    PROVE  ContextStep(c)
BY DEF ContextStep, Gone

\* A call that ends while refs at most go away.
LEMMA CallEnds ==
    ASSUME ContextIInv, NEW k \in ContextCalls, contextCall' = [contextCall EXCEPT ![k] = IdleContextCall],
           UNCHANGED <<menu, context, lastRef>>, refs' \subseteq refs
    PROVE  ContextIInv'
<1>1. /\ contextCall' = [j \in ContextCalls |-> contextCall'[j]]
      /\ contextCall'[k] = IdleContextCall
      /\ \A j \in ContextCalls : j # k => contextCall'[j] = contextCall[j]
  BY OneCall
<1>2. ContextShapes'
  BY <1>1 DEF ContextIInv, ContextShapes, CallShape, ContextShape, IdleContextCall
<1>3. \A j \in ContextCalls : ContextCallStep(j)
  BY <1>1, SameCall, EndedCall DEF IdleContextCall
<1>4. \A c \in Contexts : ContextStep(c)
  BY SameContext
<1> QED BY <1>2, <1>3, <1>4, GoesOn

LEMMA WorldStep ==
    ASSUME ContextIInv, Connect \/ LoseSession \/ \E c \in Contexts : Lapse(c)
    PROVE  ContextIInv'
<1>1. UNCHANGED <<menu, refs, lastRef, contextCall>>
  BY DEF Connect, LoseSession, Lapse
<1>2. /\ context' = [c \in Contexts |-> context'[c]]
      /\ \A c \in Contexts : ContextStep(c) /\ (context'[c].state = "open" => ContextShape(context'[c]))
  <2>1. CASE Connect \/ LoseSession
    BY <2>1, SameContext DEF Connect, LoseSession, ContextIInv, ContextShapes
  <2>2. ASSUME NEW d \in Contexts, Lapse(d)
        PROVE  /\ context' = [c \in Contexts |-> context'[c]]
               /\ \A c \in Contexts : ContextStep(c) /\ (context'[c].state = "open" => ContextShape(context'[c]))
    <3>1. PICK z : z = [context[d] EXCEPT !.due = TRUE]
      OBVIOUS
    <3>2. ContextShape(context[d]) /\ context[d].state = "open"
      BY <2>2 DEF Lapse, IsOpen, ContextIInv, ContextShapes
    <3>3. ContextShape(z) /\ z.state = "open" /\ z.owner = context[d].owner
      BY <3>1, <3>2 DEF ContextShape
    <3>4. context' = [context EXCEPT ![d] = z]
      BY <2>2, <3>1 DEF Lapse
    <3>5. /\ context' = [c \in Contexts |-> context'[c]]
          /\ context'[d] = z /\ \A c \in Contexts : c # d => context'[c] = context[c]
      BY <3>4 DEF ContextIInv, ContextShapes
    <3>6. \A c \in Contexts : c # d => ContextStep(c) /\ (context'[c].state = "open" => ContextShape(context'[c]))
      BY <3>5, SameContext DEF ContextIInv, ContextShapes
    <3>7. ContextStep(d)
      BY <3>2, <3>3, <3>5 DEF ContextStep
    <3> QED BY <3>3, <3>5, <3>6, <3>7
  <2> QED BY <2>1, <2>2
<1>3. ContextShapes'
  BY <1>1, <1>2 DEF ContextIInv, ContextShapes, CallShape, ContextShape
<1>4. \A k \in ContextCalls : ContextCallStep(k)
  BY <1>1, SameCall
<1> QED BY <1>1, <1>2, <1>3, <1>4, GoesOn

LEMMA AskStep ==
    ASSUME ContextIInv, NEW k \in ContextCalls, NEW o, NEW c \in menu.contexts, NEW t, Ask(k, o, t, c)
    PROVE  ContextIInv'
<1>1. PICK n \in Names(t, c) : contextCall' = [contextCall EXCEPT ![k] =
              [phase |-> "asked", who |-> o, tool |-> t, ctx |-> c, gen |-> session.gen,
               tab |-> n.tab, arg |-> n.arg, file |-> n.file, scope |-> "none",
               carried |-> {}, under |-> 0, doc |-> 0]]
  BY DEF Ask
<1>2. PICK z : z = [phase |-> "asked", who |-> o, tool |-> t, ctx |-> c, gen |-> session.gen,
               tab |-> n.tab, arg |-> n.arg, file |-> n.file, scope |-> "none",
               carried |-> {}, under |-> 0, doc |-> 0]
  OBVIOUS
<1>3. CallShape(z) /\ z.phase = "asked" /\ z.ctx = c
  BY <1>2 DEF CallShape
<1>4. c \in Contexts
  BY ContextConstants DEF ContextIInv, ContextShapes
<1>5. /\ contextCall' = [j \in ContextCalls |-> contextCall'[j]]
      /\ contextCall'[k] = z
      /\ \A j \in ContextCalls : j # k => contextCall'[j] = contextCall[j]
  BY <1>1, <1>2, OneCall
<1>6. UNCHANGED <<menu, session, context, refs, lastRef>>
  BY DEF Ask
<1>7. ContextShapes'
  BY <1>3, <1>4, <1>5, <1>6 DEF ContextIInv, ContextShapes, CallShape, ContextShape
<1>8. \A j \in ContextCalls : ContextCallStep(j)
  BY <1>3, <1>5, SameCall, EndedCall
<1>9. \A d \in Contexts : ContextStep(d)
  BY <1>6, SameContext
<1> QED BY <1>6, <1>7, <1>8, <1>9, GoesOn

\* prune_expired and fence_live_binding only end contexts and drop refs.
LEMMA FenceEnds ==
    ASSUME ContextIInv, NEW gen
    PROVE  /\ AfterFence(gen) = [c \in Contexts |-> AfterFence(gen)[c]]
           /\ \A c \in Contexts : AfterFence(gen)[c] = context[c] \/ AfterFence(gen)[c] = Gone
           /\ Kept(gen) \subseteq refs
BY DEF AfterFence, Kept

LEMMA OpenStep ==
    ASSUME ContextIInv, NEW k \in ContextCalls, Open(k)
    PROVE  ContextIInv'
<1>1. PICK after : after = AfterFence(contextCall[k].gen)
  OBVIOUS
<1>2. PICK b : b = NewContext(k)
  OBVIOUS
<1>3. PICK c : c = contextCall[k].ctx
  OBVIOUS
<1>4. c \in Contexts
  BY <1>3 DEF Open, ContextIInv, ContextShapes
<1>5. /\ after = [d \in Contexts |-> after[d]]
      /\ \A d \in Contexts : after[d] = context[d] \/ after[d] = Gone
  BY <1>1, FenceEnds
<1>6. ContextShape(b)
  BY <1>2 DEF NewContext, ContextShape
<1>7. /\ context' = after \/ (after[c].state = "none" /\ context' = [after EXCEPT ![c] = b])
      /\ refs' = Kept(contextCall[k].gen)
      /\ contextCall' = [contextCall EXCEPT ![k] = IdleContextCall]
      /\ UNCHANGED <<menu, lastRef>>
  BY <1>1, <1>2, <1>3 DEF Open
<1>8. /\ context' = [d \in Contexts |-> context'[d]]
      /\ \A d \in Contexts : context'[d] = context[d] \/ context'[d] = Gone
                             \/ (d = c /\ after[c].state = "none" /\ context'[d] = b)
  BY <1>4, <1>5, <1>7
<1>9. after[c].state = "none" => context[c].state = "none"
  BY <1>4, <1>5 DEF Gone
<1>10. \A d \in Contexts : ContextStep(d)
  BY <1>8, <1>9, SameContext DEF ContextStep
<1>11. \A d \in Contexts : context'[d].state = "open" => ContextShape(context'[d])
  BY <1>6, <1>8 DEF ContextIInv, ContextShapes, Gone
<1>12. /\ contextCall' = [j \in ContextCalls |-> contextCall'[j]]
       /\ contextCall'[k] = IdleContextCall
       /\ \A j \in ContextCalls : j # k => contextCall'[j] = contextCall[j]
  BY <1>7, OneCall
<1>13. ContextShapes'
  BY <1>7, <1>8, <1>11, <1>12 DEF ContextIInv, ContextShapes, CallShape, ContextShape, IdleContextCall
<1>14. \A j \in ContextCalls : ContextCallStep(j)
  BY <1>12, SameCall, EndedCall DEF IdleContextCall
<1>15. refs' \subseteq refs
  BY <1>7, FenceEnds
<1> QED BY <1>7, <1>10, <1>13, <1>14, <1>15, GoesOn

\* A step in which one call changes and contexts are kept or end.
LEMMA OneCallGoesOn ==
    ASSUME ContextIInv, NEW k \in ContextCalls, NEW z, contextCall' = [contextCall EXCEPT ![k] = z],
           z.phase # "idle" => CallShape(z) /\ z.ctx \in Contexts,
           context' = [d \in Contexts |-> context'[d]],
           \A d \in Contexts : context'[d] = context[d] \/ context'[d] = Gone,
           UNCHANGED menu
    PROVE  /\ ContextShapes' <=> lastRef' \in Nat
           /\ contextCall'[k] = z
           /\ \A j \in ContextCalls : j # k => ContextCallStep(j) /\ contextCall'[j] = contextCall[j]
           /\ \A d \in Contexts : ContextStep(d)
<1>1. /\ contextCall' = [j \in ContextCalls |-> contextCall'[j]]
      /\ contextCall'[k] = z
      /\ \A j \in ContextCalls : j # k => contextCall'[j] = contextCall[j]
  BY OneCall
<1>2. \A d \in Contexts : context'[d].state = "open" => ContextShape(context'[d])
  BY DEF ContextIInv, ContextShapes, Gone
<1>3. \A j \in ContextCalls : contextCall'[j].phase # "idle" =>
          CallShape(contextCall'[j]) /\ contextCall'[j].ctx \in Contexts
  BY <1>1 DEF ContextIInv, ContextShapes
<1>4. ContextShapes' <=> lastRef' \in Nat
  BY <1>1, <1>2, <1>3 DEF ContextIInv, ContextShapes, CallShape, ContextShape
<1> QED BY <1>1, <1>4, SameCall, SameContext

LEMMA EnterStep ==
    ASSUME ContextIInv, NEW k \in ContextCalls, Enter(k)
    PROVE  ContextIInv'
<1>1. PICK after : after = AfterFence(contextCall[k].gen)
  OBVIOUS
<1>2. PICK s : s = after[contextCall[k].ctx].scope
  OBVIOUS
<1>3. PICK z : z = [contextCall[k] EXCEPT !.phase = "entered", !.scope = s]
  OBVIOUS
<1>4. CallShape(contextCall[k]) /\ contextCall[k].ctx \in Contexts
  BY DEF Enter, ContextIInv, ContextShapes
<1>5. CallShape(z) /\ z.ctx = contextCall[k].ctx /\ z.who = contextCall[k].who /\ z.phase = "entered"
  BY <1>3, <1>4 DEF CallShape
<1>6. PICK y : /\ y = IF Admits(k, after) THEN z ELSE IdleContextCall
               /\ contextCall' = [contextCall EXCEPT ![k] = y]
  BY <1>1, <1>2, <1>3 DEF Enter
<1>7. context' = after /\ refs' = Kept(contextCall[k].gen) /\ UNCHANGED <<menu, lastRef>>
  BY <1>1 DEF Enter
<1>8. /\ context' = [d \in Contexts |-> context'[d]]
      /\ \A d \in Contexts : context'[d] = context[d] \/ context'[d] = Gone
  BY <1>1, <1>7, FenceEnds
<1>9. refs' \subseteq refs
  BY <1>7, FenceEnds
<1>10. y.phase # "idle" => CallShape(y) /\ y.ctx \in Contexts /\ Admits(k, after) /\ y = z
  BY <1>4, <1>5, <1>6 DEF IdleContextCall
<1>11. /\ ContextShapes' <=> lastRef' \in Nat
       /\ contextCall'[k] = y
       /\ \A j \in ContextCalls : j # k => ContextCallStep(j) /\ contextCall'[j] = contextCall[j]
       /\ \A d \in Contexts : ContextStep(d)
  BY <1>6, <1>7, <1>8, <1>10, OneCallGoesOn
<1>12. lastRef' \in Nat /\ lastRef' >= lastRef
  BY <1>7 DEF ContextIInv, ContextShapes
<1>13. RefsStep /\ RefsInOrder' /\ TabsFit' /\ OneSnapshotPerTab'
  BY <1>9, <1>12, FewerRefs
<1>14. ~HoldsRefs(k)'
  BY <1>5, <1>6, <1>11 DEF HoldsRefs, IdleContextCall
<1>15. CallFine(k)'
  <2>1. Entered(k)' => /\ context'[contextCall'[k].ctx].state = "open"
                       /\ context'[contextCall'[k].ctx].owner = contextCall'[k].who
    BY <1>5, <1>6, <1>7, <1>10, <1>11 DEF Entered, Admits, IdleContextCall
  <2> QED BY <1>14, <2>1 DEF CallFine
<1>16. \A j \in ContextCalls : CallFine(j)'
  BY <1>11, <1>13, <1>15, CallGoesOn
<1>17. SpentOnce'
  <2>1. \A j \in ContextCalls : HoldsRefs(j)' => HoldsRefs(j) /\ contextCall'[j].carried = contextCall[j].carried
    BY <1>11, <1>14 DEF ContextCallStep
  <2> QED BY <2>1 DEF SpentOnce, ContextIInv
<1> QED BY <1>11, <1>12, <1>13, <1>16, <1>17 DEF ContextIInv

LEMMA CloseStep ==
    ASSUME ContextIInv, NEW k \in ContextCalls, Close(k)
    PROVE  ContextIInv'
<1>1. contextCall[k].ctx \in Contexts
  BY DEF Close, ContextIInv, ContextShapes
<1>2. /\ contextCall' = [contextCall EXCEPT ![k] = IdleContextCall]
      /\ context' = context \/ context' = [context EXCEPT ![contextCall[k].ctx] = Gone]
      /\ refs' \subseteq refs /\ UNCHANGED <<menu, lastRef>>
  BY DEF Close
<1>3. /\ context' = [d \in Contexts |-> context'[d]]
      /\ \A d \in Contexts : context'[d] = context[d] \/ context'[d] = Gone
  BY <1>1, <1>2 DEF ContextIInv, ContextShapes
<1>4. /\ ContextShapes' <=> lastRef' \in Nat
      /\ contextCall'[k] = IdleContextCall
      /\ \A j \in ContextCalls : j # k => ContextCallStep(j) /\ contextCall'[j] = contextCall[j]
      /\ \A d \in Contexts : ContextStep(d)
  BY <1>2, <1>3, OneCallGoesOn DEF IdleContextCall
<1>5. \A j \in ContextCalls : ContextCallStep(j)
  BY <1>4, EndedCall DEF IdleContextCall
<1>6. ContextShapes'
  BY <1>2, <1>4 DEF ContextIInv, ContextShapes
<1> QED BY <1>2, <1>4, <1>5, <1>6, GoesOn

\* What a call looks up is live and of its own context, and what it may use once it takes.
Looked(k, s, consumed) ==
    \A r \in s : /\ r \in refs /\ r.ctx = contextCall[k].ctx /\ r.gen = contextCall[k].gen
                 /\ r.kind \in SingleUse => r \in consumed

LEMMA PrepareStep ==
    ASSUME ContextIInv, NEW k \in ContextCalls, NEW wanted, NEW consumed,
           contextCall[k].phase = "entered", PrepareWith(k, wanted, consumed),
           \A s \in wanted : Looked(k, s, consumed)
    PROVE  ContextIInv'
<1>1. PICK carried : carried = UNION wanted
  OBVIOUS
<1>2. PICK z : z = [contextCall[k] EXCEPT !.phase = "prepared", !.carried = carried]
  OBVIOUS
<1>3. CallShape(contextCall[k]) /\ contextCall[k].ctx \in Contexts
  BY DEF ContextIInv, ContextShapes
<1>4. /\ CallShape(z) /\ z.ctx = contextCall[k].ctx /\ z.who = contextCall[k].who
      /\ z.gen = contextCall[k].gen /\ z.phase = "prepared" /\ z.carried = carried
  BY <1>2, <1>3 DEF CallShape
<1>5. \/ contextCall' = [contextCall EXCEPT ![k] = z] /\ refs' = refs \ consumed
      \/ contextCall' = [contextCall EXCEPT ![k] = IdleContextCall] /\ refs' = refs
  BY <1>1, <1>2 DEF PrepareWith
<1>6. UNCHANGED <<menu, context, lastRef>>
  BY DEF PrepareWith
<1>7. CASE contextCall' = [contextCall EXCEPT ![k] = IdleContextCall] /\ refs' = refs
  BY <1>6, <1>7, CallEnds
<1>8. CASE contextCall' = [contextCall EXCEPT ![k] = z] /\ refs' = refs \ consumed
  <2>1. /\ context' = [d \in Contexts |-> context'[d]]
        /\ \A d \in Contexts : context'[d] = context[d] \/ context'[d] = Gone
    BY <1>6 DEF ContextIInv, ContextShapes
  <2>2. /\ ContextShapes' <=> lastRef' \in Nat
        /\ contextCall'[k] = z
        /\ \A j \in ContextCalls : j # k => ContextCallStep(j) /\ contextCall'[j] = contextCall[j]
        /\ \A d \in Contexts : ContextStep(d)
    BY <1>3, <1>4, <1>6, <1>8, <2>1, OneCallGoesOn
  <2>3. lastRef' \in Nat /\ lastRef' >= lastRef /\ lastRef' = lastRef
    BY <1>6 DEF ContextIInv, ContextShapes
  <2>4. RefsStep /\ RefsInOrder' /\ TabsFit' /\ OneSnapshotPerTab'
    BY <1>8, <2>3, FewerRefs
  <2>5. \A r \in carried : /\ r \in refs /\ r.ctx = contextCall[k].ctx /\ r.gen = contextCall[k].gen
                           /\ r.kind \in SingleUse => r \in consumed
    BY <1>1 DEF Looked
  <2>6. CallFine(k)'
    <3>1. \A r \in contextCall'[k].carried :
             /\ r.ctx = contextCall'[k].ctx /\ r.gen = contextCall'[k].gen
             /\ r.id \in 1..lastRef' /\ (r.kind \in SingleUse => r \notin refs')
      BY <1>4, <1>8, <2>2, <2>3, <2>5 DEF ContextIInv, RefsInOrder
    <3>2. CallFine(k) /\ Entered(k)
      BY DEF ContextIInv, Entered
    <3>3. /\ context'[contextCall'[k].ctx].state \in {"open", "gone"}
          /\ context'[contextCall'[k].ctx].state = "open" =>
                context'[contextCall'[k].ctx].owner = contextCall'[k].who
      BY <1>4, <1>6, <2>2, <3>2 DEF CallFine, IsOpen
    <3> QED BY <3>1, <3>3 DEF CallFine, IsOpen
  <2>7. \A j \in ContextCalls : CallFine(j)'
    BY <2>2, <2>4, <2>6, CallGoesOn
  <2>8. SpentOnce'
    <3>1. ASSUME NEW j \in ContextCalls, j # k, HoldsRefs(j),
                 NEW r \in contextCall[j].carried \cap carried
          PROVE  r.kind \notin {"file", "continuation"}
      <4>1. r.kind \in SingleUse => r \notin refs
        BY <3>1 DEF ContextIInv, CallFine
      <4> QED BY <2>5, <3>1, <4>1 DEF SingleUse
    <3>2. \A j \in ContextCalls : j # k =>
             contextCall'[j] = contextCall[j] /\ (HoldsRefs(j)' => HoldsRefs(j))
      BY <2>2 DEF ContextCallStep
    <3>3. contextCall'[k].carried = carried
      BY <1>4, <2>2
    <3> SUFFICES ASSUME NEW i \in ContextCalls, NEW j \in ContextCalls, i # j,
                        HoldsRefs(i)', HoldsRefs(j)',
                        NEW r \in contextCall'[i].carried \cap contextCall'[j].carried
                 PROVE  r.kind \notin {"file", "continuation"}
      BY DEF SpentOnce
    <3>4. CASE i = k
      BY <3>1, <3>2, <3>3, <3>4
    <3>5. CASE j = k
      BY <3>1, <3>2, <3>3, <3>5
    <3>6. CASE i # k /\ j # k
      BY <3>2, <3>6 DEF ContextIInv, SpentOnce
    <3> QED BY <3>4, <3>5, <3>6
  <2> QED BY <2>2, <2>3, <2>4, <2>7, <2>8 DEF ContextIInv
<1> QED BY <1>5, <1>7, <1>8

LEMMA LookedOwned ==
    ASSUME NEW k, NEW id, NEW kind, NEW consumed, kind \notin SingleUse
    PROVE  /\ Looked(k, Owned(k, id, kind), consumed)
           /\ Looked(k, OnItsTab(k, id, kind), consumed)
BY DEF Looked, Owned, OnItsTab, SingleUse

LEMMA LookedTaken ==
    ASSUME NEW k, NEW id, NEW kind
    PROVE  /\ Looked(k, Owned(k, id, kind), Owned(k, id, kind))
           /\ Looked(k, OnItsTab(k, id, kind), OnItsTab(k, id, kind))
BY DEF Looked, Owned, OnItsTab

LEMMA PreparesStep ==
    ASSUME ContextIInv, NEW k \in ContextCalls,
           \/ PrepareTarget(k) \/ PrepareElement(k) \/ PrepareInspect(k) \/ PrepareNavigate(k)
           \/ PreparePageAction(k) \/ PreparePointer(k) \/ PrepareDialog(k) \/ PrepareUpload(k)
           \/ PrepareDownload(k)
    PROVE  ContextIInv'
<1>1. \A consumed : /\ Looked(k, TabOf(k), consumed) /\ Looked(k, PageElement(k), consumed)
                    /\ Looked(k, DialogNamed(k), consumed)
                    /\ Looked(k, Owned(k, contextCall[k].arg, "element"), consumed)
  BY LookedOwned DEF TabOf, PageElement, DialogNamed, SingleUse
<1>2. Looked(k, Files(k), Files(k))
  BY LookedTaken DEF Files
<1>3. PICK wanted, consumed : /\ PrepareWith(k, wanted, consumed)
                              /\ contextCall[k].phase = "entered"
                              /\ \A s \in wanted : Looked(k, s, consumed)
  <2>1. CASE PrepareTarget(k)
    BY <2>1 DEF PrepareTarget, Preparing
  <2>2. CASE PrepareElement(k)
    BY <1>1, <2>2 DEF PrepareElement, Preparing
  <2>3. CASE PrepareInspect(k)
    <3>1. CASE Preparing(k, {"inspect"}) /\ PrepareWith(k, {TabOf(k)}, {})
      BY <1>1, <3>1 DEF Preparing
    <3>2. CASE Preparing(k, {"continue"}) /\
               PrepareWith(k, {TabOf(k), OnItsTab(k, contextCall[k].arg, "continuation")},
                              OnItsTab(k, contextCall[k].arg, "continuation"))
      BY <1>1, <3>2, LookedTaken DEF Preparing
    <3> QED BY <2>3, <3>1, <3>2 DEF PrepareInspect
  <2>4. CASE PrepareNavigate(k)
    BY <1>1, <2>4 DEF PrepareNavigate, Preparing
  <2>5. CASE PreparePageAction(k)
    BY <1>1, <2>5 DEF PreparePageAction, Preparing
  <2>6. CASE PreparePointer(k)
    BY <1>1, <2>6 DEF PreparePointer, Preparing
  <2>7. CASE PrepareDialog(k)
    BY <1>1, <2>7 DEF PrepareDialog, Preparing
  <2>8. CASE PrepareUpload(k)
    BY <1>1, <1>2, <2>8 DEF PrepareUpload, Preparing
  <2>9. CASE PrepareDownload(k)
    BY <1>1, <2>9 DEF PrepareDownload, Preparing
  <2> QED BY <2>1, <2>2, <2>3, <2>4, <2>5, <2>6, <2>7, <2>8, <2>9
<1> QED BY <1>3, PrepareStep

\* The device's steps change one call and nothing else the argument speaks of.
LEMMA DeviceStep ==
    ASSUME ContextIInv, NEW k \in ContextCalls, Start(k) \/ Execute(k) \/ Fail(k)
    PROVE  ContextIInv'
<1>1. UNCHANGED <<menu, context, refs, lastRef>>
  BY DEF Start, Execute, Fail
<1>2. CallShape(contextCall[k]) /\ contextCall[k].ctx \in Contexts /\ HoldsRefs(k)
  BY DEF Start, Execute, Fail, ContextIInv, ContextShapes, HoldsRefs
<1>3. PICK z : /\ contextCall' = [contextCall EXCEPT ![k] = z]
               /\ \/ z = IdleContextCall
                  \/ /\ CallShape(z) /\ z.phase \in {"sent", "ran"} /\ z.ctx = contextCall[k].ctx
                     /\ z.who = contextCall[k].who /\ z.gen = contextCall[k].gen
                     /\ z.carried = contextCall[k].carried
  <2>1. CASE Start(k)
    <3>1. PICK z : z = [contextCall[k] EXCEPT !.phase = "sent", !.under = session.gen]
      OBVIOUS
    <3>2. /\ CallShape(z) /\ z.phase = "sent" /\ z.ctx = contextCall[k].ctx
          /\ z.who = contextCall[k].who /\ z.gen = contextCall[k].gen
          /\ z.carried = contextCall[k].carried
      BY <1>2, <3>1 DEF CallShape
    <3>3. contextCall' = [contextCall EXCEPT ![k] = z]
      BY <2>1, <3>1 DEF Start, ContextIInv, ContextShapes
    <3> QED BY <3>2, <3>3
  <2>2. CASE Execute(k)
    <3>1. PICK z : z = [contextCall[k] EXCEPT !.phase = "ran", !.doc = document']
      OBVIOUS
    <3>2. /\ CallShape(z) /\ z.phase = "ran" /\ z.ctx = contextCall[k].ctx
          /\ z.who = contextCall[k].who /\ z.gen = contextCall[k].gen
          /\ z.carried = contextCall[k].carried
      BY <1>2, <3>1 DEF CallShape
    <3>3. contextCall' = [contextCall EXCEPT ![k] = z]
      BY <2>2, <3>1 DEF Execute, ContextIInv, ContextShapes
    <3> QED BY <3>2, <3>3
  <2>3. CASE Fail(k)
    BY <2>3 DEF Fail
  <2> QED BY <2>1, <2>2, <2>3
<1>4. /\ context' = [d \in Contexts |-> context'[d]]
      /\ \A d \in Contexts : context'[d] = context[d] \/ context'[d] = Gone
  BY <1>1 DEF ContextIInv, ContextShapes
<1>5. z.phase # "idle" => CallShape(z) /\ z.ctx \in Contexts
  BY <1>2, <1>3 DEF IdleContextCall
<1>6. /\ ContextShapes' <=> lastRef' \in Nat
      /\ contextCall'[k] = z
      /\ \A j \in ContextCalls : j # k => ContextCallStep(j) /\ contextCall'[j] = contextCall[j]
      /\ \A d \in Contexts : ContextStep(d)
  BY <1>1, <1>3, <1>4, <1>5, OneCallGoesOn
<1>7. ContextCallStep(k)
  BY <1>2, <1>3, <1>6 DEF ContextCallStep, Entered, HoldsRefs, IdleContextCall
<1>8. ContextShapes' /\ lastRef' = lastRef
  BY <1>1, <1>6 DEF ContextIInv, ContextShapes
<1> QED BY <1>1, <1>6, <1>7, <1>8, GoesOn

LEMMA ExpansionStep ==
    ASSUME ContextIInv, NEW k \in ContextCalls, PublishExpansion(k)
    PROVE  ContextIInv'
<1>1. PICK c : c = contextCall[k].ctx
  OBVIOUS
<1>2. c \in Contexts
  BY <1>1 DEF PublishExpansion, Answered, ContextIInv, ContextShapes
<1>3. /\ contextCall' = [contextCall EXCEPT ![k] = IdleContextCall]
      /\ UNCHANGED <<menu, refs, lastRef>>
  BY DEF PublishExpansion
<1>4. /\ context' = [d \in Contexts |-> context'[d]]
      /\ \A d \in Contexts : ContextStep(d) /\ (context'[d].state = "open" => ContextShape(context'[d]))
  <2>1. CASE context' = context
    BY <2>1, SameContext DEF ContextIInv, ContextShapes
  <2>2. CASE IsOpen(c) /\ context' = [context EXCEPT ![c] = Expanded(c, contextCall[k].gen)]
    <3>1. PICK z : z = [context[c] EXCEPT !.scope = "desktop"]
      OBVIOUS
    <3>2. PICK y : y = Expanded(c, contextCall[k].gen)
      OBVIOUS
    <3>3. y = z \/ y = Gone
      BY <3>1, <3>2 DEF Expanded
    <3>4. ContextShape(context[c]) /\ context[c].state = "open"
      BY <1>2, <2>2 DEF IsOpen, ContextIInv, ContextShapes
    <3>5. ContextShape(z) /\ z.state = "open" /\ z.owner = context[c].owner
      BY <3>1, <3>4 DEF ContextShape
    <3>6. /\ context' = [d \in Contexts |-> context'[d]]
          /\ context'[c] = y /\ \A d \in Contexts : d # c => context'[d] = context[d]
      BY <1>2, <2>2, <3>2 DEF ContextIInv, ContextShapes
    <3>7. \A d \in Contexts : d # c => ContextStep(d) /\ (context'[d].state = "open" => ContextShape(context'[d]))
      BY <3>6, SameContext DEF ContextIInv, ContextShapes
    <3>8. ContextStep(c) /\ (context'[c].state = "open" => ContextShape(context'[c]))
      BY <3>3, <3>4, <3>5, <3>6 DEF ContextStep, Gone
    <3> QED BY <3>6, <3>7, <3>8
  <2> QED BY <1>1, <2>1, <2>2 DEF PublishExpansion
<1>5. /\ contextCall' = [j \in ContextCalls |-> contextCall'[j]]
      /\ contextCall'[k] = IdleContextCall
      /\ \A j \in ContextCalls : j # k => contextCall'[j] = contextCall[j]
  BY <1>3, OneCall
<1>6. ContextShapes'
  BY <1>3, <1>4, <1>5 DEF ContextIInv, ContextShapes, CallShape, ContextShape, IdleContextCall
<1>7. \A j \in ContextCalls : ContextCallStep(j)
  BY <1>5, SameCall, EndedCall DEF IdleContextCall
<1> QED BY <1>3, <1>4, <1>6, <1>7, GoesOn

-----------------------------------------------------------------------------
\* What an answer may mint: refs with the next numbers; pages and a continuation of one
\* snapshot, of a tab none of whose pages survive and to whose context they belong.
Pagelike == {"page", "continuation"}
MintsFairly(surviving, minted) ==
    /\ \A r \in minted : r.id \in (lastRef + 1)..(lastRef + Cardinality(minted))
    /\ \A r, s \in minted : r.id = s.id => r = s
    /\ \A r \in minted : r.kind \in Pagelike =>
          /\ r.tab \in 1..lastRef
          /\ \A s \in refs : s.kind = "tab" /\ r.tab = s.id => r.ctx = s.ctx /\ r.gen = s.gen
          /\ \A s \in surviving : s.kind \in Pagelike => s.tab # r.tab
    /\ \A r, s \in minted : /\ r.kind = "page" /\ s.kind = "page" => r = s
                            /\ r.kind = "page" /\ s.kind = "continuation" => s.snap = r.id

LEMMA AnswerStep ==
    ASSUME ContextIInv, NEW k \in ContextCalls, NEW surviving, NEW minted,
           AnswerCall(k, surviving, minted), surviving \subseteq refs,
           Cardinality(minted) \in Nat, MintsFairly(surviving, minted)
    PROVE  ContextIInv'
<1>1. /\ contextCall' = [contextCall EXCEPT ![k] = IdleContextCall]
      /\ UNCHANGED <<menu, context>> /\ lastRef' = lastRef + Cardinality(minted)
      /\ refs' \subseteq surviving \cup minted
  BY DEF AnswerCall
<1>2. lastRef \in Nat /\ lastRef' \in Nat /\ lastRef' >= lastRef
  BY <1>1 DEF ContextIInv, ContextShapes
<1>3. \A r \in refs' : r \in surviving \/ r \in minted
  BY <1>1
<1>4. \A r \in surviving : r \in refs /\ r.id \in 1..lastRef
  BY DEF ContextIInv, RefsInOrder
<1>5. \A r \in minted : r.id \in Nat /\ r.id > lastRef /\ r.id \in 1..lastRef'
  BY <1>1, <1>2 DEF MintsFairly
<1>6. RefsStep
  BY <1>2, <1>3, <1>4, <1>5 DEF RefsStep
<1>7. RefsInOrder'
  <2>1. \A r \in refs' : r.id \in 1..lastRef' /\ (r.kind \in {"page", "continuation"} => r.tab \in 1..lastRef')
    <3>1. \A r \in surviving : r.id \in 1..lastRef' /\ (r.kind \in {"page", "continuation"} => r.tab \in 1..lastRef')
      BY <1>2, <1>4 DEF ContextIInv, RefsInOrder
    <3>2. \A r \in minted : r.id \in 1..lastRef' /\ (r.kind \in {"page", "continuation"} => r.tab \in 1..lastRef')
      BY <1>2, <1>5 DEF MintsFairly, Pagelike
    <3> QED BY <1>3, <3>1, <3>2
  <2>2. \A r, s \in refs' : r.id = s.id => r = s
    <3>1. \A r, s \in surviving : r.id = s.id => r = s
      BY <1>4 DEF ContextIInv, RefsInOrder
    <3>2. \A r, s \in minted : r.id = s.id => r = s
      BY DEF MintsFairly
    <3>3. \A r \in surviving, s \in minted : r.id # s.id
      BY <1>2, <1>4, <1>5
    <3> QED BY <1>3, <3>1, <3>2, <3>3
  <2> QED BY <2>1, <2>2 DEF RefsInOrder
<1>8. TabsFit'
  <2> SUFFICES ASSUME NEW r \in refs', NEW s \in refs', s.kind = "tab", r.kind \in Pagelike, r.tab = s.id
               PROVE  r.ctx = s.ctx /\ r.gen = s.gen
    BY DEF TabsFit, Pagelike
  <2>1. r.tab \in 1..lastRef
    BY <1>3, <1>4 DEF ContextIInv, RefsInOrder, MintsFairly, Pagelike
  <2>2. s \in surviving
    BY <1>2, <1>3, <1>5, <2>1
  <2>3. CASE r \in surviving
    BY <1>4, <2>2, <2>3 DEF ContextIInv, TabsFit, Pagelike
  <2>4. CASE r \in minted
    BY <1>4, <2>2, <2>4 DEF MintsFairly
  <2> QED BY <1>3, <2>3, <2>4
<1>9. OneSnapshotPerTab'
  <2> SUFFICES ASSUME NEW r \in refs', NEW s \in refs', r.kind = "page", s.kind \in Pagelike, r.tab = s.tab
               PROVE  (s.kind = "page" => r = s) /\ (s.kind = "continuation" => s.snap = r.id)
    BY DEF OneSnapshotPerTab, Pagelike
  <2>1. CASE r \in surviving /\ s \in surviving
    BY <1>4, <2>1 DEF ContextIInv, OneSnapshotPerTab, Pagelike
  <2>2. CASE r \in minted /\ s \in minted
    BY <2>2 DEF MintsFairly
  <2>3. CASE r \in minted /\ s \in surviving
    BY <2>3 DEF MintsFairly, Pagelike
  <2>4. CASE r \in surviving /\ s \in minted
    BY <2>4 DEF MintsFairly, Pagelike
  <2> QED BY <1>3, <2>1, <2>2, <2>3, <2>4
<1>10. /\ context' = [d \in Contexts |-> context'[d]]
       /\ \A d \in Contexts : context'[d] = context[d] \/ context'[d] = Gone
  BY <1>1 DEF ContextIInv, ContextShapes
<1>11. /\ ContextShapes' <=> lastRef' \in Nat
       /\ contextCall'[k] = IdleContextCall
       /\ \A j \in ContextCalls : j # k => ContextCallStep(j) /\ contextCall'[j] = contextCall[j]
       /\ \A d \in Contexts : ContextStep(d)
  BY <1>1, <1>10, OneCallGoesOn DEF IdleContextCall
<1>12. \A j \in ContextCalls : ContextCallStep(j)
  BY <1>11, EndedCall DEF IdleContextCall
<1>13. (\A j \in ContextCalls : CallFine(j)') /\ SpentOnce'
  BY <1>6, <1>11, <1>12, CallGoesOn, SpentGoesOn
<1> QED BY <1>2, <1>7, <1>8, <1>9, <1>11, <1>13 DEF ContextIInv

\* Nothing minted, or one ref that is no page.
LEMMA MintsNothing ==
    ASSUME NEW surviving
    PROVE  Cardinality({}) \in Nat /\ MintsFairly(surviving, {})
BY FS_EmptySet DEF MintsFairly

LEMMA MintsOne ==
    ASSUME ContextIInv, NEW surviving, NEW kind, NEW k, NEW tab, NEW snap, kind \notin Pagelike
    PROVE  /\ Cardinality({NewRef(lastRef + 1, kind, k, tab, snap)}) \in Nat
           /\ MintsFairly(surviving, {NewRef(lastRef + 1, kind, k, tab, snap)})
<1>1. PICK n : n = NewRef(lastRef + 1, kind, k, tab, snap)
  OBVIOUS
<1>2. n.id = lastRef + 1 /\ n.kind = kind
  BY <1>1 DEF NewRef
<1>3. Cardinality({n}) = 1 /\ lastRef \in Nat
  BY FS_Singleton DEF ContextIInv, ContextShapes
<1>4. MintsFairly(surviving, {n})
  BY <1>2, <1>3 DEF MintsFairly, Pagelike
<1> QED BY <1>1, <1>3, <1>4

\* begin_snapshot: the tab is live, so every older page of it is the caller's and dies.
LEMMA MintsSnapshot ==
    ASSUME ContextIInv, NEW k \in ContextCalls, NEW more \in BOOLEAN, TabOf(k) # {}
    PROVE  /\ Cardinality(SnapshotRefs(k, more)) \in Nat
           /\ MintsFairly(refs \ PagesOf(k), SnapshotRefs(k, more))
<1>1. PICK t \in refs : /\ t.id = contextCall[k].tab /\ t.kind = "tab"
                        /\ t.ctx = contextCall[k].ctx /\ t.gen = contextCall[k].gen
  BY DEF TabOf, Owned
<1>2. PICK p : p = NewRef(lastRef + 1, "page", k, contextCall[k].tab, 0)
  OBVIOUS
<1>3. PICK n : n = NewRef(lastRef + 2, "continuation", k, contextCall[k].tab, lastRef + 1)
  OBVIOUS
<1>4. /\ p.id = lastRef + 1 /\ p.kind = "page" /\ p.ctx = contextCall[k].ctx
      /\ p.gen = contextCall[k].gen /\ p.tab = contextCall[k].tab
  BY <1>2 DEF NewRef
<1>5. /\ n.id = lastRef + 2 /\ n.kind = "continuation" /\ n.ctx = contextCall[k].ctx
      /\ n.gen = contextCall[k].gen /\ n.tab = contextCall[k].tab /\ n.snap = lastRef + 1
  BY <1>3 DEF NewRef
<1>6. lastRef \in Nat /\ contextCall[k].tab \in 1..lastRef
  BY <1>1 DEF ContextIInv, ContextShapes, RefsInOrder
<1>7. \A s \in refs : s.kind = "tab" /\ contextCall[k].tab = s.id =>
         contextCall[k].ctx = s.ctx /\ contextCall[k].gen = s.gen
  BY <1>1 DEF ContextIInv, RefsInOrder
<1>8. \A s \in refs \ PagesOf(k) : s.kind \in Pagelike => s.tab # contextCall[k].tab
  BY <1>1 DEF ContextIInv, TabsFit, PagesOf, Pagelike
<1>9. IsFiniteSet({p}) /\ Cardinality({p}) = 1
  BY FS_Singleton
<1>10. CASE ~more
  <2>1. SnapshotRefs(k, more) = {p}
    BY <1>2, <1>10 DEF SnapshotRefs
  <2>2. MintsFairly(refs \ PagesOf(k), {p})
    BY <1>4, <1>6, <1>7, <1>8, <1>9 DEF MintsFairly
  <2> QED BY <1>9, <2>1, <2>2
<1>11. CASE more
  <2>1. SnapshotRefs(k, more) = {p} \cup {n}
    BY <1>2, <1>3, <1>11 DEF SnapshotRefs
  <2>2. n \notin {p}
    BY <1>4, <1>5, <1>6
  <2>3. Cardinality({p} \cup {n}) = 2
    <3>1. Cardinality({p} \cup {n}) = IF n \in {p} THEN Cardinality({p}) ELSE Cardinality({p}) + 1
      BY <1>9, FS_AddElement, Zenon
    <3>2. Cardinality({p} \cup {n}) = 1 + 1
      BY <1>9, <2>2, <3>1, Zenon
    <3>. QED  BY <3>2
  <2>4. \A r \in {p} \cup {n} : r = p \/ r = n
    OBVIOUS
  <2>5. \A r \in {p} \cup {n} : r.id \in (lastRef + 1)..(lastRef + 2) /\ r.kind \in Pagelike
                                /\ r.ctx = contextCall[k].ctx /\ r.gen = contextCall[k].gen
                                /\ r.tab = contextCall[k].tab
    BY <1>4, <1>5, <1>6, <2>4 DEF Pagelike
  <2>6. \A r, s \in {p} \cup {n} : r.id = s.id => r = s
    BY <1>4, <1>5, <1>6, <2>4
  <2>7. \A r, s \in {p} \cup {n} : /\ r.kind = "page" /\ s.kind = "page" => r = s
                                   /\ r.kind = "page" /\ s.kind = "continuation" => s.snap = r.id
    BY <1>4, <1>5, <2>4
  <2>8. MintsFairly(refs \ PagesOf(k), {p} \cup {n})
    BY <1>6, <1>7, <1>8, <2>3, <2>5, <2>6, <2>7 DEF MintsFairly
  <2> QED BY <2>1, <2>3, <2>8
<1> QED BY <1>10, <1>11

LEMMA PublishStep ==
    ASSUME ContextIInv, NEW k \in ContextCalls,
           \/ PublishWindow(k) \/ PublishStaged(k) \/ PublishDownload(k) \/ PublishBound(k)
           \/ PublishSnapshot(k) \/ PublishNavigation(k) \/ PublishDialog(k) \/ PublishPlain(k)
    PROVE  ContextIInv'
<1>1. PICK surviving, minted : /\ AnswerCall(k, surviving, minted) /\ surviving \subseteq refs
                               /\ Cardinality(minted) \in Nat /\ MintsFairly(surviving, minted)
  <2>1. ASSUME NEW kind \in ScopedKinds, PublishScoped(k, kind)
        PROVE  \E surviving, minted : /\ AnswerCall(k, surviving, minted) /\ surviving \subseteq refs
                                      /\ Cardinality(minted) \in Nat /\ MintsFairly(surviving, minted)
    BY <2>1, MintsOne DEF PublishScoped, ScopedKinds, Pagelike
  <2>2. CASE PublishWindow(k) \/ PublishStaged(k) \/ PublishDownload(k)
    BY <2>1, <2>2 DEF PublishWindow, PublishStaged, PublishDownload, ScopedKinds
  <2>3. CASE PublishBound(k)
    BY <2>3, MintsOne DEF PublishBound, BoundRefs, Pagelike
  <2>4. CASE PublishSnapshot(k)
    <3>1. CASE TabOf(k) = {}
      BY <2>4, <3>1, MintsNothing DEF PublishSnapshot
    <3>2. CASE TabOf(k) # {}
      <4>1. PICK more \in BOOLEAN : AnswerCall(k, refs \ PagesOf(k), SnapshotRefs(k, more))
        BY <2>4, <3>2 DEF PublishSnapshot
      <4> QED BY <3>2, <4>1, MintsSnapshot
    <3> QED BY <3>1, <3>2
  <2>5. CASE PublishNavigation(k)
    BY <2>5, MintsNothing DEF PublishNavigation
  <2>6. CASE PublishDialog(k)
    <3>1. CASE TabOf(k) = {}
      BY <2>6, <3>1, MintsNothing DEF PublishDialog
    <3>2. CASE AnswerCall(k, refs \ DialogNamed(k), {})
      BY <3>2, MintsNothing
    <3>3. CASE AnswerCall(k, refs, {})
      BY <3>3, MintsNothing
    <3>4. CASE AnswerCall(k, refs \ DialogsOf(k), {NewRef(lastRef + 1, "dialog", k, contextCall[k].tab, 0)})
      BY <3>4, MintsOne DEF Pagelike
    <3> QED BY <2>6, <3>1, <3>2, <3>3, <3>4 DEF PublishDialog
  <2>7. CASE PublishPlain(k)
    BY <2>7, MintsNothing DEF PublishPlain
  <2> QED BY <2>2, <2>3, <2>4, <2>5, <2>6, <2>7
<1> QED BY <1>1, AnswerStep

LEMMA ContextsStep == ContextIInv /\ [ContextsNext]_contextVars => ContextIInv'
<1> SUFFICES ASSUME ContextIInv, [ContextsNext]_contextVars PROVE ContextIInv'
  OBVIOUS
<1>1. CASE Connect \/ LoseSession \/ \E c \in Contexts : Lapse(c)
  BY <1>1, WorldStep
<1>2. CASE \E k \in ContextCalls, o \in menu.people, c \in menu.contexts, t \in menu.tools : Ask(k, o, t, c)
  BY <1>2, AskStep
<1>3. ASSUME NEW k \in ContextCalls,
             \/ PrepareTarget(k) \/ PrepareElement(k) \/ PrepareInspect(k) \/ PrepareNavigate(k)
             \/ PreparePageAction(k) \/ PreparePointer(k) \/ PrepareDialog(k) \/ PrepareUpload(k)
             \/ PrepareDownload(k)
      PROVE  ContextIInv'
  BY <1>3, PreparesStep
<1>4. ASSUME NEW k \in ContextCalls,
             \/ PublishWindow(k) \/ PublishStaged(k) \/ PublishDownload(k) \/ PublishBound(k)
             \/ PublishSnapshot(k) \/ PublishNavigation(k) \/ PublishDialog(k) \/ PublishPlain(k)
      PROVE  ContextIInv'
  BY <1>4, PublishStep
<1>5. ASSUME NEW k \in ContextCalls, Open(k) \/ Enter(k) \/ Close(k) \/ PublishExpansion(k)
      PROVE  ContextIInv'
  BY <1>5, OpenStep, EnterStep, CloseStep, ExpansionStep
<1>6. ASSUME NEW k \in ContextCalls, Start(k) \/ Execute(k) \/ Fail(k)
      PROVE  ContextIInv'
  BY <1>6, DeviceStep
<1>7. CASE UNCHANGED contextVars
  <2>1. UNCHANGED <<menu, context, refs, lastRef, contextCall>>
    BY <1>7 DEF contextVars
  <2>2. ContextShapes'
    BY <2>1 DEF ContextIInv, ContextShapes, CallShape, ContextShape
  <2> QED BY <2>1, <2>2, SameCall, SameContext, GoesOn
<1> QED BY <1>1, <1>2, <1>3, <1>4, <1>5, <1>6, <1>7 DEF ContextsNext

(* A call carries refs of its own context and generation, two calls never   *)
(* carry the same staged file or continuation, and a tab shows the pages    *)
(* of one snapshot, for any number of clients, contexts and calls.         *)
THEOREM ContextsAreSafe == ContextsSpec => []ContextsSafe
<1>1. ContextIInv => ContextsSafe
  BY DEF ContextIInv, ContextsSafe, CarriesItsOwn, CallFine, HoldsRefs, Entered
<1> QED BY <1>1, ContextsStart, ContextsStep, PTL DEF ContextsSpec

=============================================================================

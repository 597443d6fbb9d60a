-------------------------- MODULE RenderPass_proofs --------------------------
(* Proofs about RenderPass for every set of views, targets, values and        *)
(* queries: types, queries, and the contents of the images.                   *)
(*                                                                           *)
(* Each step of a call is a function on the context, so that the lemmas       *)
(* follow the code: a clear that waits is carried out by ClearRenderPass,     *)
(* hence by SpillRenderPass, UpdateFramebuffer and StartRenderPass, and each  *)
(* of them leaves the images with what was waiting (Waiting).                 *)
EXTENDS RenderPass, FiniteSetTheorems, TLAPS

-------------------------------------------------------------------------------
(* Types, and the part of the invariant that needs nothing about clears.      *)

Images_Contents == [Images -> [Aspects -> Contents]]

Contexts ==
    [targets          : [Slots -> Views \cup {NoView}],
     framebuffer      : Targets \cup {NoFramebuffer},
     dirtyFramebuffer : BOOLEAN,
     passBound        : BOOLEAN,
     clearTargets     : BOOLEAN,
     xfbActive        : BOOLEAN,
     pipeline         : Pipelines,
     ops              : [Slots -> AttachmentOps],
     clearValues      : [Slots -> [Aspects -> Values \cup {NoValue}]],
     active           : SUBSET Queries,
     types            : SUBSET QueryTypes,
     open             : [Slots -> Views \cup {NoView}] \cup {NoFramebuffer},
     content          : [Images -> [Aspects -> Contents]],
     running          : SUBSET Queries,
     miscounted       : SUBSET Queries]

(* The queries that run are those of the types being counted, and these are   *)
(* the ones that the open render pass and transform feedback count.           *)
CountedTypes(c) ==
    (IF c.passBound THEN {"occlusion", "statistics"} ELSE {})
        \cup (IF c.xfbActive THEN {"xfb"} ELSE {})

Counting(c) ==
    /\ c.xfbActive => c.passBound
    /\ c.types = CountedTypes(c)
    /\ c.running = {q \in c.active : TypeOf[q] \in c.types}
    /\ c.miscounted = {}

(* The open render pass is that of the framebuffer, clears wait only between  *)
(* render passes, and a framebuffer that is not dirty shows the targets.      *)
Recording(c) ==
    /\ c.open = IF c.passBound THEN c.framebuffer ELSE NoFramebuffer
    /\ c.passBound => c.framebuffer # NoFramebuffer
    /\ c.clearTargets => ~c.passBound /\ ~c.dirtyFramebuffer /\ c.framebuffer # NoFramebuffer
    /\ c.dirtyFramebuffer => c.targets \in Targets
    /\ ~c.dirtyFramebuffer /\ c.framebuffer # NoFramebuffer => c.targets = c.framebuffer

Good(c) == c \in Contexts /\ Recording(c) /\ Counting(c)

Spilled(c) == ~c.passBound /\ ~c.clearTargets

-------------------------------------------------------------------------------
(* Targets and attachments.                                                   *)

LEMMA TargetsTyped ==
    ASSUME NEW t \in Targets
    PROVE  WellFormed(t) /\ t \in [Slots -> Views \cup {NoView}] /\ t # NoFramebuffer
BY RenderPassAssumption DEF WellFormed

LEMMA SlotsFinite ==
    /\ IsFiniteSet(Slots) /\ Cardinality(Slots) = ColorSlots + 1
    /\ DepthSlot \in Slots /\ 0 \in Slots /\ Slots \subseteq Nat
    /\ 0 # DepthSlot
<1>1. ColorSlots \in Nat \ {0}  BY RenderPassAssumption
<1>2. IsFiniteSet(0 .. ColorSlots) /\ Cardinality(0 .. ColorSlots) = ColorSlots - 0 + 1
  BY <1>1, FS_Interval
<1> QED BY <1>1, <1>2 DEF Slots, DepthSlot

(* The attachment number of a slot that holds a view is a slot number.        *)
LEMMA AttachmentInSlots ==
    ASSUME NEW fb \in [Slots -> Views \cup {NoView}], NEW s \in Slots
    PROVE  Attachment(fb, s) \in Slots /\ Attachment(fb, s) <= s
<1> DEFINE K == {k \in Slots : k < s /\ fb[k] # NoView}
<1>1. s \in Nat /\ s <= ColorSlots /\ ColorSlots \in Nat
  BY RenderPassAssumption DEF Slots
<1>2. K \subseteq 0 .. (s - 1)
  BY <1>1 DEF Slots
<1>3. IsFiniteSet(0 .. (s - 1)) /\ Cardinality(0 .. (s - 1)) = s
  <2>1. CASE s = 0
    <3>1. 0 .. (s - 1) = {}  BY <2>1
    <3> QED BY <3>1, <2>1, FS_EmptySet
  <2>2. CASE s > 0
    BY <1>1, <2>2, FS_Interval, 0 \in Int, s - 1 \in Int
  <2> QED BY <1>1, <2>1, <2>2
<1>4. IsFiniteSet(K) /\ Cardinality(K) <= Cardinality(0 .. (s - 1))
  BY <1>2, <1>3, FS_Subset
<1>5. Cardinality(K) \in Nat
  BY <1>4, FS_CardinalityType
<1> QED BY <1>1, <1>3, <1>4, <1>5 DEF Attachment, Slots

LEMMA SlotOfView ==
    ASSUME NEW fb \in Targets, NEW v \in Views, IsAttached(fb, v)
    PROVE  /\ (CHOOSE s \in Slots : fb[s] = v) \in Slots
           /\ fb[CHOOSE s \in Slots : fb[s] = v] = v
           /\ ("color" \in AspectsOf[v]) <=> ((CHOOSE s \in Slots : fb[s] = v) # DepthSlot)
<1>1. \E s \in Slots : fb[s] = v
  BY DEF IsAttached
<1> DEFINE s == CHOOSE k \in Slots : fb[k] = v
<1>2. s \in Slots /\ fb[s] = v
  BY <1>1
<1>3. ("color" \in AspectsOf[v]) <=> s # DepthSlot
  BY <1>2, TargetsTyped, RenderPassAssumption DEF WellFormed
<1> QED BY <1>2, <1>3

LEMMA TemporaryTargetsFormed ==
    ASSUME NEW v \in Views
    PROVE  /\ WellFormed(TemporaryTargets(v))
           /\ TemporaryTargets(v) # NoFramebuffer
           /\ LET s == IF "color" \in AspectsOf[v] THEN 0 ELSE DepthSlot
              IN  s \in Slots /\ \A k \in Slots : TemporaryTargets(v)[k] = IF k = s THEN v ELSE NoView
<1> DEFINE s == IF "color" \in AspectsOf[v] THEN 0 ELSE DepthSlot
<1>1. s \in Slots /\ (("color" \in AspectsOf[v]) <=> s # DepthSlot)
  BY SlotsFinite
<1>2. /\ TemporaryTargets(v) \in [Slots -> Views \cup {NoView}]
      /\ \A k \in Slots : TemporaryTargets(v)[k] = IF k = s THEN v ELSE NoView
  BY <1>1 DEF TemporaryTargets, NoTargets
<1>3. WellFormed(TemporaryTargets(v))
  BY <1>1, <1>2, RenderPassAssumption DEF WellFormed
<1> QED BY <1>1, <1>2, <1>3, RenderPassAssumption

-------------------------------------------------------------------------------
(* What the commands do to the images.                                        *)

LEMMA ContentsTyped ==
    /\ \A x \in Values \cup {NoValue} : Filled(x) \in Contents
    /\ Undefined \in Contents
    /\ \A k \in Contents : Over(k) \in Contents
    /\ Ruined \in Images_Contents
<1>1. \A x \in Values \cup {NoValue} : Filled(x) \in Contents
  BY DEF Filled, Contents
<1>2. Undefined \in Contents
  BY <1>1 DEF Undefined
<1>3. ASSUME NEW k \in Contents PROVE Over(k) \in Contents
  BY DEF Over, Contents
<1>4. Ruined \in Images_Contents
  BY <1>2 DEF Ruined, Images_Contents
<1> QED BY <1>1, <1>2, <1>3, <1>4

LEMMA FillTyped ==
    ASSUME NEW content \in Images_Contents, NEW i \in Images, NEW aspects,
           NEW x \in Values \cup {NoValue}
    PROVE  Fill(content, i, aspects, Filled(x)) \in Images_Contents
BY ContentsTyped DEF Fill, Images_Contents

LEMMA TouchTyped ==
    ASSUME NEW content \in Images_Contents, NEW i \in Images, NEW aspects
    PROVE  Touch(content, i, aspects) \in Images_Contents
BY ContentsTyped DEF Touch, Images_Contents

LEMMA DrawnOverTyped ==
    ASSUME NEW content \in Images_Contents, NEW fb
    PROVE  DrawnOver(content, fb) \in Images_Contents
BY ContentsTyped DEF DrawnOver, Images_Contents

LEMMA LoadedTyped ==
    ASSUME NEW content \in Images_Contents,
           NEW fb \in [Slots -> Views \cup {NoView}],
           NEW ops,
           NEW values \in [Slots -> [Aspects -> Values \cup {NoValue}]]
    PROVE  Loaded(content, fb, ops, values) \in Images_Contents
<1>1. SUFFICES ASSUME NEW i \in Images, NEW a \in Aspects
               PROVE  Loaded(content, fb, ops, values)[i][a] \in Contents
  BY DEF Loaded, Images_Contents
<1> DEFINE cleared == {s \in Slots : Shows(fb, s, i, a) /\ a \in ops[s].clear}
           n == Attachment(fb, CHOOSE s \in cleared : TRUE)
<1>2. Loaded(content, fb, ops, values)[i][a] =
        IF cleared # {} THEN Filled(values[n][a])
        ELSE IF \E s \in Slots : Shows(fb, s, i, a) /\ ops[s].discard THEN Undefined
        ELSE content[i][a]
  BY DEF Loaded
<1>3. cleared # {} => Filled(values[n][a]) \in Contents
  <2>1. SUFFICES ASSUME cleared # {} PROVE Filled(values[n][a]) \in Contents
    OBVIOUS
  <2>2. (CHOOSE s \in cleared : TRUE) \in cleared
    BY <2>1
  <2>3. n \in Slots
    BY <2>2, AttachmentInSlots
  <2> QED BY <2>3, ContentsTyped
<1>4. content[i][a] \in Contents
  BY DEF Images_Contents
<1> QED BY <1>2, <1>3, <1>4, ContentsTyped

(* A slot that shows an aspect of an image is the only one that does, so that *)
(* what a render pass does to it depends on that slot's operation alone.      *)
AtSlot(content, op, value, i, a) ==
    IF a \in op.clear THEN Filled(value[a]) ELSE IF op.discard THEN Undefined ELSE content[i][a]

LEMMA LoadedSlot ==
    ASSUME NEW content, NEW fb, NEW ops, NEW values,
           NEW s \in Slots, NEW i \in Images, NEW a \in Aspects,
           WellFormed(fb), Shows(fb, s, i, a)
    PROVE  Loaded(content, fb, ops, values)[i][a]
             = AtSlot(content, ops[s], values[Attachment(fb, s)], i, a)
<1>1. \A k \in Slots : Shows(fb, k, i, a) => k = s
  BY DEF Shows, WellFormed
<1> DEFINE cleared == {k \in Slots : Shows(fb, k, i, a) /\ a \in ops[k].clear}
<1>2. Loaded(content, fb, ops, values)[i][a] =
        IF cleared # {} THEN Filled(values[Attachment(fb, CHOOSE k \in cleared : TRUE)][a])
        ELSE IF \E k \in Slots : Shows(fb, k, i, a) /\ ops[k].discard THEN Undefined
        ELSE content[i][a]
  BY DEF Loaded
<1>3. CASE a \in ops[s].clear
  <2>1. cleared = {s}
    BY <1>1, <1>3
  <2>2. (CHOOSE k \in cleared : TRUE) = s
    BY <2>1
  <2> QED BY <1>2, <1>3, <2>1, <2>2 DEF AtSlot
<1>4. CASE a \notin ops[s].clear
  <2>1. cleared = {}
    BY <1>1, <1>4
  <2>2. (\E k \in Slots : Shows(fb, k, i, a) /\ ops[k].discard) <=> ops[s].discard
    BY <1>1
  <2> QED BY <1>2, <1>4, <2>1, <2>2 DEF AtSlot
<1> QED BY <1>3, <1>4

LEMMA LoadedElsewhere ==
    ASSUME NEW content, NEW fb, NEW ops, NEW values, NEW i \in Images, NEW a \in Aspects,
           \A s \in Slots : ~Shows(fb, s, i, a)
    PROVE  Loaded(content, fb, ops, values)[i][a] = content[i][a]
BY DEF Loaded

(* A render pass that loads its attachments changes nothing.                  *)
LEMMA LoadedReset ==
    ASSUME NEW content \in Images_Contents, NEW t, NEW values, WellFormed(t)
    PROVE  Loaded(content, t, ResetRenderPassOps(t), values) = content
<1> DEFINE new == Loaded(content, t, ResetRenderPassOps(t), values)
<1>1. ASSUME NEW i \in Images, NEW a \in Aspects
      PROVE  new[i][a] = content[i][a]
  <2>1. CASE \E s \in Slots : Shows(t, s, i, a)
    <3>1. PICK s \in Slots : Shows(t, s, i, a)  BY <2>1
    <3>2. /\ a \notin ResetRenderPassOps(t)[s].clear
          /\ ~ResetRenderPassOps(t)[s].discard
      BY <3>1 DEF ResetRenderPassOps, Shows
    <3>3. new[i][a] = AtSlot(content, ResetRenderPassOps(t)[s], values[Attachment(t, s)], i, a)
      BY <3>1, LoadedSlot
    <3> QED BY <3>2, <3>3 DEF AtSlot
  <2>2. CASE \A s \in Slots : ~Shows(t, s, i, a)
    BY <2>2, LoadedElsewhere
  <2> QED BY <2>1, <2>2
<1>2. new = [i \in Images |-> [a \in Aspects |-> new[i][a]]]
  BY DEF Loaded
<1>3. content = [i \in Images |-> [a \in Aspects |-> content[i][a]]]
  BY DEF Images_Contents
<1> QED BY <1>1, <1>2, <1>3

-------------------------------------------------------------------------------
(* The steps of the context keep the good part of the invariant.              *)

(* What the images hold once the clears that wait are done.                   *)
Waiting(c) ==
    IF c.clearTargets THEN Loaded(c.content, c.framebuffer, c.ops, c.clearValues)
    ELSE c.content

LEMMA ResetTyped ==
    ASSUME NEW t PROVE ResetRenderPassOps(t) \in [Slots -> AttachmentOps]
BY DEF ResetRenderPassOps, AttachmentOps

LEMMA ClearRenderPassUnfolded ==
    ASSUME NEW c \in Contexts, Recording(c), c.clearTargets
    PROVE  ClearRenderPass(c) =
             [c EXCEPT !.clearTargets = FALSE,
                       !.open = NoFramebuffer,
                       !.content = Loaded(c.content, c.framebuffer, c.ops, c.clearValues),
                       !.ops = ResetRenderPassOps(c.targets),
                       !.miscounted = c.miscounted \cup c.running]
<1>1. c.open = NoFramebuffer
  BY DEF Recording
<1> QED BY <1>1 DEF ClearRenderPass, CmdBeginRenderPass, CmdEndRenderPass, Contexts

LEMMA ClearRenderPassGood ==
    ASSUME NEW c, Good(c)
    PROVE  LET d == ClearRenderPass(c)
           IN  /\ Good(d)
               /\ ~d.clearTargets
               /\ d.content = Waiting(c)
               /\ d.ops = IF c.clearTargets THEN ResetRenderPassOps(c.targets) ELSE c.ops
               /\ d.targets = c.targets /\ d.framebuffer = c.framebuffer
               /\ d.dirtyFramebuffer = c.dirtyFramebuffer /\ d.passBound = c.passBound
               /\ d.active = c.active
<1>1. CASE ~c.clearTargets
  BY <1>1 DEF ClearRenderPass, Waiting, Good
<1>2. CASE c.clearTargets
  <2> DEFINE new == Loaded(c.content, c.framebuffer, c.ops, c.clearValues)
             d == [c EXCEPT !.clearTargets = FALSE,
                       !.open = NoFramebuffer,
                       !.content = new,
                       !.ops = ResetRenderPassOps(c.targets),
                       !.miscounted = c.miscounted \cup c.running]
  <2>1. ClearRenderPass(c) = d
    BY <1>2, ClearRenderPassUnfolded DEF Good
  <2>2. c \in Contexts /\ Recording(c) /\ Counting(c)
    BY DEF Good
  <2>3. c.framebuffer \in Targets /\ c.framebuffer \in [Slots -> Views \cup {NoView}]
    BY <1>2, <2>2, TargetsTyped DEF Recording, Contexts
  <2>4. new \in Images_Contents
    BY <2>2, <2>3, LoadedTyped DEF Contexts, Images_Contents
  <2>5. c.running = {}
    BY <1>2, <2>2 DEF Recording, Counting, CountedTypes
  <2> HIDE DEF new
  <2>6. d \in Contexts
    BY <2>2, <2>4, <2>5, ResetTyped DEF Contexts, Images_Contents
  <2>7. Recording(d)
    BY <1>2, <2>2 DEF Recording, Contexts
  <2>8. Counting(d)
    BY <1>2, <2>2, <2>5 DEF Counting, CountedTypes, Contexts
  <2>9. /\ ~d.clearTargets
        /\ d.content = new
        /\ d.ops = ResetRenderPassOps(c.targets)
        /\ d.targets = c.targets /\ d.framebuffer = c.framebuffer
        /\ d.dirtyFramebuffer = c.dirtyFramebuffer /\ d.passBound = c.passBound
        /\ d.active = c.active
    BY <2>2 DEF Contexts
  <2>10. Waiting(c) = new
    BY <1>2 DEF Waiting, new
  <2> QED BY <1>2, <2>1, <2>6, <2>7, <2>8, <2>9, <2>10 DEF Good
<1> QED BY <1>1, <1>2

(* Ending the bound render pass ends every query first.                       *)
LEMMA EndBoundPassUnfolded ==
    ASSUME NEW c \in Contexts, Counting(c), c.passBound
    PROVE  EndBoundPass(c) =
             [c EXCEPT !.passBound = FALSE, !.xfbActive = FALSE, !.types = {}, !.running = {},
                       !.open = NoFramebuffer, !.miscounted = {}, !.pipeline = "none"]
<1> DEFINE paused == PauseTransformFeedback([c EXCEPT !.passBound = FALSE])
           ended == EndQueries(EndQueries(paused, "occlusion"), "statistics")
           d == [CmdEndRenderPass(ended) EXCEPT !.pipeline = "none"]
<1>1. EndBoundPass(c) = d
  BY DEF EndBoundPass
<1>2. c.miscounted \cup {} = {}
  BY DEF Counting
<1>3. paused = [c EXCEPT !.passBound = FALSE, !.xfbActive = FALSE,
                         !.types = {"occlusion", "statistics"},
                         !.running = {q \in c.active : TypeOf[q] \in {"occlusion", "statistics"}}]
  <2>1. CASE c.xfbActive
    <3>1. c.types = {"occlusion", "statistics", "xfb"}
      BY <2>1 DEF Counting, CountedTypes
    <3>2. c.types \ {"xfb"} = {"occlusion", "statistics"}
      BY <3>1
    <3>3. c.running \ {q \in c.active : TypeOf[q] = "xfb"}
            = {q \in c.active : TypeOf[q] \in {"occlusion", "statistics"}}
      BY <3>1 DEF Counting
    <3> QED BY <2>1, <3>2, <3>3 DEF PauseTransformFeedback, EndQueries, Contexts
  <2>2. CASE ~c.xfbActive
    <3>1. c.types = {"occlusion", "statistics"}
      BY <2>2 DEF Counting, CountedTypes
    <3>2. c.running = {q \in c.active : TypeOf[q] \in {"occlusion", "statistics"}}
      BY <3>1 DEF Counting
    <3>3. c.xfbActive = FALSE
      BY <2>2 DEF Contexts
    <3> QED BY <2>2, <3>1, <3>2, <3>3 DEF PauseTransformFeedback, Contexts
  <2> QED BY <2>1, <2>2
<1> HIDE DEF paused
<1>4. ended = [c EXCEPT !.passBound = FALSE, !.xfbActive = FALSE, !.types = {}, !.running = {}]
  <2>1. EndQueries(paused, "occlusion")
          = [c EXCEPT !.passBound = FALSE, !.xfbActive = FALSE, !.types = {"statistics"},
                      !.running = {q \in c.active : TypeOf[q] = "statistics"}]
    <3>1. {"occlusion", "statistics"} \ {"occlusion"} = {"statistics"}
      OBVIOUS
    <3>2. {q \in c.active : TypeOf[q] \in {"occlusion", "statistics"}}
            \ {q \in c.active : TypeOf[q] = "occlusion"}
          = {q \in c.active : TypeOf[q] = "statistics"}
      OBVIOUS
    <3> QED BY <1>3, <3>1, <3>2 DEF EndQueries, Contexts
  <2>2. {"statistics"} \ {"statistics"} = {}
    OBVIOUS
  <2>3. {q \in c.active : TypeOf[q] = "statistics"}
          \ {q \in c.active : TypeOf[q] = "statistics"} = {}
    OBVIOUS
  <2> QED BY <2>1, <2>2, <2>3 DEF EndQueries, Contexts
<1> HIDE DEF ended
<1>5. d = [c EXCEPT !.passBound = FALSE, !.xfbActive = FALSE, !.types = {}, !.running = {},
                    !.open = NoFramebuffer, !.miscounted = c.miscounted \cup {},
                    !.pipeline = "none"]
  BY <1>4 DEF CmdEndRenderPass, Contexts
<1> HIDE DEF d
<1> QED BY <1>1, <1>2, <1>5

LEMMA EndBoundPassGood ==
    ASSUME NEW c, Good(c), ~c.clearTargets
    PROVE  LET d == EndBoundPass(c)
           IN  /\ Good(d)
               /\ Spilled(d)
               /\ d.content = c.content
               /\ d.ops = c.ops
               /\ d.targets = c.targets /\ d.framebuffer = c.framebuffer
               /\ d.dirtyFramebuffer = c.dirtyFramebuffer
               /\ d.active = c.active
<1>1. CASE ~c.passBound
  BY <1>1 DEF EndBoundPass, Spilled
<1>2. CASE c.passBound
  <2> DEFINE d == EndBoundPass(c)
  <2>1. c \in Contexts /\ Recording(c) /\ Counting(c)
    BY DEF Good
  <2>2. d = [c EXCEPT !.passBound = FALSE, !.xfbActive = FALSE, !.types = {}, !.running = {},
                      !.open = NoFramebuffer, !.miscounted = {}, !.pipeline = "none"]
    BY <1>2, <2>1, EndBoundPassUnfolded
  <2> HIDE DEF d
  <2>3. d \in Contexts
    BY <2>1, <2>2 DEF Contexts, Pipelines
  <2>4. Recording(d)
    BY <2>1, <2>2, ~c.clearTargets DEF Recording, Contexts
  <2>5. Counting(d)
    BY <2>1, <2>2 DEF Counting, CountedTypes, Contexts
  <2>6. /\ ~d.passBound /\ ~d.clearTargets
        /\ d.content = c.content
        /\ d.ops = c.ops
        /\ d.targets = c.targets /\ d.framebuffer = c.framebuffer
        /\ d.dirtyFramebuffer = c.dirtyFramebuffer
        /\ d.active = c.active
    BY <2>1, <2>2, ~c.clearTargets DEF Contexts
  <2> QED BY <2>3, <2>4, <2>5, <2>6 DEF Good, Spilled, d
<1> QED BY <1>1, <1>2

LEMMA SpillGood ==
    ASSUME NEW c, Good(c)
    PROVE  LET d == SpillRenderPass(c)
           IN  /\ Good(d)
               /\ Spilled(d)
               /\ d.content = Waiting(c)
               /\ d.ops = IF c.clearTargets THEN ResetRenderPassOps(c.targets) ELSE c.ops
               /\ d.targets = c.targets /\ d.framebuffer = c.framebuffer
               /\ d.dirtyFramebuffer = c.dirtyFramebuffer
               /\ d.active = c.active
<1> DEFINE b == ClearRenderPass(c)
<1>1. /\ Good(b) /\ ~b.clearTargets
      /\ b.content = Waiting(c)
      /\ b.ops = IF c.clearTargets THEN ResetRenderPassOps(c.targets) ELSE c.ops
      /\ b.targets = c.targets /\ b.framebuffer = c.framebuffer
      /\ b.dirtyFramebuffer = c.dirtyFramebuffer
      /\ b.active = c.active
  BY ClearRenderPassGood
<1> HIDE DEF b
<1>2. /\ Good(EndBoundPass(b)) /\ Spilled(EndBoundPass(b))
      /\ EndBoundPass(b).content = b.content
      /\ EndBoundPass(b).ops = b.ops
      /\ EndBoundPass(b).targets = b.targets /\ EndBoundPass(b).framebuffer = b.framebuffer
      /\ EndBoundPass(b).dirtyFramebuffer = b.dirtyFramebuffer
      /\ EndBoundPass(b).active = b.active
  BY <1>1, EndBoundPassGood
<1>3. SpillRenderPass(c) = EndBoundPass(b)
  BY DEF SpillRenderPass, b
<1> QED BY <1>1, <1>2, <1>3

(* Outside of waiting clears, attachments are loaded; a clear that waits      *)
(* discards an attachment only if it fills all its aspects.                   *)
OpsKept(c) ==
    /\ ~c.clearTargets => c.ops = ResetRenderPassOps(c.targets)
    /\ c.clearTargets =>
          \A s \in Slots : c.framebuffer[s] # NoView /\ c.ops[s].discard
                              => AspectsOf[c.framebuffer[s]] \subseteq c.ops[s].clear

LEMMA UpdateFramebufferGood ==
    ASSUME NEW c, Good(c)
    PROVE  LET d == UpdateFramebuffer(c)
           IN  /\ Good(d)
               /\ ~d.dirtyFramebuffer
               /\ Waiting(d) = Waiting(c)
               /\ OpsKept(c) => OpsKept(d)
               /\ d.targets = c.targets /\ d.active = c.active
<1>1. CASE ~c.dirtyFramebuffer
  BY <1>1 DEF UpdateFramebuffer
<1>2. CASE c.dirtyFramebuffer
  <2>1. c \in Contexts /\ Recording(c) /\ Counting(c)
    BY DEF Good
  <2>2. ~c.clearTargets /\ c.targets \in Targets
    BY <1>2, <2>1 DEF Recording
  <2> DEFINE b == [c EXCEPT !.dirtyFramebuffer = FALSE]
             d == [EndBoundPass(b) EXCEPT !.framebuffer = c.targets, !.pipeline = "none"]
  <2>3. UpdateFramebuffer(c) = d
    <3>1. ClearRenderPass(b) = b
      BY <2>1, <2>2 DEF ClearRenderPass, Contexts
    <3> QED BY <1>2, <3>1 DEF UpdateFramebuffer, SpillRenderPass
  <2>4. b \in Contexts /\ Counting(b)
    BY <2>1 DEF Counting, CountedTypes, Contexts
  <2>5. d = IF c.passBound
            THEN [c EXCEPT !.dirtyFramebuffer = FALSE, !.framebuffer = c.targets,
                           !.passBound = FALSE, !.xfbActive = FALSE, !.types = {}, !.running = {},
                           !.open = NoFramebuffer, !.miscounted = {}, !.pipeline = "none"]
            ELSE [c EXCEPT !.dirtyFramebuffer = FALSE, !.framebuffer = c.targets,
                           !.pipeline = "none"]
    <3>1. CASE c.passBound
      <4>1. b.passBound
        BY <2>1, <3>1 DEF Contexts
      <4>2. EndBoundPass(b) =
              [b EXCEPT !.passBound = FALSE, !.xfbActive = FALSE, !.types = {}, !.running = {},
                        !.open = NoFramebuffer, !.miscounted = {}, !.pipeline = "none"]
        BY <2>4, <4>1, EndBoundPassUnfolded
      <4>3. [[b EXCEPT !.passBound = FALSE, !.xfbActive = FALSE, !.types = {}, !.running = {},
                       !.open = NoFramebuffer, !.miscounted = {}, !.pipeline = "none"]
             EXCEPT !.framebuffer = c.targets, !.pipeline = "none"]
              = [c EXCEPT !.dirtyFramebuffer = FALSE, !.framebuffer = c.targets,
                          !.passBound = FALSE, !.xfbActive = FALSE, !.types = {}, !.running = {},
                          !.open = NoFramebuffer, !.miscounted = {}, !.pipeline = "none"]
        BY <2>1 DEF Contexts
      <4> QED BY <3>1, <4>2, <4>3
    <3>2. CASE ~c.passBound
      <4>1. EndBoundPass(b) = b
        BY <2>1, <3>2 DEF EndBoundPass, Contexts
      <4> QED BY <2>1, <3>2, <4>1 DEF Contexts
    <3> QED BY <3>1, <3>2
  <2> HIDE DEF d
  <2>6. d \in Contexts
    BY <2>1, <2>2, <2>5 DEF Contexts, Pipelines
  <2>7. Recording(d)
    BY <2>1, <2>2, <2>5 DEF Recording, Contexts
  <2>8. Counting(d)
    BY <2>1, <2>5 DEF Counting, CountedTypes, Contexts
  <2>9. /\ ~d.dirtyFramebuffer
        /\ ~d.clearTargets
        /\ d.content = c.content /\ d.ops = c.ops
        /\ d.targets = c.targets /\ d.active = c.active
    BY <2>1, <2>2, <2>5 DEF Contexts
  <2> QED BY <2>2, <2>3, <2>6, <2>7, <2>8, <2>9 DEF Good, Waiting, OpsKept
<1> QED BY <1>1, <1>2

(* The render pass carries out the clears that waited for it.                 *)
LEMMA StartRenderPassGood ==
    ASSUME NEW c, Good(c), ~c.dirtyFramebuffer
    PROVE  LET d == StartRenderPass(c)
           IN  /\ Good(d)
               /\ ~d.dirtyFramebuffer
               /\ d.passBound <=> d.framebuffer # NoFramebuffer
               /\ ~d.clearTargets
               /\ OpsKept(c) => OpsKept(d) /\ d.content = Waiting(c)
               /\ d.targets = c.targets /\ d.framebuffer = c.framebuffer
               /\ d.active = c.active
<1>1. c \in Contexts /\ Recording(c) /\ Counting(c)
  BY DEF Good
<1>2. CASE c.passBound \/ c.framebuffer = NoFramebuffer
  <2>1. StartRenderPass(c) = c
    BY <1>2 DEF StartRenderPass
  <2>2. ~c.clearTargets
    BY <1>1, <1>2 DEF Recording
  <2> QED BY <1>1, <1>2, <2>1, <2>2 DEF Waiting, Recording
<1>3. CASE ~c.passBound /\ c.framebuffer # NoFramebuffer
  <2> DEFINE new == Loaded(c.content, c.framebuffer, c.ops, c.clearValues)
             d == StartRenderPass(c)
  <2>1. c.framebuffer \in Targets /\ c.targets = c.framebuffer
        /\ c.framebuffer \in [Slots -> Views \cup {NoView}]
        /\ WellFormed(c.framebuffer)
    BY <1>1, <1>3, TargetsTyped DEF Contexts, Recording
  <2>2. c.open = NoFramebuffer /\ c.types = {} /\ c.running = {} /\ c.xfbActive = FALSE
    BY <1>1, <1>3 DEF Recording, Counting, CountedTypes, Contexts
  <2>3. new \in Images_Contents
    BY <1>1, <2>1, LoadedTyped DEF Contexts, Images_Contents
  <2> HIDE DEF new
  <2>4. d = [c EXCEPT !.passBound = TRUE, !.clearTargets = FALSE,
                      !.open = c.framebuffer, !.content = new,
                      !.ops = ResetRenderPassOps(c.targets),
                      !.types = {"occlusion", "statistics"},
                      !.running = {q \in c.active : TypeOf[q] \in {"occlusion", "statistics"}}]
    <3> DEFINE reset == [c EXCEPT !.passBound = TRUE, !.clearTargets = FALSE,
                                  !.open = c.framebuffer, !.content = new,
                                  !.ops = ResetRenderPassOps(c.targets)]
    <3>1. d = BeginQueries(BeginQueries(reset, "occlusion"), "statistics")
      BY <1>1, <1>3, <2>2 DEF StartRenderPass, CmdBeginRenderPass, Contexts, new
    <3>2. BeginQueries(reset, "occlusion")
            = [reset EXCEPT !.types = {"occlusion"},
                            !.running = {q \in c.active : TypeOf[q] = "occlusion"}]
      <4>1. {} \cup {q \in c.active : TypeOf[q] = "occlusion"}
              = {q \in c.active : TypeOf[q] = "occlusion"}
        OBVIOUS
      <4>2. {} \cup {"occlusion"} = {"occlusion"}
        OBVIOUS
      <4> QED BY <1>1, <2>2, <4>1, <4>2 DEF BeginQueries, Contexts
    <3>3. {q \in c.active : TypeOf[q] = "occlusion"} \cup {q \in c.active : TypeOf[q] = "statistics"}
            = {q \in c.active : TypeOf[q] \in {"occlusion", "statistics"}}
      OBVIOUS
    <3>4. {"occlusion"} \cup {"statistics"} = {"occlusion", "statistics"}
      OBVIOUS
    <3> DEFINE x == [reset EXCEPT !.types = {"occlusion"},
                                  !.running = {q \in c.active : TypeOf[q] = "occlusion"}]
    <3>5. /\ x.types = {"occlusion"} /\ x.active = c.active
          /\ x.running = {q \in c.active : TypeOf[q] = "occlusion"}
      BY <1>1 DEF Contexts
    <3>6. BeginQueries(x, "statistics")
            = [x EXCEPT !.types = {"occlusion", "statistics"},
                        !.running = {q \in c.active : TypeOf[q] \in {"occlusion", "statistics"}}]
      <4> HIDE DEF x
      <4> QED BY <3>3, <3>4, <3>5 DEF BeginQueries
    <3>7. BeginQueries(x, "statistics") = d
      BY <3>1, <3>2
    <3>8. [x EXCEPT !.types = {"occlusion", "statistics"},
                    !.running = {q \in c.active : TypeOf[q] \in {"occlusion", "statistics"}}]
            = [c EXCEPT !.passBound = TRUE, !.clearTargets = FALSE,
                      !.open = c.framebuffer, !.content = new,
                      !.ops = ResetRenderPassOps(c.targets),
                      !.types = {"occlusion", "statistics"},
                      !.running = {q \in c.active : TypeOf[q] \in {"occlusion", "statistics"}}]
      BY <1>1 DEF Contexts
    <3> QED BY <3>6, <3>7, <3>8
  <2> HIDE DEF d
  <2>5. d \in Contexts
    BY <1>1, <2>1, <2>3, <2>4, ResetTyped DEF Contexts, QueryTypes, Images_Contents
  <2>6. Recording(d)
    BY <1>1, <1>3, <2>1, <2>4, ~c.dirtyFramebuffer DEF Recording, Contexts
  <2>7. Counting(d)
    <3>1. d.xfbActive = FALSE /\ d.passBound = TRUE /\ d.miscounted = {}
          /\ d.types = {"occlusion", "statistics"}
      BY <1>1, <2>2, <2>4 DEF Contexts, Counting
    <3>2. d.running = {q \in d.active : TypeOf[q] \in {"occlusion", "statistics"}}
      BY <1>1, <2>4 DEF Contexts
    <3> QED BY <3>1, <3>2 DEF Counting, CountedTypes
  <2>8. /\ ~d.dirtyFramebuffer /\ d.passBound /\ ~d.clearTargets
        /\ d.ops = ResetRenderPassOps(d.targets)
        /\ d.content = new
        /\ d.targets = c.targets /\ d.framebuffer = c.framebuffer
        /\ d.active = c.active
    BY <1>1, <2>4, ~c.dirtyFramebuffer DEF Contexts
  <2>9. OpsKept(c) => new = Waiting(c)
    <3>1. CASE c.clearTargets
      BY <3>1 DEF Waiting, new
    <3>2. CASE ~c.clearTargets
      BY <1>1, <2>1, <3>2, LoadedReset DEF Waiting, OpsKept, new, Contexts, Images_Contents
    <3> QED BY <3>1, <3>2
  <2> QED BY <1>3, <2>5, <2>6, <2>7, <2>8, <2>9 DEF Good, OpsKept, d
<1> QED BY <1>2, <1>3

-------------------------------------------------------------------------------
(* The calls, one lemma for each: what they keep of the invariant for every   *)
(* set of targets.                                                           *)

LEMMA SpilledFacts ==
    ASSUME NEW c, Good(c), Spilled(c)
    PROVE  /\ c.open = NoFramebuffer /\ c.types = {} /\ c.running = {}
           /\ c.miscounted = {} /\ c.xfbActive = FALSE
           /\ Waiting(c) = c.content
BY DEF Good, Spilled, Recording, Counting, CountedTypes, Contexts, Waiting

(* New contents disturb nothing else.                                         *)
WithContent(c, new) == [c EXCEPT !.content = new]
InPass(c, fb, new) == [c EXCEPT !.open = fb, !.content = new]

LEMMA ContentGood ==
    ASSUME NEW c, NEW new \in Images_Contents, Good(c)
    PROVE  LET d == WithContent(c, new)
           IN  /\ Good(d)
               /\ d.content = new
               /\ d.clearTargets = c.clearTargets
               /\ OpsKept(c) => OpsKept(d)
               /\ ~c.clearTargets => Waiting(d) = new
<1> DEFINE d == [c EXCEPT !.content = new]
<1>1. c \in Contexts /\ Recording(c) /\ Counting(c)
  BY DEF Good
<1>2. d \in Contexts
  BY <1>1 DEF Contexts, Images_Contents
<1>3. Recording(d)
  BY <1>1 DEF Recording, Contexts
<1>4. Counting(d)
  BY <1>1 DEF Counting, CountedTypes, Contexts
<1>5. d.content = new /\ d.clearTargets = c.clearTargets
  BY <1>1 DEF Contexts
<1>6. OpsKept(c) => OpsKept(d)
  BY <1>1 DEF OpsKept, Contexts
<1> QED BY <1>2, <1>3, <1>4, <1>5, <1>6 DEF Good, Waiting, WithContent

LEMMA SpillKept ==
    ASSUME NEW c, Good(c)
    PROVE  /\ Good(SpillRenderPass(c)) /\ Spilled(SpillRenderPass(c))
           /\ SpillRenderPass(c).content = Waiting(c)
           /\ Waiting(SpillRenderPass(c)) = Waiting(c)
           /\ OpsKept(c) => OpsKept(SpillRenderPass(c))
<1>1. /\ Good(SpillRenderPass(c)) /\ Spilled(SpillRenderPass(c))
      /\ SpillRenderPass(c).content = Waiting(c)
      /\ SpillRenderPass(c).ops = IF c.clearTargets THEN ResetRenderPassOps(c.targets) ELSE c.ops
      /\ SpillRenderPass(c).targets = c.targets
  BY SpillGood
<1> QED BY <1>1 DEF Waiting, OpsKept, Spilled

(* A render pass of its own, between other commands.                          *)
TemporaryLoaded(content, v, ops, x) ==
    Loaded(content, TemporaryTargets(v), [s \in Slots |-> ops],
           [n \in Slots |-> [a \in Aspects |-> x]])

LEMMA TemporaryPassUnfolded ==
    ASSUME NEW c, NEW v \in Views, NEW ops, NEW x \in Values \cup {NoValue},
           Good(c), Spilled(c)
    PROVE  LET new == TemporaryLoaded(c.content, v, ops, x)
           IN  /\ TemporaryPass(c, v, ops, x) = InPass(c, TemporaryTargets(v), new)
               /\ CmdEndRenderPass(TemporaryPass(c, v, ops, x)) = WithContent(c, new)
               /\ new \in Images_Contents
<1> DEFINE new == Loaded(c.content, TemporaryTargets(v), [s \in Slots |-> ops],
                         [n \in Slots |-> [a \in Aspects |-> x]])
           d == [c EXCEPT !.open = TemporaryTargets(v), !.content = new]
<1>1. c \in Contexts /\ c.open = NoFramebuffer /\ c.running = {} /\ c.miscounted = {}
  BY SpilledFacts DEF Good
<1>2. TemporaryTargets(v) \in [Slots -> Views \cup {NoView}]
  BY TemporaryTargetsFormed DEF WellFormed
<1>3. new \in Images_Contents
  <2>1. [n \in Slots |-> [a \in Aspects |-> x]] \in [Slots -> [Aspects -> Values \cup {NoValue}]]
    OBVIOUS
  <2> QED BY <1>1, <1>2, <2>1, LoadedTyped DEF Contexts, Images_Contents
<1>4. TemporaryPass(c, v, ops, x) = d
  BY <1>1 DEF TemporaryPass, CmdBeginRenderPass, Contexts
<1> HIDE DEF new
<1>5. [d EXCEPT !.open = NoFramebuffer, !.miscounted = d.miscounted \cup d.running]
        = [c EXCEPT !.content = new]
  <2>1. {} \cup {} = {}
    OBVIOUS
  <2>2. d.miscounted = {} /\ d.running = {}
    BY <1>1 DEF Contexts
  <2> HIDE DEF d
  <2>3. d.miscounted \cup d.running = {}
    BY <2>1, <2>2
  <2> USE DEF d
  <2> QED BY <1>1, <2>3 DEF Contexts
<1>6. CmdEndRenderPass(TemporaryPass(c, v, ops, x)) = [c EXCEPT !.content = new]
  BY <1>4, <1>5 DEF CmdEndRenderPass
<1> QED BY <1>3, <1>4, <1>6 DEF new, TemporaryLoaded, WithContent, InPass

(* Clearing a whole view in a render pass of its own.                         *)
LEMMA TemporaryClear ==
    ASSUME NEW content \in Images_Contents, NEW v \in Views, NEW x \in Values \cup {NoValue},
           NEW aspects \in SUBSET AspectsOf[v]
    PROVE  LET ops == [clear |-> aspects, discard |-> aspects = AspectsOf[v]]
           IN  TemporaryLoaded(content, v, ops, x)
                 = Fill(content, ImageOf[v], aspects, Filled(x))
<1> DEFINE t == TemporaryTargets(v)
           ops == [s \in Slots |-> [clear |-> aspects, discard |-> aspects = AspectsOf[v]]]
           values == [n \in Slots |-> [a \in Aspects |-> x]]
           new == Loaded(content, t, ops, values)
           k == IF "color" \in AspectsOf[v] THEN 0 ELSE DepthSlot
<1>1. /\ WellFormed(t) /\ t \in [Slots -> Views \cup {NoView}]
      /\ k \in Slots /\ \A s \in Slots : t[s] = IF s = k THEN v ELSE NoView
  BY TemporaryTargetsFormed DEF WellFormed
<1>2. v # NoView
  BY RenderPassAssumption
<1> HIDE DEF t, k
<1>3. ASSUME NEW i \in Images, NEW a \in Aspects
      PROVE  new[i][a] = IF i = ImageOf[v] /\ a \in aspects THEN Filled(x) ELSE content[i][a]
  <2>1. CASE i = ImageOf[v] /\ a \in AspectsOf[v]
    <3>1. Shows(t, k, i, a)
      BY <1>1, <1>2, <2>1 DEF Shows
    <3>2. Attachment(t, k) \in Slots
      BY <1>1, AttachmentInSlots
    <3>3. new[i][a] = AtSlot(content, ops[k], values[Attachment(t, k)], i, a)
      <4>1. WellFormed(t) /\ k \in Slots
        BY <1>1
      <4> HIDE DEF ops, values
      <4> QED BY <4>1, <3>1, LoadedSlot
    <3>4. ops[k].clear = aspects /\ (ops[k].discard <=> aspects = AspectsOf[v])
      BY <1>1
    <3>5. values[Attachment(t, k)][a] = x
      BY <3>2
    <3> QED BY <2>1, <3>3, <3>4, <3>5 DEF AtSlot
  <2>2. CASE ~(i = ImageOf[v] /\ a \in AspectsOf[v])
    <3>1. \A s \in Slots : ~Shows(t, s, i, a)
      BY <1>1, <2>2 DEF Shows
    <3> QED BY <2>2, <3>1, LoadedElsewhere
  <2> QED BY <2>1, <2>2
<1>4. new = [i \in Images |-> [a \in Aspects |-> new[i][a]]]
  BY DEF Loaded
<1>5. Fill(content, ImageOf[v], aspects, Filled(x))
        = [i \in Images |-> [a \in Aspects |->
             IF i = ImageOf[v] /\ a \in aspects THEN Filled(x) ELSE content[i][a]]]
  BY DEF Fill, Images_Contents
<1>6. new = Fill(content, ImageOf[v], aspects, Filled(x))
  <2> HIDE DEF new
  <2> QED BY <1>3, <1>4, <1>5
<1> QED BY <1>6 DEF t, TemporaryLoaded

(* Two slots with a view have two attachment numbers.                         *)
LEMMA AttachmentsDiffer ==
    ASSUME NEW fb \in [Slots -> Views \cup {NoView}], NEW s \in Slots, NEW k \in Slots,
           s < k, fb[s] # NoView
    PROVE  Attachment(fb, s) # Attachment(fb, k)
<1> DEFINE A == {j \in Slots : j < s /\ fb[j] # NoView}
           B == {j \in Slots : j < k /\ fb[j] # NoView}
<1>1. IsFiniteSet(A) /\ IsFiniteSet(B)
  BY SlotsFinite, FS_Subset
<1>2. s \notin A /\ A \cup {s} \subseteq B
  <2>1. s \in Nat /\ k \in Nat
    BY SlotsFinite
  <2>2. \A j \in Slots : j \in Nat
    BY SlotsFinite
  <2>3. s \notin A /\ s \in B
    BY <2>1
  <2>4. ASSUME NEW j \in A PROVE j \in B
    BY <2>1, <2>2
  <2> QED BY <2>3, <2>4
<1>3. IsFiniteSet(A \cup {s}) /\ Cardinality(A \cup {s}) = Cardinality(A) + 1
  BY <1>1, <1>2, FS_AddElement
<1>4. Cardinality(A \cup {s}) <= Cardinality(B)
  BY <1>1, <1>2, FS_Subset
<1>5. Cardinality(A) \in Nat /\ Cardinality(B) \in Nat
  BY <1>1, FS_CardinalityType
<1>6. Cardinality(A) # Cardinality(B)
  BY <1>3, <1>4, <1>5
<1> QED BY <1>6 DEF Attachment

LEMMA AttachmentsUnique ==
    ASSUME NEW fb \in [Slots -> Views \cup {NoView}], NEW s \in Slots, NEW k \in Slots,
           fb[s] # NoView, fb[k] # NoView, s # k
    PROVE  Attachment(fb, s) # Attachment(fb, k)
<1>1. s < k \/ k < s
  BY SlotsFinite
<1> QED BY <1>1, AttachmentsDiffer

(* What the applications that the contents are kept for do not do: bind a     *)
(* colour target above an empty slot.                                        *)
GapFree ==
    \A t \in Targets : \A s, k \in Slots :
        s < k /\ k # DepthSlot /\ t[k] # NoView => t[s] # NoView

LEMMA AttachmentIsSlot ==
    ASSUME NEW fb \in Targets, NEW s \in Slots, GapFree, s # DepthSlot,
           fb[s] # NoView
    PROVE  Attachment(fb, s) = s
<1>1. s \in Nat /\ s <= ColorSlots /\ ColorSlots \in Nat
  BY RenderPassAssumption DEF Slots
<1>2. {k \in Slots : k < s /\ fb[k] # NoView} = 0 .. (s - 1)
  <2>1. \A k \in Slots : k < s => fb[k] # NoView
    BY DEF GapFree
  <2>2. {k \in Slots : k < s /\ fb[k] # NoView} = {k \in Slots : k < s}
    BY <2>1
  <2>3. {k \in Slots : k < s} = 0 .. (s - 1)
    BY <1>1 DEF Slots
  <2> QED BY <2>2, <2>3
<1>3. Cardinality(0 .. (s - 1)) = s
  <2>1. CASE s = 0
    <3>1. 0 .. (s - 1) = {}  BY <2>1
    <3> QED BY <3>1, <2>1, FS_EmptySet
  <2>2. CASE s > 0
    BY <1>1, <2>2, FS_Interval, 0 \in Int, s - 1 \in Int
  <2> QED BY <1>1, <2>1, <2>2
<1> QED BY <1>2, <1>3 DEF Attachment

(* The slot that a clear of an attached view names is the view's.             *)
LEMMA ClearedSlotIsBound ==
    ASSUME NEW fb \in Targets, NEW v \in Views, NEW aspects \in Clears(v),
           IsAttached(fb, v)
    PROVE  LET k == CHOOSE s \in Slots : fb[s] = v
               n == FindAttachment(fb, v)
           IN  /\ k \in Slots /\ fb[k] = v /\ fb[k] # NoView
               /\ n = Attachment(fb, k) /\ n \in Slots
               /\ "color" \in aspects <=> k # DepthSlot
               /\ ClearedSlot(n, aspects) \in Slots
               /\ GapFree => ClearedSlot(n, aspects) = k
<1> DEFINE k == CHOOSE s \in Slots : fb[s] = v
           n == FindAttachment(fb, v)
<1>1. k \in Slots /\ fb[k] = v /\ ("color" \in AspectsOf[v] <=> k # DepthSlot)
  BY SlotOfView
<1>2. fb \in [Slots -> Views \cup {NoView}]
  BY TargetsTyped
<1>3. v # NoView
  BY RenderPassAssumption
<1>4. n = Attachment(fb, k) /\ n \in Slots
  BY <1>1, <1>2, AttachmentInSlots DEF FindAttachment
<1>5. "color" \in aspects <=> "color" \in AspectsOf[v]
  <2>1. AspectsOf[v] \in {{"color"}, {"depth"}, {"depth", "stencil"}}
    BY RenderPassAssumption
  <2>2. aspects \subseteq AspectsOf[v] /\ aspects # {}
    BY DEF Clears
  <2> QED BY <2>1, <2>2
<1>6. ClearedSlot(n, aspects) \in Slots
  BY <1>4, SlotsFinite DEF ClearedSlot
<1>7. ASSUME GapFree PROVE ClearedSlot(n, aspects) = k
  <2>1. CASE k = DepthSlot
    BY <1>1, <1>5, <2>1 DEF ClearedSlot
  <2>2. CASE k # DepthSlot
    <3>1. Attachment(fb, k) = k
      BY <1>1, <1>3, <1>7, <2>2, AttachmentIsSlot
    <3> QED BY <1>1, <1>4, <1>5, <2>2, <3>1 DEF ClearedSlot
  <2> QED BY <2>1, <2>2
<1> QED BY <1>1, <1>3, <1>4, <1>5, <1>6, <1>7

(* A clear that waits for the next render pass keeps the rest of the state.   *)
LEMMA DeferClearGood ==
    ASSUME NEW c, NEW v \in Views, NEW aspects \in Clears(v),
           NEW x \in Values, Good(c), ~c.dirtyFramebuffer, ~c.passBound,
           IsAttached(c.framebuffer, v)
    PROVE  Good(DeferClear(c, v, aspects, x))
<1> DEFINE fb == c.framebuffer
           n == FindAttachment(fb, v)
           s == ClearedSlot(n, aspects)
           clear == IF "color" \in aspects THEN aspects ELSE c.ops[s].clear \cup aspects
           op == [clear   |-> clear,
                  discard |-> aspects = AspectsOf[v] \/ {"depth", "stencil"} \subseteq clear]
           value == [a \in Aspects |-> IF a \in aspects THEN x ELSE c.clearValues[n][a]]
           d == [c EXCEPT !.ops = [c.ops EXCEPT ![s] = op],
                          !.clearValues = [c.clearValues EXCEPT ![n] = value],
                          !.clearTargets = TRUE]
<1>1. c \in Contexts /\ Recording(c) /\ Counting(c)
  BY DEF Good
<1>2. fb \in Targets /\ fb # NoFramebuffer
  BY <1>1 DEF Contexts, IsAttached
<1>3. n \in Slots /\ s \in Slots
  BY <1>2, ClearedSlotIsBound
<1>4. DeferClear(c, v, aspects, x) = d
  BY <1>1 DEF DeferClear, Contexts
<1>5. op \in AttachmentOps
  <2>1. aspects \subseteq Aspects
    <3>1. AspectsOf[v] \in {{"color"}, {"depth"}, {"depth", "stencil"}}
      BY RenderPassAssumption
    <3> QED BY <3>1 DEF Clears, Aspects
  <2>2. c.ops[s].clear \subseteq Aspects
    BY <1>1, <1>3 DEF Contexts, AttachmentOps
  <2>3. clear \subseteq Aspects
    BY <2>1, <2>2
  <2> QED BY <2>3 DEF AttachmentOps
<1>6. value \in [Aspects -> Values \cup {NoValue}]
  BY <1>1, <1>3 DEF Contexts
<1> HIDE DEF op, value, s, n
<1>7. d \in Contexts
  BY <1>1, <1>3, <1>5, <1>6 DEF Contexts
<1>8. Recording(d)
  BY <1>1, <1>2, ~c.dirtyFramebuffer, ~c.passBound DEF Recording, Contexts
<1>9. Counting(d)
  BY <1>1 DEF Counting, CountedTypes, Contexts
<1> QED BY <1>4, <1>7, <1>8, <1>9 DEF Good

(* What the images will hold, and what that rests on, once a framebuffer is   *)
(* current: the operations on bound slots only discard what they clear.       *)
LEMMA WaitingLoaded ==
    ASSUME NEW c, Good(c), OpsKept(c), ~c.dirtyFramebuffer, c.framebuffer # NoFramebuffer
    PROVE  /\ Waiting(c) = Loaded(c.content, c.framebuffer, c.ops, c.clearValues)
           /\ \A s \in Slots : c.framebuffer[s] # NoView /\ c.ops[s].discard
                                  => AspectsOf[c.framebuffer[s]] \subseteq c.ops[s].clear
<1>1. c \in Contexts /\ Recording(c)
  BY DEF Good
<1>2. c.framebuffer \in Targets /\ c.targets = c.framebuffer /\ WellFormed(c.framebuffer)
  BY <1>1, TargetsTyped, ~c.dirtyFramebuffer DEF Recording, Contexts
<1>3. CASE c.clearTargets
  BY <1>3 DEF Waiting, OpsKept
<1>4. CASE ~c.clearTargets
  <2>1. c.ops = ResetRenderPassOps(c.framebuffer)
    BY <1>2, <1>4 DEF OpsKept
  <2>2. ASSUME NEW s \in Slots, c.framebuffer[s] # NoView PROVE ~c.ops[s].discard
    <3>1. ~ResetRenderPassOps(c.framebuffer)[s].discard
      BY <2>2 DEF ResetRenderPassOps
    <3> QED BY <2>1, <3>1
  <2>3. Loaded(c.content, c.framebuffer, c.ops, c.clearValues) = c.content
    BY <1>1, <1>2, <2>1, LoadedReset DEF Contexts, Images_Contents
  <2> QED BY <1>4, <2>2, <2>3 DEF Waiting
<1> QED BY <1>3, <1>4

(* A clear that waits adds to the clears that waited before it, and changes   *)
(* nothing else: other attachments have other slots and other numbers, and    *)
(* the aspects it does not clear are still loaded, or still cleared.          *)
LEMMA DeferClearKept ==
    ASSUME NEW c, NEW v \in Views, NEW aspects \in Clears(v),
           NEW x \in Values, GapFree, Good(c), OpsKept(c),
           ~c.dirtyFramebuffer, ~c.passBound, IsAttached(c.framebuffer, v)
    PROVE  LET d == DeferClear(c, v, aspects, x)
           IN  /\ OpsKept(d)
               /\ Waiting(d) = Fill(Waiting(c), ImageOf[v], aspects, Filled(x))
<1> DEFINE fb == c.framebuffer
           k == CHOOSE s \in Slots : fb[s] = v
           n == FindAttachment(fb, v)
           clear == IF "color" \in aspects THEN aspects ELSE c.ops[k].clear \cup aspects
           op == [clear   |-> clear,
                  discard |-> aspects = AspectsOf[v] \/ {"depth", "stencil"} \subseteq clear]
           value == [a \in Aspects |-> IF a \in aspects THEN x ELSE c.clearValues[n][a]]
           ops == [c.ops EXCEPT ![k] = op]
           values == [c.clearValues EXCEPT ![n] = value]
           d == DeferClear(c, v, aspects, x)
           i0 == ImageOf[v]
<1>1. c \in Contexts /\ Recording(c) /\ Counting(c)
  BY DEF Good
<1>2. fb \in Targets /\ fb # NoFramebuffer /\ WellFormed(fb) /\ fb \in [Slots -> Views \cup {NoView}]
  BY <1>1, TargetsTyped DEF Contexts, IsAttached
<1>3. /\ k \in Slots /\ fb[k] = v /\ fb[k] # NoView
      /\ n = Attachment(fb, k) /\ n \in Slots
      /\ "color" \in aspects <=> k # DepthSlot
      /\ ClearedSlot(n, aspects) = k
  BY <1>2, ClearedSlotIsBound
<1>4. d = [c EXCEPT !.ops = ops, !.clearValues = values, !.clearTargets = TRUE]
  BY <1>1, <1>3 DEF DeferClear, Contexts
<1>5. /\ d.ops = ops /\ d.clearValues = values /\ d.clearTargets
      /\ d.content = c.content /\ d.framebuffer = fb
  BY <1>1, <1>4 DEF Contexts
<1>6. Waiting(d) = Loaded(c.content, fb, ops, values)
  BY <1>5 DEF Waiting
<1>7. /\ ops[k] = op /\ \A j \in Slots : j # k => ops[j] = c.ops[j]
      /\ values[n] = value /\ \A m \in Slots : m # n => values[m] = c.clearValues[m]
  BY <1>1, <1>3 DEF Contexts
<1>8. /\ Waiting(c) = Loaded(c.content, fb, c.ops, c.clearValues)
      /\ \A j \in Slots : fb[j] # NoView /\ c.ops[j].discard
                              => AspectsOf[fb[j]] \subseteq c.ops[j].clear
  BY <1>2, WaitingLoaded
<1>9. /\ AspectsOf[v] \in {{"color"}, {"depth"}, {"depth", "stencil"}}
      /\ aspects \subseteq AspectsOf[v] /\ aspects # {}
      /\ i0 \in Images
  BY RenderPassAssumption DEF Clears, Images
<1>10. /\ aspects \subseteq clear
       /\ \A a \in AspectsOf[v] \ aspects : a \in clear <=> a \in c.ops[k].clear
       /\ op.discard => AspectsOf[v] \subseteq clear
  <2>1. CASE "color" \in aspects
    <3>1. aspects = {"color"} /\ AspectsOf[v] = {"color"}
      BY <1>9, <2>1
    <3>2. clear = {"color"}
      BY <2>1, <3>1
    <3> HIDE DEF clear
    <3> QED BY <3>1, <3>2
  <2>2. CASE "color" \notin aspects
    <3>1. AspectsOf[v] \subseteq {"depth", "stencil"}
      BY <1>9, <2>2
    <3>2. clear = c.ops[k].clear \cup aspects
      BY <2>2
    <3> HIDE DEF clear
    <3> QED BY <3>1, <3>2, <1>9
  <2> QED BY <2>1, <2>2
<1> HIDE DEF clear, value, d, n, k
<1>11. OpsKept(d)
  <2>1. ASSUME NEW j \in Slots, fb[j] # NoView, ops[j].discard
        PROVE  AspectsOf[fb[j]] \subseteq ops[j].clear
    <3>1. CASE j = k
      BY <1>3, <1>7, <1>10, <2>1, <3>1
    <3>2. CASE j # k
      BY <1>7, <1>8, <2>1, <3>2
    <3> QED BY <3>1, <3>2
  <2> HIDE DEF ops
  <2> QED BY <1>5, <2>1 DEF OpsKept
<1>12. ASSUME NEW i \in Images, NEW a \in Aspects
       PROVE  Loaded(c.content, fb, ops, values)[i][a]
                = IF i = i0 /\ a \in aspects THEN Filled(x) ELSE Waiting(c)[i][a]
  <2>1. CASE \E j \in Slots : Shows(fb, j, i, a)
    <3>1. PICK j \in Slots : Shows(fb, j, i, a)
      BY <2>1
    <3> DEFINE m == Attachment(fb, j)
    <3> HIDE DEF ops, values
    <3>2. m \in Slots /\ fb[j] # NoView /\ ImageOf[fb[j]] = i /\ a \in AspectsOf[fb[j]]
      BY <1>2, <3>1, AttachmentInSlots DEF Shows
    <3> HIDE DEF m
    <3>3. /\ Loaded(c.content, fb, ops, values)[i][a] = AtSlot(c.content, ops[j], values[m], i, a)
          /\ Waiting(c)[i][a] = AtSlot(c.content, c.ops[j], c.clearValues[m], i, a)
      <4>1. WellFormed(fb)
        BY <1>2
      <4>2. Waiting(c) = Loaded(c.content, fb, c.ops, c.clearValues)
        BY <1>8
      <4> HIDE DEF fb
      <4>3. m = Attachment(fb, j)
        BY DEF m
      <4>4. ASSUME NEW b, NEW o, NEW w
            PROVE  Loaded(b, fb, o, w)[i][a] = AtSlot(b, o[j], w[m], i, a)
        <5>1. Shows(fb, j, i, a)
          BY <3>1
        <5>2. Loaded(b, fb, o, w)[i][a] = AtSlot(b, o[j], w[Attachment(fb, j)], i, a)
          BY ONLY <5>1, <4>1, LoadedSlot, j \in Slots, i \in Images, a \in Aspects
        <5> QED BY <4>3, <5>2
      <4> QED BY <4>2, <4>4
    <3>4. CASE j # k
      <4>1. m # n
        BY <1>2, <1>3, <3>2, <3>4, AttachmentsUnique DEF m
      <4>2. i # i0
        BY <1>2, <1>3, <3>2, <3>4 DEF WellFormed
      <4>3. ops[j] = c.ops[j] /\ values[m] = c.clearValues[m]
        BY <1>7, <3>2, <3>4, <4>1
      <4> QED BY <3>3, <4>2, <4>3
    <3>5. CASE j = k
      <4>1. i = i0 /\ m = n /\ a \in AspectsOf[v] /\ ops[j] = op
            /\ values[m] = value
        BY <1>3, <1>7, <3>2, <3>5 DEF m
      <4>2. op.clear = clear
        OBVIOUS
      <4> HIDE DEF op
      <4>3. CASE a \in aspects
        <5>1. values[m][a] = x
          BY <4>1, <4>3 DEF value
        <5> QED BY <1>10, <3>3, <4>1, <4>2, <4>3, <5>1 DEF AtSlot
      <4>4. CASE a \notin aspects
        <5>1. values[m][a] = c.clearValues[m][a]
          BY <4>1, <4>4 DEF value
        <5>2. a \in clear <=> a \in c.ops[j].clear
          BY <1>10, <3>5, <4>1, <4>4
        <5>3. ~(a \in clear) => ~op.discard /\ ~c.ops[j].discard
          BY <1>3, <1>8, <1>10, <3>5, <4>1, <5>2
        <5> QED BY <3>3, <4>1, <4>2, <4>4, <5>1, <5>2, <5>3 DEF AtSlot
      <4> QED BY <4>3, <4>4
    <3> QED BY <3>4, <3>5
  <2>2. CASE \A j \in Slots : ~Shows(fb, j, i, a)
    <3>1. ~(i = i0 /\ a \in aspects)
      BY <1>3, <1>9, <2>2 DEF Shows
    <3>2. /\ Loaded(c.content, fb, ops, values)[i][a] = c.content[i][a]
          /\ Waiting(c)[i][a] = c.content[i][a]
      BY <1>8, <2>2, LoadedElsewhere
    <3> QED BY <3>1, <3>2
  <2> QED BY <2>1, <2>2
<1>13. Waiting(d) = Fill(Waiting(c), i0, aspects, Filled(x))
  <2> DEFINE new == Loaded(c.content, fb, ops, values)
  <2>1. new = [i \in Images |-> [a \in Aspects |-> new[i][a]]]
    BY DEF Loaded
  <2>2. Waiting(c) = [i \in Images |-> [a \in Aspects |-> Waiting(c)[i][a]]]
    BY <1>8 DEF Loaded
  <2>3. Fill(Waiting(c), i0, aspects, Filled(x))
          = [i \in Images |-> [a \in Aspects |->
               IF i = i0 /\ a \in aspects THEN Filled(x) ELSE Waiting(c)[i][a]]]
    <3> DEFINE w == Waiting(c)
    <3> HIDE DEF w
    <3>1. w = [i \in Images |-> [a \in Aspects |-> w[i][a]]]
      BY <2>2 DEF w
    <3>2. Fill(w, i0, aspects, Filled(x))
            = [i \in Images |-> [a \in Aspects |->
                 IF i = i0 /\ a \in aspects THEN Filled(x) ELSE w[i][a]]]
      BY <3>1 DEF Fill
    <3> QED BY <3>2 DEF w
  <2> HIDE DEF new
  <2>4. new = [i \in Images |-> [a \in Aspects |->
                 IF i = i0 /\ a \in aspects THEN Filled(x) ELSE Waiting(c)[i][a]]]
    <3>1. \A i \in Images : \A a \in Aspects :
             new[i][a] = IF i = i0 /\ a \in aspects THEN Filled(x) ELSE Waiting(c)[i][a]
      BY <1>12 DEF new
    <3> QED BY <2>1, <3>1
  <2>5. new = Fill(Waiting(c), i0, aspects, Filled(x))
    BY <2>3, <2>4
  <2> QED BY <1>6, <2>5 DEF new
<1> QED BY <1>11, <1>13 DEF d

-------------------------------------------------------------------------------
(* The invariant. Safe holds for every set of targets; Kept needs targets     *)
(* without gaps: what waits, together with what is recorded, is expected.     *)

Safe(c, e) == Good(c) /\ e \in Images_Contents

Kept(c, e) == OpsKept(c) /\ Waiting(c) = e

LEMMA BindKept ==
    ASSUME NEW t \in Targets, NEW spill \in BOOLEAN, Good(ctx), BindRenderTargets(t, spill)
    PROVE  Good(ctx') /\ OpsKept(ctx') /\ Waiting(ctx') = Waiting(ctx)
<1> DEFINE b == ClearRenderPass(ctx)
           dirty == b.framebuffer # t
           d == [b EXCEPT !.targets = t, !.ops = ResetRenderPassOps(t), !.dirtyFramebuffer = dirty]
<1>1. Good(b) /\ ~b.clearTargets /\ b.content = Waiting(ctx)
  BY ClearRenderPassGood
<1>2. b \in Contexts /\ Recording(b) /\ Counting(b)
  BY <1>1 DEF Good
<1>3. t \in [Slots -> Views \cup {NoView}] /\ dirty \in BOOLEAN
  BY TargetsTyped
<1>4. dirty <=> b.framebuffer # t
  OBVIOUS
<1>5. ctx' = IF spill THEN SpillRenderPass(d) ELSE d
  BY DEF BindRenderTargets
<1> HIDE DEF b, dirty
<1>6. d \in Contexts
  BY <1>2, <1>3, ResetTyped DEF Contexts
<1>7. /\ d.targets = t /\ d.ops = ResetRenderPassOps(t) /\ d.dirtyFramebuffer = dirty
      /\ d.framebuffer = b.framebuffer /\ d.passBound = b.passBound /\ d.open = b.open
      /\ d.clearTargets = b.clearTargets /\ d.content = b.content
      /\ d.xfbActive = b.xfbActive /\ d.types = b.types /\ d.running = b.running
      /\ d.active = b.active /\ d.miscounted = b.miscounted
  BY <1>2 DEF Contexts
<1> HIDE DEF d
<1>8. Recording(d)
  BY <1>1, <1>2, <1>4, <1>7 DEF Recording
<1>9. Counting(d)
  BY <1>2, <1>7 DEF Counting, CountedTypes
<1>10. Good(d) /\ OpsKept(d) /\ Waiting(d) = Waiting(ctx)
  BY <1>1, <1>6, <1>7, <1>8, <1>9 DEF Good, OpsKept, Waiting
<1>11. /\ Good(SpillRenderPass(d)) /\ OpsKept(SpillRenderPass(d))
       /\ Waiting(SpillRenderPass(d)) = Waiting(ctx)
  BY <1>10, SpillKept
<1> QED BY <1>5, <1>10, <1>11

(* A clear inside the render pass that is open.                               *)
LEMMA ClearAttachmentsGood ==
    ASSUME NEW c, NEW v \in Views, NEW aspects \in Clears(v),
           NEW x \in Values \cup {NoValue}, Good(c), ~c.dirtyFramebuffer, c.passBound,
           IsAttached(c.framebuffer, v)
    PROVE  LET n == FindAttachment(c.framebuffer, v)
               d == CmdClearAttachments(c, n, aspects, x)
               r == CmdClearRect(c, n, aspects)
           IN  /\ Good(d) /\ Good(r)
               /\ GapFree => d = WithContent(c, Fill(c.content, ImageOf[v], aspects, Filled(x)))
               /\ GapFree => r = WithContent(c, Touch(c.content, ImageOf[v], aspects))
<1> DEFINE n == FindAttachment(c.framebuffer, v)
           s == ClearedSlot(n, aspects)
<1>1. c \in Contexts /\ Recording(c)
  BY DEF Good
<1>2. c.framebuffer \in Targets /\ c.framebuffer # NoFramebuffer /\ c.open = c.framebuffer
      /\ c.framebuffer \in [Slots -> Views \cup {NoView}]
  BY <1>1, TargetsTyped DEF Contexts, Recording
<1>3. s \in Slots /\ (GapFree => c.framebuffer[s] = v /\ v # NoView)
  BY <1>2, ClearedSlotIsBound, RenderPassAssumption
<1>4. c.content \in Images_Contents
  BY <1>1 DEF Contexts, Images_Contents
<1> DEFINE i == ImageOf[c.open[s]]
<1>5. c.open[s] # NoView => i \in Images
  BY <1>2, <1>3 DEF Images
<1>6. CmdClearAttachments(c, n, aspects, x) =
        IF c.open[s] = NoView THEN c
        ELSE WithContent(c, Fill(c.content, i, aspects, Filled(x)))
  BY <1>1, <1>2 DEF CmdClearAttachments, WithContent, Contexts
<1>7. CmdClearRect(c, n, aspects) =
        IF c.open[s] = NoView THEN c
        ELSE WithContent(c, Touch(c.content, i, aspects))
  BY <1>1, <1>2 DEF CmdClearRect, WithContent, Contexts
<1>8. c.open[s] # NoView =>
        /\ Fill(c.content, i, aspects, Filled(x)) \in Images_Contents
        /\ Touch(c.content, i, aspects) \in Images_Contents
  BY <1>4, <1>5, FillTyped, TouchTyped
<1> HIDE DEF n, s
<1>9. Good(CmdClearAttachments(c, n, aspects, x))
  BY <1>6, <1>8, ContentGood
<1>10. Good(CmdClearRect(c, n, aspects))
  BY <1>7, <1>8, ContentGood
<1> QED BY <1>2, <1>3, <1>6, <1>7, <1>9, <1>10 DEF n

LEMMA ImageOfView ==
    ASSUME NEW v \in Views, NEW aspects \in Clears(v)
    PROVE  ImageOf[v] \in Images /\ aspects \in SUBSET AspectsOf[v]
BY DEF Images, Clears

LEMMA ClearTargetKept ==
    ASSUME NEW v \in Views, NEW aspects \in Clears(v), NEW x \in Values,
           Good(ctx), ClearRenderTarget(v, aspects, x)
    PROVE  /\ Good(ctx')
           /\ GapFree /\ OpsKept(ctx) =>
                 /\ OpsKept(ctx')
                 /\ Waiting(ctx') = Fill(Waiting(ctx), ImageOf[v], aspects, Filled(x))
<1> DEFINE c == UpdateFramebuffer(ctx)
           ops == [clear |-> aspects, discard |-> aspects = AspectsOf[v]]
           n == FindAttachment(c.framebuffer, v)
<1>1. /\ Good(c) /\ ~c.dirtyFramebuffer
      /\ Waiting(c) = Waiting(ctx)
      /\ OpsKept(ctx) => OpsKept(c)
  BY UpdateFramebufferGood
<1>2. \/ /\ ~IsAttached(c.framebuffer, v)
         /\ ctx' = CmdEndRenderPass(TemporaryPass(SpillRenderPass(c), v, ops, x))
      \/ /\ IsAttached(c.framebuffer, v)
         /\ c.passBound
         /\ ctx' = CmdClearAttachments(c, n, aspects, x)
      \/ /\ IsAttached(c.framebuffer, v)
         /\ ~c.passBound
         /\ ctx' = DeferClear(c, v, aspects, x)
  BY DEF ClearRenderTarget
<1> HIDE DEF c, ops, n
<1>3. CASE ~IsAttached(c.framebuffer, v)
  <2> DEFINE s == SpillRenderPass(c)
             new == Fill(Waiting(ctx), ImageOf[v], aspects, Filled(x))
  <2>1. /\ Good(s) /\ Spilled(s) /\ s.content = Waiting(ctx)
        /\ OpsKept(ctx) => OpsKept(s)
    BY <1>1, SpillKept
  <2>2. s.content \in Images_Contents
    BY <2>1 DEF Good, Contexts, Images_Contents
  <2>3. ctx' = CmdEndRenderPass(TemporaryPass(s, v, ops, x))
    BY <1>2, <1>3
  <2> HIDE DEF s
  <2>4. x \in Values \cup {NoValue} /\ aspects \in SUBSET AspectsOf[v]
    BY ImageOfView
  <2>5. TemporaryLoaded(s.content, v, ops, x) = new
    BY <2>1, <2>2, <2>4, TemporaryClear DEF ops
  <2>6. ctx' = WithContent(s, new) /\ new \in Images_Contents
    <3> DEFINE l == TemporaryLoaded(s.content, v, ops, x)
    <3>1. CmdEndRenderPass(TemporaryPass(s, v, ops, x)) = WithContent(s, l) /\ l \in Images_Contents
      BY <2>1, <2>4, TemporaryPassUnfolded
    <3> QED BY <2>3, <2>5, <3>1
  <2> HIDE DEF new
  <2>7. ~s.clearTargets
    BY <2>1 DEF Spilled
  <2>8. Good(ctx') /\ (OpsKept(s) => OpsKept(ctx')) /\ Waiting(ctx') = new
    BY <2>1, <2>6, <2>7, ContentGood
  <2> QED BY <2>1, <2>8 DEF new
<1>4. CASE IsAttached(c.framebuffer, v) /\ c.passBound
  <2>1. ctx' = CmdClearAttachments(c, n, aspects, x)
    BY <1>2, <1>4
  <2>2. /\ Good(ctx')
        /\ GapFree => ctx' = WithContent(c, Fill(c.content, ImageOf[v], aspects, Filled(x)))
    BY <1>1, <1>4, <2>1, ClearAttachmentsGood DEF n
  <2>3. ~c.clearTargets /\ Waiting(c) = c.content /\ c.content \in Images_Contents
    BY <1>1, <1>4 DEF Good, Recording, Waiting, Contexts, Images_Contents
  <2> DEFINE new == Fill(c.content, ImageOf[v], aspects, Filled(x))
  <2>4. new \in Images_Contents
    BY <2>3, ImageOfView, FillTyped
  <2>5. new = Fill(Waiting(ctx), ImageOf[v], aspects, Filled(x))
    BY <1>1, <2>3
  <2> HIDE DEF new
  <2>6. GapFree => (OpsKept(c) => OpsKept(ctx')) /\ Waiting(ctx') = new
    BY <1>1, <2>2, <2>3, <2>4, ContentGood DEF new
  <2> QED BY <1>1, <2>2, <2>5, <2>6
<1>5. CASE IsAttached(c.framebuffer, v) /\ ~c.passBound
  <2>1. ctx' = DeferClear(c, v, aspects, x)
    BY <1>2, <1>5
  <2> QED BY <1>1, <1>5, <2>1, DeferClearGood, DeferClearKept
<1> QED BY <1>3, <1>4, <1>5

(* A render pass of its own that only loads leaves everything as it was.      *)
LEMMA TemporaryLoad ==
    ASSUME NEW content \in Images_Contents, NEW v \in Views
    PROVE  TemporaryLoaded(content, v, [clear |-> {}, discard |-> FALSE], NoValue) = content
<1>1. ({} = AspectsOf[v]) = FALSE
  <2>1. AspectsOf[v] \in {{"color"}, {"depth"}, {"depth", "stencil"}}
    BY RenderPassAssumption
  <2> QED BY <2>1
<1>2. TemporaryLoaded(content, v, [clear |-> {}, discard |-> {} = AspectsOf[v]], NoValue)
        = Fill(content, ImageOf[v], {}, Filled(NoValue))
  BY TemporaryClear
<1>3. Fill(content, ImageOf[v], {}, Filled(NoValue)) = content
  BY DEF Fill, Images_Contents
<1> QED BY <1>1, <1>2, <1>3

LEMMA ClearRectTemporary ==
    ASSUME NEW c, NEW v \in Views, NEW aspects \in Clears(v), Good(c),
           Spilled(c)
    PROVE  LET load == [clear |-> {}, discard |-> FALSE]
               new == Touch(c.content, ImageOf[v], aspects)
           IN  /\ CmdEndRenderPass(CmdClearRect(
                      TemporaryPass(c, v, load, NoValue), 0, aspects))
                    = WithContent(c, new)
               /\ new \in Images_Contents
<1> DEFINE load == [clear |-> {}, discard |-> FALSE]
           t == TemporaryTargets(v)
           k == IF "color" \in AspectsOf[v] THEN 0 ELSE DepthSlot
           new == Touch(c.content, ImageOf[v], aspects)
           d == [c EXCEPT !.open = t, !.content = c.content]
           e == [c EXCEPT !.open = t, !.content = new]
<1>1. /\ c \in Contexts /\ c.open = NoFramebuffer /\ c.running = {} /\ c.miscounted = {}
      /\ c.content \in Images_Contents
  BY SpilledFacts DEF Good, Contexts, Images_Contents
<1>2. TemporaryPass(c, v, load, NoValue) = d
  <2>1. TemporaryLoaded(c.content, v, load, NoValue) = c.content
    BY <1>1, TemporaryLoad
  <2> HIDE DEF load
  <2>2. NoValue \in Values \cup {NoValue}
    OBVIOUS
  <2> DEFINE l == TemporaryLoaded(c.content, v, load, NoValue)
  <2>3. TemporaryPass(c, v, load, NoValue) = InPass(c, TemporaryTargets(v), l)
    BY <2>2, TemporaryPassUnfolded
  <2> HIDE DEF l
  <2> QED BY <2>1, <2>3 DEF l, InPass
<1>3. t # NoFramebuffer /\ k \in Slots /\ t[k] = v /\ v # NoView
  BY TemporaryTargetsFormed, RenderPassAssumption
<1>4. ClearedSlot(0, aspects) = k
  <2>1. AspectsOf[v] \in {{"color"}, {"depth"}, {"depth", "stencil"}}
    BY RenderPassAssumption
  <2>2. aspects \subseteq AspectsOf[v] /\ aspects # {}
    BY DEF Clears
  <2>3. "color" \in aspects <=> "color" \in AspectsOf[v]
    BY <2>1, <2>2
  <2> QED BY <2>3 DEF ClearedSlot
<1>5. new \in Images_Contents
  BY <1>1, ImageOfView, TouchTyped
<1> HIDE DEF t, k, load
<1>6. d.open = t /\ d.content = c.content
  BY <1>1 DEF Contexts
<1>7. CmdClearRect(d, 0, aspects) = [d EXCEPT !.content = new]
  <2> HIDE DEF d
  <2>1. d.open # NoFramebuffer /\ d.open[ClearedSlot(0, aspects)] = v
    BY <1>3, <1>4, <1>6
  <2> QED BY <1>3, <1>6, <2>1 DEF CmdClearRect
<1> HIDE DEF new
<1>8. [d EXCEPT !.content = new] = e
  BY <1>1 DEF Contexts
<1>9. CmdEndRenderPass(e) = [c EXCEPT !.content = new]
  <2>1. {} \cup {} = {}
    OBVIOUS
  <2>2. e.miscounted = {} /\ e.running = {}
    BY <1>1 DEF Contexts
  <2>3. CmdEndRenderPass(e) = [e EXCEPT !.open = NoFramebuffer, !.miscounted = {}]
    <3> HIDE DEF e
    <3> QED BY <2>1, <2>2 DEF CmdEndRenderPass
  <2>4. [e EXCEPT !.open = NoFramebuffer, !.miscounted = {}] = [c EXCEPT !.content = new]
    BY <1>1 DEF Contexts
  <2> QED BY <2>3, <2>4
<1> QED BY <1>2, <1>5, <1>7, <1>8, <1>9 DEF load, new, WithContent

LEMMA ClearViewKept ==
    ASSUME NEW v \in Views, NEW aspects \in Clears(v), Good(ctx), ClearImageView(v, aspects)
    PROVE  /\ Good(ctx')
           /\ GapFree /\ OpsKept(ctx) =>
                 /\ OpsKept(ctx')
                 /\ Waiting(ctx') = Touch(Waiting(ctx), ImageOf[v], aspects)
<1> DEFINE c == UpdateFramebuffer(ctx)
           load == [clear |-> {}, discard |-> FALSE]
<1>1. /\ Good(c) /\ ~c.dirtyFramebuffer
      /\ Waiting(c) = Waiting(ctx)
      /\ OpsKept(ctx) => OpsKept(c)
  BY UpdateFramebufferGood
<1>2. \/ /\ ~IsAttached(c.framebuffer, v)
         /\ ctx' = CmdEndRenderPass(CmdClearRect(
                       TemporaryPass(SpillRenderPass(c), v, load, NoValue), 0, aspects))
      \/ /\ IsAttached(c.framebuffer, v)
         /\ ctx' = CmdClearRect(StartRenderPass(c), FindAttachment(c.framebuffer, v), aspects)
  BY DEF ClearImageView
<1> HIDE DEF c
<1>3. CASE ~IsAttached(c.framebuffer, v)
  <2> DEFINE s == SpillRenderPass(c)
             new == Touch(Waiting(ctx), ImageOf[v], aspects)
  <2>1. /\ Good(s) /\ Spilled(s) /\ s.content = Waiting(ctx)
        /\ OpsKept(ctx) => OpsKept(s)
    BY <1>1, SpillKept
  <2>2. ctx' = CmdEndRenderPass(CmdClearRect(TemporaryPass(s, v, load, NoValue), 0, aspects))
    BY <1>2, <1>3
  <2> HIDE DEF s
  <2>3. ctx' = WithContent(s, new) /\ new \in Images_Contents
    BY <2>1, <2>2, ClearRectTemporary
  <2> HIDE DEF new
  <2>4. ~s.clearTargets
    BY <2>1 DEF Spilled
  <2>5. Good(ctx') /\ (OpsKept(s) => OpsKept(ctx')) /\ Waiting(ctx') = new
    BY <2>1, <2>3, <2>4, ContentGood
  <2> QED BY <2>1, <2>5 DEF new
<1>4. CASE IsAttached(c.framebuffer, v)
  <2> DEFINE s == StartRenderPass(c)
             new == Touch(Waiting(ctx), ImageOf[v], aspects)
  <2>1. /\ Good(s) /\ ~s.dirtyFramebuffer /\ ~s.clearTargets
        /\ s.framebuffer = c.framebuffer
        /\ s.passBound <=> s.framebuffer # NoFramebuffer
        /\ OpsKept(c) => OpsKept(s) /\ s.content = Waiting(c)
    BY <1>1, StartRenderPassGood
  <2>2. s.passBound
    BY <1>4, <2>1 DEF IsAttached
  <2>3. ctx' = CmdClearRect(s, FindAttachment(s.framebuffer, v), aspects)
    BY <1>2, <1>4, <2>1
  <2> HIDE DEF s
  <2>4. /\ Good(ctx')
        /\ GapFree => ctx' = WithContent(s, Touch(s.content, ImageOf[v], aspects))
    <3>1. NoValue \in Values \cup {NoValue} /\ IsAttached(s.framebuffer, v)
      BY <1>4, <2>1
    <3> QED BY <2>1, <2>2, <2>3, <3>1, ClearAttachmentsGood
  <2>5. s.content \in Images_Contents
    BY <2>1 DEF Good, Contexts, Images_Contents
  <2>6. Touch(s.content, ImageOf[v], aspects) \in Images_Contents
    BY <2>5, ImageOfView, TouchTyped
  <2>7. GapFree => (OpsKept(s) => OpsKept(ctx')) /\ Waiting(ctx') = Touch(s.content, ImageOf[v], aspects)
    BY <2>1, <2>4, <2>6, ContentGood
  <2> QED BY <1>1, <2>1, <2>4, <2>7
<1> QED BY <1>3, <1>4

(* Copies and other writes between render passes.                             *)
LEMMA SpilledWrite ==
    ASSUME NEW i \in Images, NEW aspects, NEW x \in Values \cup {NoValue},
           Good(ctx), Transfer(i, aspects, x)
    PROVE  /\ Good(ctx')
           /\ OpsKept(ctx) => OpsKept(ctx')
           /\ Waiting(ctx') = Fill(Waiting(ctx), i, aspects, Filled(x))
<1> DEFINE s == SpillRenderPass(ctx)
           new == Fill(Waiting(ctx), i, aspects, Filled(x))
<1>1. /\ Good(s) /\ Spilled(s) /\ s.content = Waiting(ctx)
      /\ OpsKept(ctx) => OpsKept(s)
  BY SpillKept
<1>2. s.open = NoFramebuffer /\ s.content \in Images_Contents /\ s \in Contexts
  BY <1>1, SpilledFacts DEF Good, Contexts, Images_Contents
<1>3. ctx' = CmdCopy(s, i, aspects, x)
  BY DEF Transfer
<1> HIDE DEF s
<1>4. new \in Images_Contents
  BY <1>1, <1>2, FillTyped
<1>5. ctx' = WithContent(s, new)
  BY <1>1, <1>2, <1>3 DEF CmdCopy, WithContent, Contexts
<1>6. ~s.clearTargets
  BY <1>1 DEF Spilled
<1> HIDE DEF new
<1>7. Good(ctx') /\ (OpsKept(s) => OpsKept(ctx')) /\ Waiting(ctx') = new
  BY <1>1, <1>4, <1>5, <1>6, ContentGood
<1> QED BY <1>1, <1>7 DEF new

(* A compute shader runs between render passes, and statistics count it.      *)
LEMMA DispatchKept ==
    ASSUME NEW i \in Images, NEW aspects, Good(ctx), Dispatch(i, aspects)
    PROVE  /\ Good(ctx')
           /\ OpsKept(ctx) => OpsKept(ctx')
           /\ Waiting(ctx') = Touch(Waiting(ctx), i, aspects)
<1> DEFINE s == IF ctx.passBound THEN SpillRenderPass(ctx) ELSE ctx
           d == ClearRenderPass(s)
           b == BeginQueries(d, "statistics")
           w == CmdDispatch(b, i, aspects)
           new == Touch(Waiting(ctx), i, aspects)
           counted == {q \in d.active : TypeOf[q] = "statistics"}
<1>1. /\ Good(s) /\ ~s.passBound /\ Waiting(s) = Waiting(ctx)
      /\ OpsKept(ctx) => OpsKept(s)
  BY SpillKept DEF Spilled
<1>2. ctx' = EndQueries(w, "statistics")
  BY DEF Dispatch
<1> HIDE DEF s
<1>3. /\ Good(d) /\ Spilled(d) /\ d.content = Waiting(ctx)
      /\ OpsKept(s) => OpsKept(d)
  BY <1>1, ClearRenderPassGood DEF Spilled, OpsKept
<1>4. /\ d \in Contexts /\ d.open = NoFramebuffer /\ d.types = {} /\ d.running = {}
      /\ d.miscounted = {} /\ d.content \in Images_Contents /\ ~d.clearTargets
  BY <1>3, SpilledFacts DEF Good, Contexts, Images_Contents, Spilled
<1> HIDE DEF d
<1>5. new \in Images_Contents
  BY <1>3, <1>4, TouchTyped
<1>6. b = [d EXCEPT !.types = {"statistics"}, !.running = counted]
  <2>1. {} \cup {"statistics"} = {"statistics"} /\ {} \cup counted = counted
    OBVIOUS
  <2> HIDE DEF counted
  <2>2. BeginQueries(d, "statistics")
          = [d EXCEPT !.types = d.types \cup {"statistics"}, !.running = d.running \cup counted]
    BY <1>4 DEF BeginQueries, Contexts, counted
  <2> QED BY <1>4, <2>1, <2>2
<1>7. /\ b.open = NoFramebuffer /\ b.content = d.content /\ b.running = counted
      /\ b.active = d.active /\ b.miscounted = {}
  BY <1>4, <1>6 DEF Contexts
<1>8. Miscounts(b, "dispatch") = {}
  <2>1. ASSUME NEW q \in Queries, Counts(q, "dispatch")
        PROVE  (q \in b.active) = (q \in b.running)
    <3>1. TypeOf[q] = "statistics"
      <4>1. TypeOf[q] \in QueryTypes
        BY RenderPassAssumption
      <4> QED BY <2>1, <4>1 DEF Counts, QueryTypes
    <3> QED BY <1>7, <3>1
  <2> HIDE DEF b
  <2> QED BY <2>1 DEF Miscounts
<1>9. w = [d EXCEPT !.types = {"statistics"}, !.running = counted, !.content = new]
  <2>1. {} \cup {} = {}
    OBVIOUS
  <2>2. CmdDispatch(b, i, aspects) = [b EXCEPT !.content = new, !.miscounted = {}]
    <3> HIDE DEF b, new
    <3>1. new = Touch(b.content, i, aspects)
      BY <1>3, <1>7 DEF new
    <3> QED BY <1>7, <1>8, <2>1, <3>1 DEF CmdDispatch
  <2> HIDE DEF new, counted
  <2>3. [[d EXCEPT !.types = {"statistics"}, !.running = counted]
         EXCEPT !.content = new, !.miscounted = {}]
          = [d EXCEPT !.types = {"statistics"}, !.running = counted, !.content = new]
    BY <1>4 DEF Contexts
  <2> QED BY <1>6, <2>2, <2>3
<1>10. EndQueries(w, "statistics") = WithContent(d, new)
  <2> DEFINE e == [d EXCEPT !.types = {"statistics"}, !.running = counted, !.content = new]
  <2>1. {"statistics"} \ {"statistics"} = {} /\ counted \ counted = {}
    OBVIOUS
  <2> HIDE DEF new
  <2>2. e.types = {"statistics"} /\ e.running = counted /\ e.active = d.active
    BY <1>4 DEF Contexts
  <2>3. EndQueries(e, "statistics") = [e EXCEPT !.types = {}, !.running = {}]
    <3> HIDE DEF e
    <3>1. {q \in e.active : TypeOf[q] = "statistics"} = counted
      BY <2>2
    <3> HIDE DEF counted
    <3> QED BY <2>1, <2>2, <3>1 DEF EndQueries
  <2> HIDE DEF counted
  <2>4. [e EXCEPT !.types = {}, !.running = {}] = [d EXCEPT !.content = new]
    BY <1>4 DEF Contexts
  <2> HIDE DEF e, w
  <2>5. w = e
    BY <1>9 DEF e
  <2> QED BY <2>3, <2>4, <2>5 DEF WithContent
<1> HIDE DEF new, w
<1>11. Good(ctx') /\ (OpsKept(d) => OpsKept(ctx')) /\ Waiting(ctx') = new
  BY <1>2, <1>3, <1>4, <1>5, <1>10, ContentGood
<1> QED BY <1>1, <1>3, <1>11 DEF new

(* Transform feedback starts and stops with its queries.                      *)
LEMMA TransformFeedbackGood ==
    ASSUME NEW c, NEW d, Good(c), c.passBound,
           \/ d = PauseTransformFeedback(c)
           \/ d = StartTransformFeedback(c)
    PROVE  /\ Good(d)
           /\ d.content = c.content /\ d.ops = c.ops /\ d.open = c.open
           /\ d.targets = c.targets /\ d.framebuffer = c.framebuffer
           /\ d.dirtyFramebuffer = c.dirtyFramebuffer /\ d.passBound
           /\ d.clearTargets = c.clearTargets
           /\ d = StartTransformFeedback(c) => d.xfbActive
<1>1. c \in Contexts /\ Recording(c) /\ Counting(c)
  BY DEF Good
<1> DEFINE pass == {"occlusion", "statistics"}
           all == {"occlusion", "statistics", "xfb"}
           some == {q \in c.active : TypeOf[q] \in pass}
           xfb == {q \in c.active : TypeOf[q] = "xfb"}
           every == {q \in c.active : TypeOf[q] \in all}
           paused == [c EXCEPT !.xfbActive = FALSE, !.types = pass, !.running = some]
           started == [c EXCEPT !.xfbActive = TRUE, !.types = all, !.running = every]
<1>2. /\ pass \cup {"xfb"} = all /\ all \ {"xfb"} = pass /\ pass \cup {} = pass
      /\ some \cup xfb = every /\ every \ xfb = some
  <2>1. pass \cup {"xfb"} = all /\ all \ {"xfb"} = pass /\ pass \cup {} = pass
    OBVIOUS
  <2>2. some \cup xfb = every
    OBVIOUS
  <2>3. every \ xfb = some
    OBVIOUS
  <2> QED BY <2>1, <2>2, <2>3
<1>3. c.xfbActive => c.types = all /\ c.running = every
  <2>1. c.xfbActive => c.types = all
    BY <1>1, <1>2 DEF Counting, CountedTypes
  <2> QED BY <1>1, <2>1 DEF Counting
<1>4. ~c.xfbActive => c.types = pass /\ c.running = some
  <2>1. ~c.xfbActive => c.types = pass
    BY <1>1, <1>2 DEF Counting, CountedTypes
  <2> QED BY <1>1, <2>1 DEF Counting
<1> HIDE DEF pass, all, some, every
<1>5. ASSUME c.xfbActive PROVE PauseTransformFeedback(c) = paused
  <2> DEFINE b == [c EXCEPT !.xfbActive = FALSE]
  <2>1. b.types = all /\ b.running = every /\ b.active = c.active
    BY <1>1, <1>3, <1>5 DEF Contexts
  <2>2. EndQueries(b, "xfb") = [b EXCEPT !.types = pass, !.running = some]
    <3> HIDE DEF b
    <3>1. {q \in b.active : TypeOf[q] = "xfb"} = xfb
      BY <2>1
    <3> HIDE DEF xfb
    <3> QED BY <1>2, <2>1, <3>1 DEF EndQueries
  <2>3. [b EXCEPT !.types = pass, !.running = some] = paused
    BY <1>1 DEF Contexts
  <2> HIDE DEF b, paused
  <2> QED BY <1>5, <2>2, <2>3 DEF PauseTransformFeedback, b
<1>6. ASSUME ~c.xfbActive PROVE StartTransformFeedback(c) = started
  <2> DEFINE b == [c EXCEPT !.xfbActive = TRUE]
  <2>1. b.types = pass /\ b.running = some /\ b.active = c.active
    BY <1>1, <1>4, <1>6 DEF Contexts
  <2>2. BeginQueries(b, "xfb") = [b EXCEPT !.types = all, !.running = every]
    <3> HIDE DEF b
    <3>1. {q \in b.active : TypeOf[q] = "xfb"} = xfb
      BY <2>1
    <3> HIDE DEF xfb
    <3> QED BY <1>2, <2>1, <3>1 DEF BeginQueries
  <2>3. [b EXCEPT !.types = all, !.running = every] = started
    BY <1>1 DEF Contexts
  <2> HIDE DEF b, started
  <2> QED BY <1>6, <2>2, <2>3 DEF StartTransformFeedback, b
<1>7. d = c \/ d = paused \/ d = started
  BY <1>5, <1>6 DEF PauseTransformFeedback, StartTransformFeedback
<1>8. d = StartTransformFeedback(c) => d.xfbActive
  <2>1. started.xfbActive = TRUE
    BY <1>1 DEF Contexts
  <2> HIDE DEF started
  <2> QED BY <1>6, <2>1 DEF StartTransformFeedback
<1>9. d \in Contexts
  <2>1. pass \in SUBSET QueryTypes /\ all \in SUBSET QueryTypes
    BY DEF pass, all, QueryTypes
  <2>2. some \in SUBSET Queries /\ every \in SUBSET Queries
    BY <1>1 DEF some, every, Contexts
  <2>3. paused \in Contexts
    BY <1>1, <2>1, <2>2 DEF Contexts
  <2>4. started \in Contexts
    BY <1>1, <2>1, <2>2 DEF Contexts
  <2> HIDE DEF paused, started
  <2> QED BY <1>1, <1>7, <2>3, <2>4
<1>10. /\ d.content = c.content /\ d.ops = c.ops /\ d.open = c.open
       /\ d.targets = c.targets /\ d.framebuffer = c.framebuffer
       /\ d.dirtyFramebuffer = c.dirtyFramebuffer /\ d.passBound = c.passBound
       /\ d.clearTargets = c.clearTargets /\ d.active = c.active
       /\ d.miscounted = c.miscounted
  BY <1>1, <1>7 DEF Contexts
<1>11. Recording(d)
  BY <1>1, <1>10 DEF Recording
<1>12. Counting(d)
  <2>1. CASE d = c
    BY <1>1, <2>1
  <2>2. CASE d = paused
    <3>1. d.xfbActive = FALSE /\ d.types = pass /\ d.running = some
      BY <1>1, <2>2 DEF Contexts
    <3>2. CountedTypes(d) = pass
      BY <1>2, <1>10, <3>1 DEF CountedTypes, pass
    <3> QED BY <1>1, <1>10, <3>1, <3>2 DEF Counting, some
  <2>3. CASE d = started
    <3>1. d.xfbActive = TRUE /\ d.types = all /\ d.running = every
      BY <1>1, <2>3 DEF Contexts
    <3>2. CountedTypes(d) = all
      BY <1>2, <1>10, <3>1 DEF CountedTypes, pass
    <3> QED BY <1>1, <1>10, <3>1, <3>2 DEF Counting, every
  <2> QED BY <1>7, <2>1, <2>2, <2>3
<1> QED BY <1>8, <1>9, <1>10, <1>11, <1>12 DEF Good

(* A draw finds a render pass on the bound targets, with everything asked for *)
(* before it, and every query of the types that it counts running.            *)
LEMMA CommitGood ==
    ASSUME NEW c, NEW pipeline \in Pipelines, Good(c),
           pipeline = "xfb" => CommitGraphicsState(c, pipeline).framebuffer # NoFramebuffer
    PROVE  LET d == CommitGraphicsState(c, pipeline)
           IN  /\ Good(d)
               /\ ~d.dirtyFramebuffer /\ ~d.clearTargets
               /\ d.passBound <=> d.framebuffer # NoFramebuffer
               /\ d.targets = c.targets
               /\ OpsKept(c) => OpsKept(d) /\ d.content = Waiting(c)
               /\ pipeline = "xfb" => d.xfbActive
<1> DEFINE s == StartRenderPass(UpdateFramebuffer(c))
           p == PauseTransformFeedback(s)
           b == IF pipeline = s.pipeline THEN s ELSE [p EXCEPT !.pipeline = pipeline]
           d == CommitGraphicsState(c, pipeline)
<1>1. d = IF pipeline = "xfb" THEN StartTransformFeedback(b) ELSE b
  BY DEF CommitGraphicsState
<1>2. /\ Good(s) /\ ~s.dirtyFramebuffer /\ ~s.clearTargets
      /\ s.passBound <=> s.framebuffer # NoFramebuffer
      /\ s.targets = c.targets
      /\ OpsKept(c) => OpsKept(s) /\ s.content = Waiting(c)
  <2> DEFINE u == UpdateFramebuffer(c)
  <2>1. /\ Good(u) /\ ~u.dirtyFramebuffer /\ Waiting(u) = Waiting(c)
        /\ OpsKept(c) => OpsKept(u) /\ u.targets = c.targets
    BY UpdateFramebufferGood
  <2>2. u.targets = c.targets
    BY UpdateFramebufferGood
  <2> HIDE DEF u
  <2>3. /\ Good(StartRenderPass(u)) /\ ~StartRenderPass(u).dirtyFramebuffer
        /\ ~StartRenderPass(u).clearTargets
        /\ StartRenderPass(u).passBound <=> StartRenderPass(u).framebuffer # NoFramebuffer
        /\ StartRenderPass(u).targets = u.targets
        /\ OpsKept(u) => OpsKept(StartRenderPass(u)) /\ StartRenderPass(u).content = Waiting(u)
    BY <2>1, StartRenderPassGood
  <2> QED BY <2>1, <2>2, <2>3 DEF u
<1> HIDE DEF s
<1>3. /\ Good(p)
      /\ p.content = s.content /\ p.ops = s.ops
      /\ p.targets = s.targets /\ p.framebuffer = s.framebuffer
      /\ p.dirtyFramebuffer = s.dirtyFramebuffer /\ p.passBound = s.passBound
      /\ p.clearTargets = s.clearTargets
  <2>1. CASE s.passBound
    <3>1. Good(s) /\ p = PauseTransformFeedback(s)
      BY <1>2
    <3> HIDE DEF p
    <3>2. /\ Good(p)
          /\ p.content = s.content /\ p.ops = s.ops /\ p.open = s.open
          /\ p.targets = s.targets /\ p.framebuffer = s.framebuffer
          /\ p.dirtyFramebuffer = s.dirtyFramebuffer /\ p.passBound
          /\ p.clearTargets = s.clearTargets
      BY <2>1, <3>1, TransformFeedbackGood
    <3> QED BY <2>1, <3>2
  <2>2. CASE ~s.passBound
    <3>1. ~s.xfbActive
      BY <1>2, <2>2 DEF Good, Counting
    <3>2. p = s
      BY <3>1 DEF PauseTransformFeedback
    <3> QED BY <1>2, <3>2
  <2> QED BY <2>1, <2>2
<1> HIDE DEF p
<1>4. /\ Good(b)
      /\ b.content = s.content /\ b.ops = s.ops
      /\ b.targets = s.targets /\ b.framebuffer = s.framebuffer
      /\ b.dirtyFramebuffer = s.dirtyFramebuffer /\ b.passBound = s.passBound
      /\ b.clearTargets = s.clearTargets
  <2> DEFINE e == [p EXCEPT !.pipeline = pipeline]
  <2>1. p \in Contexts /\ Recording(p) /\ Counting(p)
    BY <1>3 DEF Good
  <2>2. e \in Contexts
    BY <2>1 DEF Contexts
  <2>3. Recording(e)
    BY <2>1 DEF Recording, Contexts
  <2>4. Counting(e)
    BY <2>1 DEF Counting, CountedTypes, Contexts
  <2>5. /\ e.content = p.content /\ e.ops = p.ops
        /\ e.targets = p.targets /\ e.framebuffer = p.framebuffer
        /\ e.dirtyFramebuffer = p.dirtyFramebuffer /\ e.passBound = p.passBound
        /\ e.clearTargets = p.clearTargets
    BY <2>1 DEF Contexts
  <2> HIDE DEF e
  <2> QED BY <1>2, <1>3, <2>2, <2>3, <2>4, <2>5 DEF Good, e
<1> HIDE DEF b
<1>5. /\ Good(d)
      /\ d.content = b.content /\ d.ops = b.ops
      /\ d.targets = b.targets /\ d.framebuffer = b.framebuffer
      /\ d.dirtyFramebuffer = b.dirtyFramebuffer /\ d.passBound = b.passBound
      /\ d.clearTargets = b.clearTargets
      /\ pipeline = "xfb" => d.xfbActive
  <2>1. CASE pipeline # "xfb"
    BY <1>1, <1>4, <2>1
  <2>2. CASE pipeline = "xfb"
    <3>1. d.framebuffer # NoFramebuffer
      BY <2>2
    <3>2. StartTransformFeedback(b).framebuffer = b.framebuffer
      <4>1. b \in Contexts
        BY <1>4 DEF Good
      <4> QED BY <4>1 DEF StartTransformFeedback, BeginQueries, Contexts
    <3>3. b.passBound
      BY <1>1, <1>2, <1>4, <2>2, <3>1, <3>2
    <3> HIDE DEF d
    <3>4. d = StartTransformFeedback(b)
      BY <1>1, <2>2
    <3> QED BY <1>4, <3>3, <3>4, TransformFeedbackGood
  <2> QED BY <2>1, <2>2
<1> HIDE DEF d
<1>6. OpsKept(s) => OpsKept(d)
  BY <1>2, <1>4, <1>5 DEF OpsKept
<1> QED BY <1>2, <1>4, <1>5, <1>6 DEF d

LEMMA DrawKept ==
    ASSUME NEW pipeline \in Pipelines, Good(ctx), Draw(pipeline)
    PROVE  /\ Good(ctx')
           /\ OpsKept(ctx) =>
                 /\ OpsKept(ctx')
                 /\ Waiting(ctx') = IF pipeline = "none" THEN Waiting(ctx)
                                    ELSE DrawnOver(Waiting(ctx), ctx.targets)
<1> DEFINE c == CommitGraphicsState(ctx, pipeline)
           new == DrawnOver(c.content, ctx.targets)
           drawn == CmdDraw(c, pipeline)
<1>1. /\ pipeline # "none" => c.framebuffer # NoFramebuffer
      /\ ctx' = CASE pipeline = "none"    -> c
                  [] pipeline = "storage" -> SpillRenderPass(drawn)
                  [] OTHER                -> drawn
  BY DEF Draw
<1>2. pipeline = "xfb" => c.framebuffer # NoFramebuffer
  BY <1>1
<1>3. /\ Good(c)
      /\ ~c.dirtyFramebuffer /\ ~c.clearTargets
      /\ c.passBound <=> c.framebuffer # NoFramebuffer
      /\ c.targets = ctx.targets
      /\ OpsKept(ctx) => OpsKept(c) /\ c.content = Waiting(ctx)
      /\ pipeline = "xfb" => c.xfbActive
  <2> HIDE DEF c
  <2> QED BY <1>2, CommitGood DEF c
<1> HIDE DEF c
<1>4. CASE pipeline = "none"
  <2>1. ctx' = c
    BY <1>1, <1>4
  <2>2. Waiting(c) = c.content
    BY <1>3 DEF Waiting
  <2> QED BY <1>3, <1>4, <2>1, <2>2
<1>5. CASE pipeline # "none"
  <2>1. c \in Contexts /\ Recording(c) /\ Counting(c)
    BY <1>3 DEF Good
  <2>2. c.framebuffer # NoFramebuffer /\ c.passBound
    BY <1>1, <1>3, <1>5
  <2>3. c.open = ctx.targets /\ c.open # NoFramebuffer
    BY <1>3, <2>1, <2>2 DEF Recording
  <2>4. c.content \in Images_Contents /\ new \in Images_Contents
    BY <2>1, DrawnOverTyped DEF Contexts, Images_Contents
  <2>5. Miscounts(c, pipeline) = {}
    <3>1. ASSUME NEW q \in Queries, Counts(q, pipeline)
          PROVE  TypeOf[q] \in c.types
      <4>1. TypeOf[q] = "occlusion" \/ TypeOf[q] = "statistics" \/ TypeOf[q] = "xfb"
        BY RenderPassAssumption DEF QueryTypes
      <4>2. "occlusion" \in c.types /\ "statistics" \in c.types
        BY <2>1, <2>2 DEF Counting, CountedTypes
      <4>3. CASE TypeOf[q] = "xfb"
        <5>1. pipeline = "xfb"
          BY <3>1, <4>3 DEF Counts
        <5> QED BY <1>3, <2>1, <4>3, <5>1 DEF Counting, CountedTypes
      <4> QED BY <4>1, <4>2, <4>3
    <3>2. c.running = {q \in c.active : TypeOf[q] \in c.types}
      BY <2>1 DEF Counting
    <3>3. ASSUME NEW q \in Queries, Counts(q, pipeline)
          PROVE  (q \in c.active) = (q \in c.running)
      <4>1. TypeOf[q] \in c.types
        BY <3>1, <3>3
      <4> QED BY <3>2, <4>1
    <3> QED BY <3>3 DEF Miscounts
  <2>6. drawn = WithContent(c, new)
    <3>1. {} \cup {} = {}
      OBVIOUS
    <3>2. c.miscounted = {}
      BY <2>1 DEF Counting
    <3>3. drawn = [c EXCEPT !.content = new, !.miscounted = {}]
      <4>1. new = DrawnOver(c.content, c.open)
        BY <2>3
      <4> HIDE DEF new
      <4> QED BY <2>3, <2>5, <3>1, <3>2, <4>1 DEF CmdDraw
    <3> HIDE DEF new, drawn
    <3>4. [c EXCEPT !.content = new, !.miscounted = {}] = [c EXCEPT !.content = new]
      BY <2>1, <3>2 DEF Contexts
    <3> QED BY <3>3, <3>4 DEF WithContent
  <2> HIDE DEF new, drawn
  <2>7. Good(drawn) /\ Waiting(drawn) = new /\ (OpsKept(c) => OpsKept(drawn))
    BY <1>3, <2>4, <2>6, ContentGood
  <2>8. /\ Good(ctx') /\ Waiting(ctx') = new
        /\ OpsKept(drawn) => OpsKept(ctx')
    <3>1. CASE pipeline = "storage"
      <4>1. ctx' = SpillRenderPass(drawn)
        BY <1>1, <1>5, <3>1
      <4> QED BY <2>7, <4>1, SpillKept
    <3>2. CASE pipeline # "storage"
      <4>1. ctx' = drawn
        BY <1>1, <1>5, <3>2
      <4> QED BY <2>7, <4>1
    <3> QED BY <3>1, <3>2
  <2>9. OpsKept(ctx) => new = DrawnOver(Waiting(ctx), ctx.targets)
    BY <1>3 DEF new
  <2> QED BY <1>3, <1>5, <2>7, <2>8, <2>9
<1> QED BY <1>4, <1>5

(* Nothing is left open for the next command list.                            *)
LEMMA FlushKept ==
    ASSUME Good(ctx), FlushCommandList
    PROVE  /\ Good(ctx')
           /\ Waiting(ctx') = Waiting(ctx)
           /\ OpsKept(ctx) => OpsKept(ctx')
<1> DEFINE s == SpillRenderPass(ctx)
           d == [s EXCEPT !.pipeline = "none"]
<1>1. /\ Good(s) /\ Spilled(s) /\ Waiting(s) = Waiting(ctx)
      /\ OpsKept(ctx) => OpsKept(s)
  BY SpillKept
<1>2. ctx' = BeginRecording(s)
  BY DEF FlushCommandList
<1> HIDE DEF s
<1>3. s \in Contexts /\ Recording(s) /\ Counting(s)
  BY <1>1 DEF Good
<1>4. /\ s.open = NoFramebuffer /\ s.running = {} /\ s.miscounted = {}
      /\ s.passBound = FALSE /\ s.clearTargets = FALSE /\ s.xfbActive = FALSE
  BY <1>1, <1>3, SpilledFacts DEF Spilled, Contexts
<1>5. ctx' = d
  <2>1. {} \cup {} = {}
    OBVIOUS
  <2>2. BeginRecording(s)
          = [s EXCEPT !.passBound = s.passBound, !.clearTargets = s.clearTargets,
                      !.xfbActive = s.xfbActive, !.pipeline = "none", !.open = s.open,
                      !.running = s.running, !.miscounted = s.miscounted]
    BY <1>4, <2>1 DEF BeginRecording
  <2> QED BY <1>2, <1>3, <2>2 DEF Contexts
<1>6. d \in Contexts
  BY <1>3 DEF Contexts, Pipelines
<1>7. Recording(d)
  BY <1>3 DEF Recording, Contexts
<1>8. Counting(d)
  BY <1>3 DEF Counting, CountedTypes, Contexts
<1>9. Waiting(d) = Waiting(s) /\ (OpsKept(s) => OpsKept(d))
  BY <1>3 DEF Waiting, OpsKept, Contexts
<1> QED BY <1>1, <1>5, <1>6, <1>7, <1>8, <1>9 DEF Good

(* A query that begins or ends while its type is counted starts or stops at   *)
(* once.                                                                     *)
WithActive(c, active) ==
    [c EXCEPT !.active = active, !.running = {q \in active : TypeOf[q] \in c.types}]

LEMMA ActiveGood ==
    ASSUME NEW c, NEW active \in SUBSET Queries, Good(c)
    PROVE  LET d == WithActive(c, active)
           IN  /\ Good(d)
               /\ Waiting(d) = Waiting(c)
               /\ OpsKept(c) => OpsKept(d)
<1> DEFINE running == {q \in active : TypeOf[q] \in c.types}
           d == [c EXCEPT !.active = active, !.running = running]
<1>1. c \in Contexts /\ Recording(c) /\ Counting(c)
  BY DEF Good
<1>2. running \in SUBSET Queries
  OBVIOUS
<1>3. running = {q \in active : TypeOf[q] \in c.types}
  OBVIOUS
<1> HIDE DEF running
<1>4. d \in Contexts
  BY <1>1, <1>2 DEF Contexts
<1>5. Recording(d)
  BY <1>1 DEF Recording, Contexts
<1>6. /\ d.active = active /\ d.running = running /\ d.types = c.types
      /\ d.passBound = c.passBound /\ d.xfbActive = c.xfbActive /\ d.miscounted = c.miscounted
  BY <1>1 DEF Contexts
<1>7. Counting(d)
  BY <1>1, <1>3, <1>6 DEF Counting, CountedTypes
<1>8. Waiting(d) = Waiting(c) /\ (OpsKept(c) => OpsKept(d))
  BY <1>1 DEF Waiting, OpsKept, Contexts
<1> QED BY <1>3, <1>4, <1>5, <1>7, <1>8 DEF Good, WithActive

LEMMA QueryKept ==
    ASSUME NEW q \in Queries, Good(ctx), BeginQuery(q) \/ EndQuery(q)
    PROVE  /\ Good(ctx')
           /\ Waiting(ctx') = Waiting(ctx)
           /\ OpsKept(ctx) => OpsKept(ctx')
<1>1. /\ ctx \in Contexts
      /\ ctx.running = {k \in ctx.active : TypeOf[k] \in ctx.types}
      /\ ctx.miscounted = {}
  BY DEF Good, Counting
<1>2. ctx.active \cup {q} \in SUBSET Queries /\ ctx.active \ {q} \in SUBSET Queries
  BY <1>1 DEF Contexts
<1>3. CASE BeginQuery(q)
  <2> DEFINE b == IF TypeOf[q] \in ctx.types THEN ctx.running \cup {q} ELSE ctx.running
             active == ctx.active \cup {q}
             running == {k \in active : TypeOf[k] \in ctx.types}
  <2>1. ctx' = [ctx EXCEPT !.active = active, !.running = b,
                           !.miscounted = ctx.miscounted \ {q}]
    BY <1>3 DEF BeginQuery
  <2>2. {} \ {q} = {}
    OBVIOUS
  <2>3. b = running
    BY <1>1
  <2> HIDE DEF active, running, b
  <2>4. ctx' = [ctx EXCEPT !.active = active, !.running = running]
    BY <1>1, <2>1, <2>2, <2>3 DEF Contexts
  <2>5. ctx' = WithActive(ctx, active)
    BY <2>4 DEF WithActive, running
  <2>6. active \in SUBSET Queries
    BY <1>2 DEF active
  <2> QED BY <2>5, <2>6, ActiveGood
<1>4. CASE EndQuery(q)
  <2> DEFINE b == IF TypeOf[q] \in ctx.types THEN ctx.running \ {q} ELSE ctx.running
             active == ctx.active \ {q}
             running == {k \in active : TypeOf[k] \in ctx.types}
  <2>1. ctx' = [ctx EXCEPT !.active = active, !.running = b]
    BY <1>4 DEF EndQuery
  <2>2. b = running
    BY <1>1
  <2> HIDE DEF active, running, b
  <2>3. ctx' = WithActive(ctx, active)
    BY <2>1, <2>2 DEF WithActive, running
  <2>4. active \in SUBSET Queries
    BY <1>2 DEF active
  <2> QED BY <2>3, <2>4, ActiveGood
<1> QED BY <1>3, <1>4

-------------------------------------------------------------------------------
(* The invariants.                                                            *)

LEMMA InitSafe ==
    ASSUME Init
    PROVE  Safe(ctx, expected) /\ Kept(ctx, expected)
<1>1. ctx \in Contexts
  <2>1. NoTargets \in [Slots -> Views \cup {NoView}]
    BY DEF NoTargets
  <2>2. ResetRenderPassOps(NoTargets) \in [Slots -> AttachmentOps]
    BY ResetTyped
  <2>3. [n \in Slots |-> [a \in Aspects |-> NoValue]]
          \in [Slots -> [Aspects -> Values \cup {NoValue}]]
    OBVIOUS
  <2>4. Ruined \in Images_Contents
    BY ContentsTyped
  <2>5. "none" \in Pipelines
    BY DEF Pipelines
  <2> QED BY <2>1, <2>2, <2>3, <2>4, <2>5 DEF Init, Contexts, Images_Contents
<1>2. /\ ctx.passBound = FALSE /\ ctx.clearTargets = FALSE /\ ctx.dirtyFramebuffer = FALSE
      /\ ctx.xfbActive = FALSE /\ ctx.framebuffer = NoFramebuffer /\ ctx.open = NoFramebuffer
      /\ ctx.active = {} /\ ctx.types = {} /\ ctx.running = {} /\ ctx.miscounted = {}
      /\ ctx.targets = NoTargets /\ ctx.ops = ResetRenderPassOps(NoTargets)
      /\ ctx.content = Ruined /\ expected = Ruined
  BY DEF Init
<1>3. Recording(ctx)
  BY <1>2 DEF Recording
<1>4. Counting(ctx)
  BY <1>2 DEF Counting, CountedTypes
<1>5. OpsKept(ctx) /\ Waiting(ctx) = expected
  BY <1>2 DEF OpsKept, Waiting
<1>6. expected \in Images_Contents
  BY <1>2, ContentsTyped
<1> QED BY <1>1, <1>3, <1>4, <1>5, <1>6 DEF Good, Safe, Kept

(* One call keeps what is safe, and, without gaps in the targets, what the    *)
(* images hold.                                                              *)
LEMMA NextSafe ==
    ASSUME Safe(ctx, expected), Next
    PROVE  /\ Safe(ctx', expected')
           /\ GapFree /\ Kept(ctx, expected) => Kept(ctx', expected')
<1>1. Good(ctx) /\ expected \in Images_Contents
  BY DEF Safe
<1>2. CASE \E t \in Targets, spill \in BOOLEAN : BindRenderTargets(t, spill)
  <2>1. PICK t \in Targets, spill \in BOOLEAN : BindRenderTargets(t, spill)
    BY <1>2
  <2>2. expected' = expected
    BY <2>1 DEF BindRenderTargets
  <2> QED BY <1>1, <2>1, <2>2, BindKept DEF Safe, Kept
<1>3. CASE \E v \in Views, x \in Values : \E aspects \in Clears(v) : ClearRenderTarget(v, aspects, x)
  <2>1. PICK v \in Views, x \in Values : \E aspects \in Clears(v) : ClearRenderTarget(v, aspects, x)
    BY <1>3
  <2>2. PICK aspects \in Clears(v) : ClearRenderTarget(v, aspects, x)
    BY <2>1
  <2>3. expected' = Fill(expected, ImageOf[v], aspects, Filled(x))
    BY <2>2 DEF ClearRenderTarget
  <2>4. expected' \in Images_Contents
    BY <1>1, <2>3, ImageOfView, FillTyped
  <2> QED BY <1>1, <2>2, <2>3, <2>4, ClearTargetKept DEF Safe, Kept
<1>4. CASE \E v \in Views : \E aspects \in Clears(v) : ClearImageView(v, aspects)
  <2>1. PICK v \in Views : \E aspects \in Clears(v) : ClearImageView(v, aspects)
    BY <1>4
  <2>2. PICK aspects \in Clears(v) : ClearImageView(v, aspects)
    BY <2>1
  <2>3. expected' = Touch(expected, ImageOf[v], aspects)
    BY <2>2 DEF ClearImageView
  <2>4. expected' \in Images_Contents
    BY <1>1, <2>3, ImageOfView, TouchTyped
  <2> QED BY <1>1, <2>2, <2>3, <2>4, ClearViewKept DEF Safe, Kept
<1>5. CASE \E pipeline \in Pipelines : Draw(pipeline)
  <2>1. PICK pipeline \in Pipelines : Draw(pipeline)
    BY <1>5
  <2>2. expected' = IF pipeline = "none" THEN expected ELSE DrawnOver(expected, ctx.targets)
    BY <2>1 DEF Draw
  <2>3. expected' \in Images_Contents
    BY <1>1, <2>2, DrawnOverTyped
  <2> QED BY <1>1, <2>1, <2>2, <2>3, DrawKept DEF Safe, Kept
<1>6. CASE \E v \in Views : "color" \in AspectsOf[v] /\ Dispatch(ImageOf[v], AspectsOf[v])
  <2>1. PICK v \in Views : Dispatch(ImageOf[v], AspectsOf[v])
    BY <1>6
  <2> DEFINE i == ImageOf[v]
             aspects == AspectsOf[v]
  <2>2. i \in Images
    BY DEF Images
  <2>3. Dispatch(i, aspects)
    BY <2>1
  <2> HIDE DEF i, aspects
  <2>4. expected' = Touch(expected, i, aspects)
    BY <2>3 DEF Dispatch
  <2>5. expected' \in Images_Contents
    BY <1>1, <2>2, <2>4, TouchTyped
  <2> QED BY <1>1, <2>2, <2>3, <2>4, <2>5, DispatchKept DEF Safe, Kept
<1>7. CASE \E v \in Views, x \in Values \cup {NoValue} :
               \E aspects \in Clears(v) : Transfer(ImageOf[v], aspects, x)
  <2>1. PICK v \in Views, x \in Values \cup {NoValue} :
               \E aspects \in Clears(v) : Transfer(ImageOf[v], aspects, x)
    BY <1>7
  <2>2. PICK aspects \in Clears(v) : Transfer(ImageOf[v], aspects, x)
    BY <2>1
  <2> DEFINE i == ImageOf[v]
  <2>3. i \in Images
    BY DEF Images
  <2>4. Transfer(i, aspects, x)
    BY <2>2
  <2> HIDE DEF i
  <2>5. expected' = Fill(expected, i, aspects, Filled(x))
    BY <2>4 DEF Transfer
  <2>6. expected' \in Images_Contents
    BY <1>1, <2>3, <2>5, FillTyped
  <2> QED BY <1>1, <2>3, <2>4, <2>5, <2>6, SpilledWrite DEF Safe, Kept
<1>8. CASE Spill
  <2>1. ctx' = SpillRenderPass(ctx) /\ expected' = expected
    BY <1>8 DEF Spill
  <2> QED BY <1>1, <2>1, SpillKept DEF Safe, Kept
<1>9. CASE FlushCommandList
  <2>1. expected' = expected
    BY <1>9 DEF FlushCommandList
  <2> QED BY <1>1, <1>9, <2>1, FlushKept DEF Safe, Kept
<1>10. CASE \E q \in Queries : BeginQuery(q) \/ EndQuery(q)
  <2>1. PICK q \in Queries : BeginQuery(q) \/ EndQuery(q)
    BY <1>10
  <2>2. expected' = expected
    BY <2>1 DEF BeginQuery, EndQuery
  <2> QED BY <1>1, <2>1, <2>2, QueryKept DEF Safe, Kept
<1> QED BY <1>2, <1>3, <1>4, <1>5, <1>6, <1>7, <1>8, <1>9, <1>10 DEF Next

LEMMA SafeInvariant == Spec => []Safe(ctx, expected)
<1>1. Init => Safe(ctx, expected)
  BY InitSafe
<1>2. Safe(ctx, expected) /\ [Next]_vars => Safe(ctx, expected)'
  <2>1. SUFFICES ASSUME Safe(ctx, expected), [Next]_vars
                 PROVE  Safe(ctx', expected')
    BY DEF Safe
  <2>2. CASE Next
    BY <2>1, <2>2, NextSafe
  <2>3. CASE UNCHANGED vars
    BY <2>1, <2>3 DEF vars
  <2> QED BY <2>1, <2>2, <2>3
<1> QED BY <1>1, <1>2, PTL DEF Spec

(* Every step of the context leaves its fields within their types, whatever   *)
(* the calls and in whatever order.                                          *)
THEOREM TypeCorrect == Spec => []TypeOK
<1>1. Safe(ctx, expected) => TypeOK
  <2>1. SUFFICES ASSUME Safe(ctx, expected) PROVE TypeOK
    OBVIOUS
  <2>2. /\ ctx \in Contexts /\ Recording(ctx)
        /\ expected \in Images_Contents
    BY <2>1 DEF Safe, Good
  <2>3. ctx.open \in Targets \cup {NoFramebuffer}
    BY <2>2 DEF Recording, Contexts
  <2> QED BY <2>2, <2>3 DEF TypeOK, Contexts, Images_Contents
<1> QED BY <1>1, SafeInvariant, PTL

(* Queries run exactly while a render pass, a dispatch or a transform         *)
(* feedback counts their type, so none misses a draw and none is open across  *)
(* a render pass's end (DxvkGpuQueryManager with DxvkContext).               *)
THEOREM QueriesAreCounted == Spec => []QueriesCountAll
<1>1. Safe(ctx, expected) => QueriesCountAll
  <2>1. SUFFICES ASSUME Safe(ctx, expected) PROVE QueriesCountAll
    OBVIOUS
  <2>2. ctx \in Contexts /\ Recording(ctx) /\ Counting(ctx)
    BY <2>1 DEF Safe, Good
  <2>3. ASSUME ctx.open = NoFramebuffer PROVE ctx.running = {}
    <3>1. ~ctx.passBound
      BY <2>2, <2>3 DEF Recording
    <3>2. ctx.types = {}
      BY <2>2, <3>1 DEF Counting, CountedTypes
    <3> QED BY <2>2, <3>2 DEF Counting
  <2> QED BY <2>2, <2>3 DEF QueriesCountAll, Counting
<1> QED BY <1>1, SafeInvariant, PTL

(* As long as the colour targets leave no gap, a clear that waits for the     *)
(* next render pass reaches its image, in its turn, with its value, whatever  *)
(* is bound, drawn, copied, cleared or submitted meanwhile                    *)
(* (DxvkContext::clearRenderTarget, bindRenderTargets, spillRenderPass).      *)
THEOREM ContentsAreKept == GapFree => (Spec => []ContentsKept)
<1> DEFINE Inv == Safe(ctx, expected) /\ Kept(ctx, expected)
<1> SUFFICES ASSUME GapFree PROVE Spec => []ContentsKept
  OBVIOUS
<1>1. Init => Inv
  BY InitSafe
<1>2. Inv /\ [Next]_vars => Inv'
  <2>1. SUFFICES ASSUME Safe(ctx, expected), Kept(ctx, expected), [Next]_vars
                 PROVE  Safe(ctx', expected') /\ Kept(ctx', expected')
    BY DEF Safe, Kept
  <2>2. CASE Next
    BY <2>1, <2>2, NextSafe
  <2>3. CASE UNCHANGED vars
    BY <2>1, <2>3 DEF vars
  <2> QED BY <2>1, <2>2, <2>3
<1>3. Inv => ContentsKept
  BY SpillKept DEF Safe, Kept, ContentsKept
<1> QED BY <1>1, <1>2, <1>3, PTL DEF Spec

===============================================================================

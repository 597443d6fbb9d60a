------------------------------ MODULE RenderPass ------------------------------
(* How DxvkContext records render passes: the framebuffer that lags behind    *)
(* the bound render targets, clears that wait for the next render pass, and   *)
(* the queries that a render pass interrupts (src/dxvk/dxvk_context.cpp,      *)
(* dxvk_framebuffer.cpp, dxvk_renderpass.cpp, dxvk_gpu_query.cpp).            *)
(*                                                                           *)
(* The context runs on one thread: each call is one action. What the          *)
(* recorded commands do to the images when the GPU executes them is applied   *)
(* as they are recorded (content); beside it, expected is what the calls ask  *)
(* for. Barriers, image layouts other than UNDEFINED and descriptors are left *)
(* out.                                                                      *)
EXTENDS Naturals, FiniteSets

CONSTANTS
    Views,         \* image views a call can name
    NoView,        \* an empty render target slot
    ImageOf,       \* the image that each view shows
    AspectsOf,     \* the aspects of each view
    Small,         \* the views whose size is below that of the others
    ColorSlots,    \* MaxNumRenderTargets
    Targets,       \* the render targets an application binds
    NoFramebuffer,
    Values,        \* values images are cleared to
    NoValue,       \* undefined contents, and clear values never set
    Queries,
    TypeOf         \* the type of each query

Slots == 0 .. ColorSlots
DepthSlot == ColorSlots
Aspects == {"color", "depth", "stencil"}
QueryTypes == {"occlusion", "statistics", "xfb"}
Pipelines == {"none", "plain", "xfb", "storage"}
Images == {ImageOf[v] : v \in Views}

(* The views that a slot can hold, each image at most once.                   *)
WellFormed(t) ==
    /\ t \in [Slots -> Views \cup {NoView}]
    /\ \A s \in Slots : t[s] # NoView => (("color" \in AspectsOf[t[s]]) <=> s # DepthSlot)
    /\ \A s, k \in Slots :
          t[s] # NoView /\ t[k] # NoView /\ ImageOf[t[s]] = ImageOf[t[k]] => s = k

ASSUME RenderPassAssumption ==
    /\ ColorSlots \in Nat \ {0}
    /\ NoView \notin Views
    /\ DOMAIN ImageOf = Views
    /\ AspectsOf \in [Views -> {{"color"}, {"depth"}, {"depth", "stencil"}}]
    /\ \A v, w \in Views : ImageOf[v] = ImageOf[w] => AspectsOf[v] = AspectsOf[w]
    /\ \A t \in Targets : WellFormed(t)
    /\ NoFramebuffer \notin [Slots -> Views \cup {NoView}]
    /\ NoValue \notin Values
    /\ TypeOf \in [Queries -> QueryTypes]

VARIABLES
    ctx,        \* the context and what it has recorded
    expected    \* the contents of the images that the calls ask for

vars == <<ctx, expected>>

(* An image aspect holds what it was last filled with, maybe drawn over; what *)
(* is undefined stays so until it is filled.                                 *)
Contents == [base : Values \cup {NoValue}, over : BOOLEAN]
Filled(x) == [base |-> x, over |-> FALSE]
Undefined == Filled(NoValue)
Over(content) == [content EXCEPT !.over = content.base # NoValue]

AttachmentOps == [clear : SUBSET Aspects, discard : BOOLEAN]

NoTargets == [s \in Slots |-> NoView]

-------------------------------------------------------------------------------
(* Framebuffers and render pass operations.                                   *)

(* The attachment number of a slot: attachments are numbered without gaps,    *)
(* the colour targets first and the depth-stencil target last.                *)
Attachment(fb, s) == Cardinality({k \in Slots : k < s /\ fb[k] # NoView})

(* findAttachment and isFullSize: the framebuffer is as large as the smallest *)
(* of its attachments.                                                       *)
IsAttached(fb, v) ==
    /\ fb # NoFramebuffer
    /\ \E s \in Slots : fb[s] = v
    /\ v \in Small \/ \A s \in Slots : fb[s] \notin Small

FindAttachment(fb, v) == Attachment(fb, CHOOSE s \in Slots : fb[s] = v)

Shows(fb, s, i, a) == fb[s] # NoView /\ ImageOf[fb[s]] = i /\ a \in AspectsOf[fb[s]]

(* Attachments are loaded, except in slots without a target, which keep the   *)
(* default operations.                                                       *)
ResetRenderPassOps(t) ==
    [s \in Slots |-> [clear |-> {}, discard |-> t[s] = NoView]]

-------------------------------------------------------------------------------
(* What Vulkan commands do. A command recorded on the wrong side of a render  *)
(* pass leaves every image undefined.                                         *)

Ruined == [i \in Images |-> [a \in Aspects |-> Undefined]]

Fill(content, i, aspects, x) ==
    [content EXCEPT ![i] = [a \in Aspects |-> IF a \in aspects THEN x ELSE @[a]]]

Touch(content, i, aspects) ==
    [content EXCEPT ![i] = [a \in Aspects |->
        IF a \in aspects THEN Over(@[a]) ELSE @[a]]]

(* Beginning a render pass clears an attachment, discards it, or loads it.    *)
(* A clear value is found by attachment number, the operation by slot.        *)
Loaded(content, fb, ops, values) ==
    [i \in Images |-> [a \in Aspects |->
        LET cleared == {s \in Slots : Shows(fb, s, i, a) /\ a \in ops[s].clear}
        IN  IF cleared # {}
            THEN Filled(values[Attachment(fb, CHOOSE s \in cleared : TRUE)][a])
            ELSE IF \E s \in Slots : Shows(fb, s, i, a) /\ ops[s].discard
            THEN Undefined
            ELSE content[i][a]]]

CmdBeginRenderPass(c, fb, ops, values) ==
    [c EXCEPT !.open = fb,
              !.content = IF c.open = NoFramebuffer THEN Loaded(@, fb, ops, values)
                          ELSE Ruined]

(* Mutant: only the context's own render pass is ended.                       *)
CmdEndRenderPassIfBound(c) ==
    [c EXCEPT !.open = IF c.passBound THEN NoFramebuffer ELSE @,
              !.miscounted = @ \cup c.running]

(* A query that runs when its render pass ends counts nothing reliable.       *)
CmdEndRenderPass(c) ==
    [c EXCEPT !.open = NoFramebuffer, !.miscounted = @ \cup c.running]

(* vkCmdClearAttachments names a colour attachment by its slot.               *)
ClearedSlot(n, aspects) == IF "color" \in aspects THEN n ELSE DepthSlot

CmdClearAttachments(c, n, aspects, x) ==
    LET s == ClearedSlot(n, aspects)
    IN  IF c.open = NoFramebuffer THEN [c EXCEPT !.content = Ruined]
        ELSE IF c.open[s] = NoView THEN c
        ELSE [c EXCEPT !.content = Fill(@, ImageOf[c.open[s]], aspects, Filled(x))]

(* The same for a rectangle: what is outside stays.                           *)
CmdClearRect(c, n, aspects) ==
    LET s == ClearedSlot(n, aspects)
    IN  IF c.open = NoFramebuffer THEN [c EXCEPT !.content = Ruined]
        ELSE IF c.open[s] = NoView THEN c
        ELSE [c EXCEPT !.content = Touch(@, ImageOf[c.open[s]], aspects)]

DrawnOver(content, fb) ==
    [i \in Images |-> [a \in Aspects |->
        IF \E s \in Slots : Shows(fb, s, i, a)
        THEN Over(content[i][a]) ELSE content[i][a]]]

(* Statistics count every draw and dispatch, transform feedback queries the   *)
(* draws that write vertices.                                                 *)
Counts(q, work) ==
    CASE TypeOf[q] = "occlusion"  -> work # "dispatch"
      [] TypeOf[q] = "statistics" -> TRUE
      [] TypeOf[q] = "xfb"        -> work = "xfb"

Miscounts(c, work) ==
    {q \in Queries : Counts(q, work) /\ ((q \in c.active) # (q \in c.running))}

CmdDraw(c, work) ==
    [c EXCEPT !.content = IF c.open = NoFramebuffer THEN Ruined ELSE DrawnOver(@, c.open),
              !.miscounted = @ \cup Miscounts(c, work)]

CmdDispatch(c, i, aspects) ==
    [c EXCEPT !.content = IF c.open = NoFramebuffer THEN Touch(@, i, aspects) ELSE Ruined,
              !.miscounted = @ \cup Miscounts(c, "dispatch")]

CmdCopy(c, i, aspects, x) ==
    [c EXCEPT !.content = IF c.open = NoFramebuffer THEN Fill(@, i, aspects, Filled(x))
                          ELSE Ruined]

-------------------------------------------------------------------------------
(* The steps that the calls are made of.                                      *)

BeginQueries(c, type) ==
    [c EXCEPT !.types = @ \cup {type},
              !.running = @ \cup {q \in c.active : TypeOf[q] = type}]

EndQueries(c, type) ==
    [c EXCEPT !.types = @ \ {type},
              !.running = @ \ {q \in c.active : TypeOf[q] = type}]

StartTransformFeedback(c) ==
    IF c.xfbActive THEN c ELSE BeginQueries([c EXCEPT !.xfbActive = TRUE], "xfb")

PauseTransformFeedback(c) ==
    IF c.xfbActive THEN EndQueries([c EXCEPT !.xfbActive = FALSE], "xfb") ELSE c

(* Clears that still wait get a render pass of their own.                     *)
ClearRenderPass(c) ==
    IF ~c.clearTargets THEN c
    ELSE LET begun == CmdBeginRenderPass([c EXCEPT !.clearTargets = FALSE],
                                         c.framebuffer, c.ops, c.clearValues)
         IN  CmdEndRenderPass([begun EXCEPT !.ops = ResetRenderPassOps(c.targets)])

(* Only a render pass that is bound is ended, and unbinds the pipeline.       *)
EndBoundPass(c) ==
    IF ~c.passBound THEN c
    ELSE LET paused == PauseTransformFeedback([c EXCEPT !.passBound = FALSE])
             ended  == EndQueries(EndQueries(paused, "occlusion"), "statistics")
         IN  [CmdEndRenderPass(ended) EXCEPT !.pipeline = "none"]

SpillRenderPass(c) == EndBoundPass(ClearRenderPass(c))

UpdateFramebuffer(c) ==
    IF ~c.dirtyFramebuffer THEN c
    ELSE [SpillRenderPass([c EXCEPT !.dirtyFramebuffer = FALSE])
          EXCEPT !.framebuffer = c.targets, !.pipeline = "none"]

StartRenderPass(c) ==
    IF c.passBound \/ c.framebuffer = NoFramebuffer THEN c
    ELSE LET begun == CmdBeginRenderPass(
                          [c EXCEPT !.passBound = TRUE, !.clearTargets = FALSE],
                          c.framebuffer, c.ops, c.clearValues)
             reset == [begun EXCEPT !.ops = ResetRenderPassOps(c.targets)]
         IN  BeginQueries(BeginQueries(reset, "occlusion"), "statistics")

(* A render pass on a framebuffer that shows one view only.                   *)
TemporaryTargets(v) ==
    [NoTargets EXCEPT ![IF "color" \in AspectsOf[v] THEN 0 ELSE DepthSlot] = v]

TemporaryPass(c, v, ops, x) ==
    CmdBeginRenderPass(c, TemporaryTargets(v), [s \in Slots |-> ops],
                       [n \in Slots |-> [a \in Aspects |-> x]])

(* A clear that waits: the operation of the slot with the attachment's number *)
(* (a colour target's), or of the depth-stencil target, and the clear value   *)
(* of that attachment.                                                       *)
DeferClear(c, v, aspects, x) ==
    LET n == FindAttachment(c.framebuffer, v)
        s == ClearedSlot(n, aspects)
        clear == IF "color" \in aspects THEN aspects ELSE c.ops[s].clear \cup aspects
    IN  [c EXCEPT
            !.ops[s] = [clear   |-> clear,
                        discard |-> aspects = AspectsOf[v] \/ {"depth", "stencil"} \subseteq clear],
            !.clearValues[n] = [a \in Aspects |-> IF a \in aspects THEN x ELSE @[a]],
            !.clearTargets = TRUE]

-------------------------------------------------------------------------------
(* A new context has recorded nothing; no framebuffer exists until the first  *)
(* one is needed.                                                            *)
Init ==
    /\ ctx = [targets          |-> NoTargets,
              framebuffer      |-> NoFramebuffer,
              dirtyFramebuffer |-> FALSE,
              passBound        |-> FALSE,
              clearTargets     |-> FALSE,
              xfbActive        |-> FALSE,
              pipeline         |-> "none",
              ops              |-> ResetRenderPassOps(NoTargets),
              clearValues      |-> [n \in Slots |-> [a \in Aspects |-> NoValue]],
              active           |-> {},
              types            |-> {},
              open             |-> NoFramebuffer,
              content          |-> Ruined,
              running          |-> {},
              miscounted       |-> {}]
    /\ expected = Ruined

(* Mutant: clears that wait for the previous targets are forgotten.           *)
BindRenderTargetsAtOnce(t, spill) ==
    LET bound == [ctx EXCEPT !.targets = t,
                             !.ops = ResetRenderPassOps(t),
                             !.dirtyFramebuffer = ctx.framebuffer # t]
    IN  /\ ctx' = IF spill THEN SpillRenderPass(bound) ELSE bound
        /\ UNCHANGED expected

(* Clears waiting for the previous targets are done first. Targets equal to   *)
(* those of the framebuffer keep it, and its render pass.                     *)
BindRenderTargets(t, spill) ==
    LET cleared == ClearRenderPass(ctx)
        bound == [cleared EXCEPT !.targets = t,
                                 !.ops = ResetRenderPassOps(t),
                                 !.dirtyFramebuffer = cleared.framebuffer # t]
    IN  /\ ctx' = IF spill THEN SpillRenderPass(bound) ELSE bound
        /\ UNCHANGED expected

(* A clear of a whole view: in a render pass of its own, inside the render    *)
(* pass that is open, or waiting for the next one.                            *)
ClearRenderTarget(v, aspects, x) ==
    LET c == UpdateFramebuffer(ctx)
        ops == [clear |-> aspects, discard |-> aspects = AspectsOf[v]]
    IN  /\ \/ /\ ~IsAttached(c.framebuffer, v)
              /\ ctx' = CmdEndRenderPass(TemporaryPass(SpillRenderPass(c), v, ops, x))
           \/ /\ IsAttached(c.framebuffer, v)
              /\ c.passBound
              /\ ctx' = CmdClearAttachments(c, FindAttachment(c.framebuffer, v), aspects, x)
           \/ /\ IsAttached(c.framebuffer, v)
              /\ ~c.passBound
              /\ ctx' = DeferClear(c, v, aspects, x)
        /\ expected' = Fill(expected, ImageOf[v], aspects, Filled(x))

(* A clear of a rectangle is always a command inside a render pass.           *)
ClearImageView(v, aspects) ==
    LET c == UpdateFramebuffer(ctx)
        load == [clear |-> {}, discard |-> FALSE]
    IN  /\ \/ /\ ~IsAttached(c.framebuffer, v)
              /\ ctx' = CmdEndRenderPass(CmdClearRect(
                            TemporaryPass(SpillRenderPass(c), v, load, NoValue), 0, aspects))
           \/ /\ IsAttached(c.framebuffer, v)
              /\ ctx' = CmdClearRect(StartRenderPass(c), FindAttachment(c.framebuffer, v), aspects)
        /\ expected' = Touch(expected, ImageOf[v], aspects)

(* The pipeline is bound anew when it changed or when the render pass was     *)
(* spilled; a transform feedback that is active stops first.                  *)
CommitGraphicsState(c, pipeline) ==
    LET started == StartRenderPass(UpdateFramebuffer(c))
        bound == IF pipeline = started.pipeline THEN started
                 ELSE [PauseTransformFeedback(started) EXCEPT !.pipeline = pipeline]
    IN  IF pipeline = "xfb" THEN StartTransformFeedback(bound) ELSE bound

(* Without shaders, or without a framebuffer, there is no pipeline and        *)
(* nothing is drawn. A pipeline whose vertex stages write storage buffers     *)
(* ends the render pass.                                                     *)
Draw(pipeline) ==
    LET c == CommitGraphicsState(ctx, pipeline)
        drawn == CmdDraw(c, pipeline)
    IN  /\ pipeline # "none" => c.framebuffer # NoFramebuffer
        /\ ctx' = CASE pipeline = "none"    -> c
                    [] pipeline = "storage" -> SpillRenderPass(drawn)
                    [] OTHER                -> drawn
        /\ expected' = IF pipeline = "none" THEN expected
                       ELSE DrawnOver(expected, ctx.targets)

(* A compute shader writes part of an image.                                  *)
Dispatch(i, aspects) ==
    LET spilled == IF ctx.passBound THEN SpillRenderPass(ctx) ELSE ctx
        c == BeginQueries(ClearRenderPass(spilled), "statistics")
    IN  /\ ctx' = EndQueries(CmdDispatch(c, i, aspects), "statistics")
        /\ expected' = Touch(expected, i, aspects)

(* Copies, uploads, resolves and clears of images, and discardImage, which    *)
(* leaves nothing defined.                                                   *)
Transfer(i, aspects, x) ==
    /\ ctx' = CmdCopy(SpillRenderPass(ctx), i, aspects, x)
    /\ expected' = Fill(expected, i, aspects, Filled(x))

(* What only reads images, or must stand outside of a render pass: copies to  *)
(* buffers, events, binding transform feedback buffers.                       *)
Spill ==
    /\ ctx' = SpillRenderPass(ctx)
    /\ UNCHANGED expected

(* The list is submitted and a new one begins, with no state of its own.      *)
BeginRecording(c) ==
    [c EXCEPT !.passBound = FALSE, !.clearTargets = FALSE, !.xfbActive = FALSE,
              !.pipeline = "none",
              !.open = NoFramebuffer, !.running = {}, !.miscounted = @ \cup c.running]

FlushCommandList ==
    /\ ctx' = BeginRecording(SpillRenderPass(ctx))
    /\ UNCHANGED expected

(* Mutant: every query waits for the next render pass.                        *)
BeginQueryLater(q) ==
    /\ q \notin ctx.active
    /\ ctx' = [ctx EXCEPT !.active = @ \cup {q}, !.miscounted = @ \ {q}]
    /\ UNCHANGED expected

(* A query whose type is being counted starts at once, and stops at once; the *)
(* others wait for the next render pass, dispatch or transform feedback.      *)
BeginQuery(q) ==
    /\ q \notin ctx.active
    /\ ctx' = [ctx EXCEPT !.active = @ \cup {q},
                          !.running = IF TypeOf[q] \in ctx.types THEN @ \cup {q} ELSE @,
                          !.miscounted = @ \ {q}]
    /\ UNCHANGED expected

EndQuery(q) ==
    /\ q \in ctx.active
    /\ ctx' = [ctx EXCEPT !.active = @ \ {q},
                          !.running = IF TypeOf[q] \in ctx.types THEN @ \ {q} ELSE @]
    /\ UNCHANGED expected

Clears(v) == {aspects \in SUBSET AspectsOf[v] : aspects # {}}

Next ==
    \/ \E t \in Targets, spill \in BOOLEAN : BindRenderTargets(t, spill)
    \/ \E v \in Views, x \in Values : \E aspects \in Clears(v) : ClearRenderTarget(v, aspects, x)
    \/ \E v \in Views : \E aspects \in Clears(v) : ClearImageView(v, aspects)
    \/ \E pipeline \in Pipelines : Draw(pipeline)
    \/ \E v \in Views : "color" \in AspectsOf[v] /\ Dispatch(ImageOf[v], AspectsOf[v])
    \/ \E v \in Views, x \in Values \cup {NoValue} :
          \E aspects \in Clears(v) : Transfer(ImageOf[v], aspects, x)
    \/ Spill
    \/ FlushCommandList
    \/ \E q \in Queries : BeginQuery(q) \/ EndQuery(q)

Spec == Init /\ [][Next]_vars

-------------------------------------------------------------------------------
(* The state of the context has its type.                                     *)
TypeOK ==
    /\ ctx \in [targets          : [Slots -> Views \cup {NoView}],
                framebuffer      : Targets \cup {NoFramebuffer},
                dirtyFramebuffer : BOOLEAN,
                passBound        : BOOLEAN,
                clearTargets     : BOOLEAN,
                xfbActive        : BOOLEAN,
                pipeline         : Pipelines,
                ops              : [Slots -> AttachmentOps],
                clearValues      : [Slots -> [Aspects -> Values \cup {NoValue}]],
                active           : SUBSET Queries,
                types            : SUBSET QueryTypes,
                open             : Targets \cup {NoFramebuffer},
                content          : [Images -> [Aspects -> Contents]],
                running          : SUBSET Queries,
                miscounted       : SUBSET Queries]
    /\ expected \in [Images -> [Aspects -> Contents]]

(* At any time, if recording stopped here, every image would hold what the    *)
(* calls asked for: clearRenderTarget may leave a clear to the next render    *)
(* pass, but bindRenderTargets, a draw, a copy, a flush or a clear of another *)
(* view neither loses it, nor lets it overtake what was asked before, nor     *)
(* applies it to another image, and no render pass discards the aspects that  *)
(* it does not clear.                                                        *)
ContentsKept == SpillRenderPass(ctx).content = expected

(* A query counts every draw and dispatch of its type between beginQuery and  *)
(* endQuery, whatever render passes begin and end meanwhile, and Vulkan never *)
(* sees it run across the end of a render pass or of a command list.          *)
QueriesCountAll ==
    /\ ctx.miscounted = {}
    /\ ctx.open = NoFramebuffer => ctx.running = {}
===============================================================================

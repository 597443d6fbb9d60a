SPECIFICATION Spec
CONSTANTS
    colour = colour
    srgb = srgb
    small = small
    depth = depth
    q1 = q1
    q2 = q2
    q3 = q3
    Views <- MCViews
    NoView = NoView
    ImageOf <- MCImageOf
    AspectsOf <- MCAspectsOf
    Small = {small}
    ColorSlots = 2
    Targets <- MCTargets
    NoFramebuffer = NoFramebuffer
    Values = {x}
    NoValue = NoValue
    Queries = {q2, q3}
    TypeOf <- MCTypeOf
INVARIANTS
    TypeOK
    ContentsKept
    QueriesCountAll

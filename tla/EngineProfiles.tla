---------------------------- MODULE EngineProfiles ---------------------------
(***************************************************************************)
(* Optimization profiles: the provider options' shape lists (ParseProfile- *)
(* Shapes, ValidateProfileShapes), the three maps an execution provider    *)
(* keeps for all its fused nodes, and the profiles an engine is built with *)
(* (CreateNodeComputeInfoFromGraph, ApplyProfileShapesFromProviderOptions).*)
(*                                                                         *)
(* A shapes map is a function from input names to sequences of shapes, one *)
(* shape per profile.  An input of a network is [name, dims, shape_tensor],*)
(* a dynamic dimension being Dynamic.                                      *)
(***************************************************************************)
EXTENDS Integers, Sequences, FiniteSets, SequencesExt, Functions

Dynamic == -1
MaxDim == 32767        \* numeric_limits<int16_t>::max()
OutOfRange == -2       \* what an index past the end of a profile list reads

NoShapes == <<>>       \* the empty map: a function whose domain is empty

-----------------------------------------------------------------------------
(* The provider options *)

\* MakeInputNameShapePair on a token of the list: [name, dims]; a token with
\* no name or no dimension is rejected.
WellFormedPair(pair) == pair.name # "" /\ pair.dims # <<>>

\* ParseProfileShapes: repeated names are further profiles of that input.
ParsedShapes(pairs) ==
    [name \in {pairs[i].name : i \in DOMAIN pairs} |->
        LET own == SelectSeq(pairs, LAMBDA p : p.name = name)
        IN  [i \in DOMAIN own |-> own[i].dims]]
ParseProfileShapes(pairs) ==
    IF \A i \in DOMAIN pairs : WellFormedPair(pairs[i])
    THEN [ok |-> TRUE, shapes |-> ParsedShapes(pairs)]
    ELSE [ok |-> FALSE, shapes |-> NoShapes]

\* ValidateProfileShapes: same inputs, same number of profiles of each.
ValidateProfileShapes(min, max, opt) ==
    /\ DOMAIN max = DOMAIN min /\ DOMAIN opt = DOMAIN min
    /\ \A name \in DOMAIN min : Len(max[name]) = Len(min[name])
                             /\ Len(opt[name]) = Len(min[name])

NoProfiles == [min |-> NoShapes, max |-> NoShapes, opt |-> NoShapes]

\* The constructor's part: parse in the order min, max, opt until one fails;
\* a list that fails is cleared, the ones parsed before it stay.
ProfilesFromOptions(min, max, opt) ==
    LET pmin == ParseProfileShapes(min)
        pmax == ParseProfileShapes(max)
        popt == ParseProfileShapes(opt)
        all  == [min |-> pmin.shapes, max |-> pmax.shapes, opt |-> popt.shapes]
    IN  IF ~pmin.ok THEN NoProfiles
        ELSE IF ~pmax.ok THEN [NoProfiles EXCEPT !.min = pmin.shapes]
        ELSE IF ~popt.ok THEN [all EXCEPT !.opt = NoShapes]
        ELSE IF ValidateProfileShapes(all.min, all.max, all.opt) THEN all
        ELSE NoProfiles

-----------------------------------------------------------------------------
(* Building one engine *)

HasProfile(maps, name) == \A side \in {"min", "opt", "max"} : name \in DOMAIN maps[side]
IsExplicit(maps) == \A side \in {"min", "max", "opt"} : DOMAIN maps[side] # {}
HasDynamicDim(input) == \E d \in DOMAIN input.dims : input.dims[d] = Dynamic
IsDynamic(input) == input.shape_tensor \/ HasDynamicDim(input)   \* checkTrtTensorIsDynamic

\* GetNumProfiles takes the first input of a hash map that has a profile.
NumProfiles(min) ==
    LET counts == {Len(min[name]) : name \in DOMAIN min} \ {0}
    IN  IF counts = {} THEN {0} ELSE counts

\* The implicit profile of an input, which the maps then keep.
ImplicitDims(input, value) ==
    [d \in DOMAIN input.dims |->
        IF input.dims[d] = Dynamic THEN value ELSE input.dims[d]]

WithImplicit(maps, input) ==
    LET Put(map, value) ==
            [name \in DOMAIN map \cup {input.name} |->
                IF name = input.name THEN <<ImplicitDims(input, value)>>
                ELSE map[name]]
    IN  [min |-> Put(maps.min, 0), opt |-> Put(maps.opt, 1),
         max |-> Put(maps.max, MaxDim)]

\* The shapes of the first profile for all of them.
FirstShapeAt(map, name, i, d) == map[name][1][d]

\* An index into a profile list, as the code reads it: unchecked.
ShapeAt(map, name, i, d) ==
    IF i \in DOMAIN map[name] /\ d \in DOMAIN map[name][i]
    THEN map[name][i][d] ELSE OutOfRange

\* ApplyProfileShapesFromProviderOptions for one input and profile i.
AppliedDims(maps, input, i) ==
    LET Side(map) ==
            [d \in IF input.shape_tensor
                   THEN IF input.dims = <<>> THEN {1}
                        ELSE IF i \in DOMAIN map[input.name]
                        THEN DOMAIN map[input.name][i] ELSE {1}
                   ELSE DOMAIN input.dims |->
                IF input.shape_tensor \/ input.dims[d] = Dynamic
                THEN ShapeAt(map, input.name, i, d)
                ELSE input.dims[d]]
    IN  [min |-> Side(maps.min), opt |-> Side(maps.opt), max |-> Side(maps.max)]

\* The loop over the inputs: an input without a profile of its own gets an
\* implicit one; `explicit' was decided before the loop.
MapsAfter(maps, inputs, explicit) ==
    LET after[n \in 0 .. Len(inputs)] ==
            IF n = 0 THEN maps
            ELSE LET before == after[n - 1] IN
                 IF explicit /\ HasProfile(before, inputs[n].name) THEN before
                 ELSE WithImplicit(before, inputs[n])
    IN  after[Len(inputs)]

\* The profile part of CreateNodeComputeInfoFromGraph: the maps afterwards and
\* the profiles, one function from input names to dimensions per profile; a
\* node whose inputs are all static, before any map has an entry, has none.
\* A shape tensor alone gets no implicit profile, and the build is refused.
\* One result for every number of profiles GetNumProfiles may return.
BuiltProfiles(maps, inputs) ==
    LET explicit == IsExplicit(maps)
        dynamic  == \E i \in DOMAIN inputs : IsDynamic(inputs[i])
        after    == MapsAfter(maps, inputs, explicit)
        Named(name) == inputs[SelectInSeq(inputs, LAMBDA x : x.name = name)]
        names    == {inputs[i].name : i \in DOMAIN inputs}
        Profile(i) == [name \in names |-> AppliedDims(after, Named(name), i)]
    IN  IF ~explicit /\ ~dynamic
        THEN {[ok |-> TRUE, maps |-> maps, profiles |-> <<>>]}
        ELSE {[ok |-> explicit \/ \E i \in DOMAIN inputs : HasDynamicDim(inputs[i]),
               maps |-> after, profiles |-> [i \in 1..n |-> Profile(i)]] :
                n \in IF explicit THEN NumProfiles(maps.min) ELSE {1}}

=============================================================================

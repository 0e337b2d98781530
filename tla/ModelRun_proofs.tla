---------------------------- MODULE ModelRun_proofs ----------------------------
(***************************************************************************)
(* Theorems about whole runs, for any documents, data files, PETSc builds  *)
(* and ends of solves, any number of runs after each other in a directory, *)
(* and a kill at any point of each.                                        *)
(*                                                                         *)
(* The argument has five layers.  An accepted document is complete         *)
(* (ValidIsComplete) and yields a sound plan (PlanRead).  ControlInv       *)
(* says where the program can be and what plan it has there; SolversInv,   *)
(* what the linear systems have served.  WorkInv and DiskInv say what      *)
(* the loop has left to do and whose the files are.  CloseInv and          *)
(* ContentInv say how far the rows that a run record closes with have      *)
(* come, in the list of what is left to do and on disk.  TimedInv says     *)
(* where the checkpoints of every file stand in time, and that no two of   *)
(* one file share a label.                                                 *)
(***************************************************************************)
EXTENDS ModelRun, FiniteSetTheorems, WellFoundedInduction, TLAPS

\* What the walk has found of a node that passed: a map, a list, and a node
\* that is neither.
MapPassed(node, spec) ==
    /\ node \notin {Absent, Wrong}
    /\ DOMAIN node \subseteq DOMAIN spec.children
    /\ spec.exactlyOne => Cardinality(DOMAIN node) = 1
    /\ \A key \in DOMAIN spec.children :
          key \notin DOMAIN node => (spec.children[key].required => spec.exactlyOne)

ListPassed(node, spec) ==
    node \notin {Absent, Wrong} /\ IsList(node) /\ Len(node) >= spec.minItems

LeafPassed(node, spec, fs) ==
    /\ spec.type = "scalar" => node \in spec.values
    /\ spec.type = "text"   => node \in STRING
    /\ spec.type = "path"   => node \in fs
    /\ spec.type = "number" => /\ IsNumber(node)
                               /\ NumberOf(node) >= spec.least
                               /\ NumberOf(node) <= spec.most
                               /\ NumberOf(node) % spec.step = 0

Passed(node, spec, fs) ==
    /\ spec.type = "map" => MapPassed(node, spec)
    /\ spec.type = "sequence" => ListPassed(node, spec)
    /\ LeafPassed(node, spec, fs)

-----------------------------------------------------------------------------
(***************************************************************************)
(* What the walk finds at each level of a document, of the node and of the *)
(* nodes below it.                                                         *)
(***************************************************************************)
LEMMA Walk1 ==
    ASSUME NEW node, NEW spec, NEW fs, checkNode(node, spec, fs)
    PROVE  /\ Passed(node, spec, fs)
           /\ spec.type = "map" => \A key \in DOMAIN spec.children \cap DOMAIN node :
                 checkLevel2(node[key], spec.children[key], fs)
           /\ spec.type = "sequence" => \A n \in DOMAIN node :
                 checkLevel2(node[n], spec.element, fs)
<1>1. ASSUME spec.type = "map"
      PROVE  /\ MapPassed(node, spec)
             /\ \A key \in DOMAIN spec.children \cap DOMAIN node :
                    checkLevel2(node[key], spec.children[key], fs)
  BY <1>1 DEF checkNode, checkLevel, checkMap, MapPassed
<1>2. ASSUME spec.type = "sequence"
      PROVE  ListPassed(node, spec) /\ \A n \in DOMAIN node : checkLevel2(node[n], spec.element, fs)
  BY <1>2 DEF checkNode, checkLevel, ListPassed
<1>3. ASSUME spec.type = "scalar" PROVE node \in spec.values
  BY <1>3 DEF checkNode, checkLevel
<1>4. ASSUME spec.type = "text" PROVE node \in STRING
  BY <1>4 DEF checkNode, checkLevel
<1>5. ASSUME spec.type = "path" PROVE node \in fs
  BY <1>5 DEF checkNode, checkLevel
<1>6. ASSUME spec.type = "number"
      PROVE  /\ IsNumber(node)
             /\ NumberOf(node) >= spec.least
             /\ NumberOf(node) <= spec.most
             /\ NumberOf(node) % spec.step = 0
  BY <1>6 DEF checkNode, checkLevel
<1> QED  BY <1>1, <1>2, <1>3, <1>4, <1>5, <1>6 DEF Passed, LeafPassed

LEMMA Walk2 ==
    ASSUME NEW node, NEW spec, NEW fs, checkLevel2(node, spec, fs)
    PROVE  /\ Passed(node, spec, fs)
           /\ spec.type = "map" => \A key \in DOMAIN spec.children \cap DOMAIN node :
                 checkLevel3(node[key], spec.children[key], fs)
           /\ spec.type = "sequence" => \A n \in DOMAIN node :
                 checkLevel3(node[n], spec.element, fs)
<1>1. ASSUME spec.type = "map"
      PROVE  /\ MapPassed(node, spec)
             /\ \A key \in DOMAIN spec.children \cap DOMAIN node :
                    checkLevel3(node[key], spec.children[key], fs)
  BY <1>1 DEF checkLevel2, checkLevel, checkMap, MapPassed
<1>2. ASSUME spec.type = "sequence"
      PROVE  ListPassed(node, spec) /\ \A n \in DOMAIN node : checkLevel3(node[n], spec.element, fs)
  BY <1>2 DEF checkLevel2, checkLevel, ListPassed
<1>3. ASSUME spec.type = "scalar" PROVE node \in spec.values
  BY <1>3 DEF checkLevel2, checkLevel
<1>4. ASSUME spec.type = "text" PROVE node \in STRING
  BY <1>4 DEF checkLevel2, checkLevel
<1>5. ASSUME spec.type = "path" PROVE node \in fs
  BY <1>5 DEF checkLevel2, checkLevel
<1>6. ASSUME spec.type = "number"
      PROVE  /\ IsNumber(node)
             /\ NumberOf(node) >= spec.least
             /\ NumberOf(node) <= spec.most
             /\ NumberOf(node) % spec.step = 0
  BY <1>6 DEF checkLevel2, checkLevel
<1> QED  BY <1>1, <1>2, <1>3, <1>4, <1>5, <1>6 DEF Passed, LeafPassed

LEMMA Walk3 ==
    ASSUME NEW node, NEW spec, NEW fs, checkLevel3(node, spec, fs)
    PROVE  /\ Passed(node, spec, fs)
           /\ spec.type = "map" => \A key \in DOMAIN spec.children \cap DOMAIN node :
                 checkLevel4(node[key], spec.children[key], fs)
           /\ spec.type = "sequence" => \A n \in DOMAIN node :
                 checkLevel4(node[n], spec.element, fs)
<1>1. ASSUME spec.type = "map"
      PROVE  /\ MapPassed(node, spec)
             /\ \A key \in DOMAIN spec.children \cap DOMAIN node :
                    checkLevel4(node[key], spec.children[key], fs)
  BY <1>1 DEF checkLevel3, checkLevel, checkMap, MapPassed
<1>2. ASSUME spec.type = "sequence"
      PROVE  ListPassed(node, spec) /\ \A n \in DOMAIN node : checkLevel4(node[n], spec.element, fs)
  BY <1>2 DEF checkLevel3, checkLevel, ListPassed
<1>3. ASSUME spec.type = "scalar" PROVE node \in spec.values
  BY <1>3 DEF checkLevel3, checkLevel
<1>4. ASSUME spec.type = "text" PROVE node \in STRING
  BY <1>4 DEF checkLevel3, checkLevel
<1>5. ASSUME spec.type = "path" PROVE node \in fs
  BY <1>5 DEF checkLevel3, checkLevel
<1>6. ASSUME spec.type = "number"
      PROVE  /\ IsNumber(node)
             /\ NumberOf(node) >= spec.least
             /\ NumberOf(node) <= spec.most
             /\ NumberOf(node) % spec.step = 0
  BY <1>6 DEF checkLevel3, checkLevel
<1> QED  BY <1>1, <1>2, <1>3, <1>4, <1>5, <1>6 DEF Passed, LeafPassed

LEMMA Walk4 ==
    ASSUME NEW node, NEW spec, NEW fs, checkLevel4(node, spec, fs)
    PROVE  /\ Passed(node, spec, fs)
           /\ spec.type = "map" => \A key \in DOMAIN spec.children \cap DOMAIN node :
                 checkLevel5(node[key], spec.children[key], fs)
           /\ spec.type = "sequence" => \A n \in DOMAIN node :
                 checkLevel5(node[n], spec.element, fs)
<1>1. ASSUME spec.type = "map"
      PROVE  /\ MapPassed(node, spec)
             /\ \A key \in DOMAIN spec.children \cap DOMAIN node :
                    checkLevel5(node[key], spec.children[key], fs)
  BY <1>1 DEF checkLevel4, checkLevel, checkMap, MapPassed
<1>2. ASSUME spec.type = "sequence"
      PROVE  ListPassed(node, spec) /\ \A n \in DOMAIN node : checkLevel5(node[n], spec.element, fs)
  BY <1>2 DEF checkLevel4, checkLevel, ListPassed
<1>3. ASSUME spec.type = "scalar" PROVE node \in spec.values
  BY <1>3 DEF checkLevel4, checkLevel
<1>4. ASSUME spec.type = "text" PROVE node \in STRING
  BY <1>4 DEF checkLevel4, checkLevel
<1>5. ASSUME spec.type = "path" PROVE node \in fs
  BY <1>5 DEF checkLevel4, checkLevel
<1>6. ASSUME spec.type = "number"
      PROVE  /\ IsNumber(node)
             /\ NumberOf(node) >= spec.least
             /\ NumberOf(node) <= spec.most
             /\ NumberOf(node) % spec.step = 0
  BY <1>6 DEF checkLevel4, checkLevel
<1> QED  BY <1>1, <1>2, <1>3, <1>4, <1>5, <1>6 DEF Passed, LeafPassed

LEMMA Walk5 ==
    ASSUME NEW node, NEW spec, NEW fs, checkLevel5(node, spec, fs)
    PROVE  /\ Passed(node, spec, fs)
           /\ spec.type = "map" => \A key \in DOMAIN spec.children \cap DOMAIN node :
                 checkLevel6(node[key], spec.children[key], fs)
           /\ spec.type = "sequence" => \A n \in DOMAIN node :
                 checkLevel6(node[n], spec.element, fs)
<1>1. ASSUME spec.type = "map"
      PROVE  /\ MapPassed(node, spec)
             /\ \A key \in DOMAIN spec.children \cap DOMAIN node :
                    checkLevel6(node[key], spec.children[key], fs)
  BY <1>1 DEF checkLevel5, checkLevel, checkMap, MapPassed
<1>2. ASSUME spec.type = "sequence"
      PROVE  ListPassed(node, spec) /\ \A n \in DOMAIN node : checkLevel6(node[n], spec.element, fs)
  BY <1>2 DEF checkLevel5, checkLevel, ListPassed
<1>3. ASSUME spec.type = "scalar" PROVE node \in spec.values
  BY <1>3 DEF checkLevel5, checkLevel
<1>4. ASSUME spec.type = "text" PROVE node \in STRING
  BY <1>4 DEF checkLevel5, checkLevel
<1>5. ASSUME spec.type = "path" PROVE node \in fs
  BY <1>5 DEF checkLevel5, checkLevel
<1>6. ASSUME spec.type = "number"
      PROVE  /\ IsNumber(node)
             /\ NumberOf(node) >= spec.least
             /\ NumberOf(node) <= spec.most
             /\ NumberOf(node) % spec.step = 0
  BY <1>6 DEF checkLevel5, checkLevel
<1> QED  BY <1>1, <1>2, <1>3, <1>4, <1>5, <1>6 DEF Passed, LeafPassed

LEMMA Walk6 ==
    ASSUME NEW node, NEW spec, NEW fs, checkLevel6(node, spec, fs)
    PROVE  /\ spec.type = "scalar" => node \in spec.values
           /\ spec.type = "text" => node \in STRING
<1>1. ASSUME spec.type = "scalar" PROVE node \in spec.values
  BY <1>1 DEF checkLevel6, checkLevel
<1>2. ASSUME spec.type = "text" PROVE node \in STRING
  BY <1>2 DEF checkLevel6, checkLevel
<1> QED  BY <1>1, <1>2

LEMMA Sections ==
    /\ rootSchema.type = "map" /\ ~rootSchema.exactlyOne
    /\ DOMAIN rootSchema.children =
          {"simulation", "domain", "time", "modules", "surface_water", "atmosphere",
           "groundwater", "soil", "coupling", "initial_conditions", "boundary_conditions",
           "transport", "temperature", "output", "restart", "solver", "runtime"}
    /\ \A key \in {"simulation", "domain", "time", "modules"} :
          rootSchema.children[key] = runSections[key]
    /\ rootSchema.children["surface_water"] = surfaceSection["surface_water"]
    /\ rootSchema.children["atmosphere"] = atmosphereSection["atmosphere"]
    /\ \A key \in {"groundwater", "soil", "coupling"} :
          rootSchema.children[key] = groundwaterSections[key]
    /\ \A key \in {"initial_conditions", "boundary_conditions"} :
          rootSchema.children[key] = conditionSections[key]
    /\ \A key \in {"transport", "temperature"} :
          rootSchema.children[key] = scalarSections[key]
    /\ \A key \in {"output", "restart", "solver", "runtime"} :
          rootSchema.children[key] = serviceSections[key]
<1> DEFINE tail1 == joined(scalarSections, serviceSections)
           tail2 == joined(conditionSections, tail1)
           tail3 == joined(groundwaterSections, tail2)
           tail4 == joined(atmosphereSection, tail3)
           tail5 == joined(surfaceSection, tail4)
           tail6 == joined(runSections, tail5)
<1>1. /\ DOMAIN runSections = {"simulation", "domain", "time", "modules"}
      /\ DOMAIN surfaceSection = {"surface_water"}
      /\ DOMAIN atmosphereSection = {"atmosphere"}
      /\ DOMAIN groundwaterSections = {"groundwater", "soil", "coupling"}
      /\ DOMAIN conditionSections = {"initial_conditions", "boundary_conditions"}
      /\ DOMAIN scalarSections = {"transport", "temperature"}
      /\ DOMAIN serviceSections = {"output", "restart", "solver", "runtime"}
  BY DEF runSections, surfaceSection, atmosphereSection, groundwaterSections, conditionSections,
         scalarSections, serviceSections
<1>3. rootSchema.type = "map" /\ ~rootSchema.exactlyOne /\ rootSchema.children = tail6
  BY DEF rootSchema, map
<1> HIDE DEF tail1, tail2, tail3, tail4, tail5, tail6
<1>4. /\ DOMAIN tail1 = {"transport", "temperature", "output", "restart", "solver", "runtime"}
      /\ \A key \in {"transport", "temperature"} : tail1[key] = scalarSections[key]
      /\ \A key \in {"output", "restart", "solver", "runtime"} : tail1[key] = serviceSections[key]
  BY <1>1 DEF tail1, joined
<1>5. /\ DOMAIN tail2 = {"initial_conditions", "boundary_conditions"} \cup DOMAIN tail1
      /\ \A key \in DOMAIN tail1 : tail2[key] = tail1[key]
      /\ \A key \in {"initial_conditions", "boundary_conditions"} : tail2[key] = conditionSections[key]
  BY <1>1, <1>4 DEF tail2, joined
<1>6. /\ DOMAIN tail3 = {"groundwater", "soil", "coupling"} \cup DOMAIN tail2
      /\ \A key \in DOMAIN tail2 : tail3[key] = tail2[key]
      /\ \A key \in {"groundwater", "soil", "coupling"} : tail3[key] = groundwaterSections[key]
  BY <1>1, <1>4, <1>5 DEF tail3, joined
<1>7. /\ DOMAIN tail4 = {"atmosphere"} \cup DOMAIN tail3
      /\ \A key \in DOMAIN tail3 : tail4[key] = tail3[key]
      /\ tail4["atmosphere"] = atmosphereSection["atmosphere"]
  BY <1>1, <1>4, <1>5, <1>6 DEF tail4, joined
<1>8. /\ DOMAIN tail5 = {"surface_water"} \cup DOMAIN tail4
      /\ \A key \in DOMAIN tail4 : tail5[key] = tail4[key]
      /\ tail5["surface_water"] = surfaceSection["surface_water"]
  BY <1>1, <1>4, <1>5, <1>6, <1>7 DEF tail5, joined
<1>9. /\ DOMAIN tail6 = {"simulation", "domain", "time", "modules"} \cup DOMAIN tail5
      /\ \A key \in DOMAIN tail5 : tail6[key] = tail5[key]
      /\ \A key \in {"simulation", "domain", "time", "modules"} : tail6[key] = runSections[key]
  BY <1>1, <1>4, <1>5, <1>6, <1>7, <1>8 DEF tail6, joined
<1> QED BY <1>3, <1>4, <1>5, <1>6, <1>7, <1>8, <1>9

LEMMA NumberPassed ==
    ASSUME NEW node, NEW least \in Int, NEW most, NEW step, NEW fs,
           \/ LeafPassed(node, number(least, most, step), fs)
           \/ LeafPassed(node, Req(number(least, most, step)), fs)
    PROVE  /\ NumberOf(node) \in Int /\ NumberOf(node) >= least
           /\ NumberOf(node) % step = 0
           /\ node # Absent
<1>1. IsNumber(node) /\ NumberOf(node) >= least /\ NumberOf(node) % step = 0
  BY DEF LeafPassed, number, Req
<1>2. NumberOf(node) \in Int /\ node # Absent
  BY <1>1, AbsentAssumption DEF IsNumber, NumberOf
<1> QED  BY <1>1, <1>2

\* A key a document may leave out.
LEMMA OptionalNumber ==
    ASSUME NEW node, NEW key, NEW numbers, NEW fallback \in numbers,
           key \in DOMAIN node => NumberOf(node[key]) \in numbers
    PROVE  numberOr(Sub(node, key), fallback) \in numbers
<1>1. CASE Sub(node, key) = Absent
  BY <1>1 DEF numberOr, Given
<1>2. CASE Sub(node, key) # Absent
  <2>1. key \in DOMAIN node /\ Sub(node, key) = node[key]
    BY <1>2 DEF Sub
  <2> QED  BY <1>2, <2>1 DEF numberOr, Given
<1> QED  BY <1>1, <1>2

Seconds == {t \in Nat : t % Second = 0}

LEMMA RootPassed ==
    ASSUME NEW root, NEW fs, validateRoot(root, fs)
    PROVE  /\ root \notin {Absent, Wrong}
           /\ {"simulation", "domain", "time", "modules", "output"} \subseteq DOMAIN root
           /\ \A key \in DOMAIN root : /\ key \in DOMAIN rootSchema.children
                                       /\ checkLevel2(root[key], rootSchema.children[key], fs)
<1>1. /\ Passed(root, rootSchema, fs)
      /\ rootSchema.type = "map" => \A key \in DOMAIN rootSchema.children \cap DOMAIN root :
            checkLevel2(root[key], rootSchema.children[key], fs)
  BY Walk1 DEF validateRoot
<1>2. MapPassed(root, rootSchema)
  BY <1>1, Sections DEF Passed
<1>3. /\ runSections["simulation"].required /\ runSections["domain"].required
      /\ runSections["time"].required /\ runSections["modules"].required
      /\ serviceSections["output"].required
  BY DEF runSections, serviceSections, Req, map
<1>4. {"simulation", "domain", "time", "modules", "output"} \subseteq DOMAIN root
  BY <1>2, <1>3, Sections DEF MapPassed
<1>5. DOMAIN root \subseteq DOMAIN rootSchema.children /\ root \notin {Absent, Wrong}
  BY <1>2 DEF MapPassed
<1> QED  BY <1>1, <1>4, <1>5, Sections

LEMMA TimeRead ==
    ASSUME NEW root, NEW fs, validateRoot(root, fs)
    PROVE  LET time == loadConfig(root).time
           IN /\ time.dt \in Nat \ {0}
              /\ time.tStart \in Nat /\ time.tStart % Second = 0
              /\ time.tEnd \in Nat /\ time.tEnd > time.tStart
              /\ time.outputInterval \in Nat \ {0} /\ time.outputInterval % Second = 0
<1> DEFINE node == root["time"]
           spec == runSections["time"]
<1>1. checkLevel2(node, spec, fs) /\ Sub(root, "time") = node /\ root.time = node
  BY RootPassed, Sections DEF Sub
<1>2. /\ spec.type = "map" /\ ~spec.exactlyOne
      /\ spec.children = [dt |-> Req(realPositive), t_start |-> integerSeconds(0),
                          t_end |-> Req(realPositive), output_interval |-> Req(integerSeconds(1))]
  BY DEF runSections, map, Req
<1>3. /\ MapPassed(node, spec)
      /\ \A key \in DOMAIN spec.children \cap DOMAIN node :
            checkLevel3(node[key], spec.children[key], fs)
  BY <1>1, <1>2, Walk2 DEF Passed
<1>4. {"dt", "t_end", "output_interval"} \subseteq DOMAIN node
  BY <1>2, <1>3 DEF MapPassed, Req, realPositive, integerSeconds, number
<1>5. /\ checkLevel3(node["dt"], Req(realPositive), fs)
      /\ checkLevel3(node["t_end"], Req(realPositive), fs)
      /\ checkLevel3(node["output_interval"], Req(integerSeconds(1)), fs)
      /\ "t_start" \in DOMAIN node => checkLevel3(node["t_start"], integerSeconds(0), fs)
  BY <1>2, <1>3, <1>4
<1>6. /\ LeafPassed(node["dt"], Req(realPositive), fs)
      /\ LeafPassed(node["t_end"], Req(realPositive), fs)
      /\ LeafPassed(node["output_interval"], Req(integerSeconds(1)), fs)
      /\ "t_start" \in DOMAIN node => LeafPassed(node["t_start"], integerSeconds(0), fs)
  BY <1>5, Walk3 DEF Passed
<1> DEFINE begins == numberOr(Sub(node, "t_start"), 0)
<1>7. begins \in Seconds
  <2>1. 0 \in Seconds
    BY SecondAssumption DEF Seconds
  <2>2. "t_start" \in DOMAIN node => NumberOf(node["t_start"]) \in Seconds
    BY <1>6, NumberPassed DEF integerSeconds, Seconds
  <2> HIDE DEF node
  <2> QED  BY <2>1, <2>2, OptionalNumber
<1>8. NumberOf(node["dt"]) \in Int /\ NumberOf(node["dt"]) >= 1
  BY <1>6, NumberPassed DEF realPositive
<1>9. NumberOf(node["t_end"]) \in Int /\ NumberOf(node["t_end"]) >= 1
  BY <1>6, NumberPassed DEF realPositive
<1>10. /\ NumberOf(node["output_interval"]) \in Int /\ NumberOf(node["output_interval"]) >= 1
       /\ NumberOf(node["output_interval"]) % Second = 0
  BY <1>6, NumberPassed DEF integerSeconds
<1>11. NumberOf(node["t_end"]) > begins
  BY <1>1 DEF validateRoot, crossChecks, timeCheck
<1>12. loadConfig(root).time = [dt |-> NumberOf(node["dt"]), tStart |-> begins,
              tEnd |-> NumberOf(node["t_end"]),
              outputInterval |-> NumberOf(node["output_interval"])]
  BY <1>1 DEF loadConfig, extractTime
<1> HIDE DEF begins, node, spec
<1> QED  BY <1>7, <1>8, <1>9, <1>10, <1>11, <1>12 DEF Seconds

LEMMA SystemRead ==
    ASSUME NEW root, NEW fs, validateRoot(root, fs), NEW name \in {"surface", "groundwater"}
    PROVE  LET system == loadConfig(root).solver[name]
           IN system.reuseMaxSolves \in Nat /\ system.reuseIterationFactor \in Nat
<1> DEFINE solver == Sub(root, "solver")
           node == Sub(solver, name)
           spec == serviceSections["solver"]
<1>1. spec = map([surface |-> solverSystem, groundwater |-> solverSystem,
                  petsc_options_file |-> text])
  BY DEF serviceSections
<1>2. /\ solverSystem.type = "map" /\ ~solverSystem.exactlyOne
      /\ {"reuse_max_solves", "reuse_iteration_factor"} \subseteq DOMAIN solverSystem.children
      /\ solverSystem.children["reuse_max_solves"] = integer(0)
      /\ solverSystem.children["reuse_iteration_factor"] = number(10, Unbounded, 1)
  BY DEF solverSystem, map
<1>3. ASSUME solver # Absent PROVE checkLevel2(solver, spec, fs)
  <2>1. "solver" \in DOMAIN root /\ solver = root["solver"]
    BY <1>3 DEF Sub
  <2> QED  BY <2>1, RootPassed, Sections
<1>4. ASSUME node # Absent PROVE checkLevel3(node, solverSystem, fs)
  <2>1. solver # Absent /\ name \in DOMAIN solver /\ node = solver[name]
    BY <1>4 DEF Sub
  <2>2. checkLevel2(solver, spec, fs)
    BY <1>3, <2>1
  <2>3. spec.type = "map" /\ name \in DOMAIN spec.children /\ spec.children[name] = solverSystem
    BY <1>1 DEF map
  <2> QED  BY <2>1, <2>2, <2>3, Walk2
<1>5. ASSUME NEW key \in {"reuse_max_solves", "reuse_iteration_factor"}, key \in DOMAIN node,
             node # Absent
      PROVE  LeafPassed(node[key], solverSystem.children[key], fs)
  <2>1. checkLevel4(node[key], solverSystem.children[key], fs)
    BY <1>2, <1>4, <1>5, Walk3
  <2> QED  BY <2>1, Walk4 DEF Passed
<1>6. \A key : Sub(Absent, key) = Absent
  BY DEF Sub
<1>7. numberOr(Sub(node, "reuse_max_solves"), 50) \in Nat
  <2>1. CASE node = Absent
    BY <1>6, <2>1 DEF numberOr, Given
  <2>2. CASE node # Absent
    <3>1. "reuse_max_solves" \in DOMAIN node => NumberOf(node["reuse_max_solves"]) \in Nat
      BY <1>2, <1>5, <2>2, NumberPassed DEF integer
    <3> HIDE DEF node
    <3> QED  BY <3>1, OptionalNumber
  <2> QED  BY <2>1, <2>2
<1>8. numberOr(Sub(node, "reuse_iteration_factor"), 15) \in Nat
  <2>1. CASE node = Absent
    BY <1>6, <2>1 DEF numberOr, Given
  <2>2. CASE node # Absent
    <3>1. "reuse_iteration_factor" \in DOMAIN node => NumberOf(node["reuse_iteration_factor"]) \in Nat
      BY <1>2, <1>5, <2>2, NumberPassed DEF integer
    <3> HIDE DEF node
    <3> QED  BY <3>1, OptionalNumber
  <2> QED  BY <2>1, <2>2
<1>9. loadConfig(root).solver[name]
        = extractSystem(node, IF name = "surface" THEN 500 ELSE 1000)
  <2>1. CASE name = "surface"
    <3>1. loadConfig(root).solver["surface"] = extractSystem(Sub(solver, "surface"), 500)
      BY DEF loadConfig, Sub2
    <3> QED  BY <2>1, <3>1
  <2>2. CASE name = "groundwater"
    <3>1. loadConfig(root).solver["groundwater"]
            = extractSystem(Sub(solver, "groundwater"), 1000)
      BY DEF loadConfig, Sub2
    <3> QED  BY <2>2, <3>1
  <2> QED  BY <2>1, <2>2
<1> HIDE DEF node
<1> QED  BY <1>7, <1>8, <1>9 DEF extractSystem

LEMMA ModulesRead ==
    ASSUME NEW root, NEW fs, validateRoot(root, fs)
    PROVE  LET modules == loadConfig(root).modules
           IN /\ modules = [surfaceWater |-> moduleOn(root, "surface_water"),
                         groundwater |-> moduleOn(root, "groundwater"),
                         transport |-> moduleOn(root, "transport"),
                         temperature |-> moduleOn(root, "temperature")]
              /\ modules.surfaceWater \/ modules.groundwater
              /\ modules.surfaceWater => Given(Sub(root, "surface_water"))
              /\ modules.groundwater => Given(Sub(root, "groundwater")) /\ Given(Sub(root, "soil"))
              /\ modules.transport => Given(Sub(root, "transport"))
              /\ modules.temperature => Given(Sub(root, "temperature"))
<1>1. Sub(root, "modules") = root["modules"]
  BY RootPassed DEF Sub
<1>2. modulesCheck(root)
  BY DEF validateRoot, crossChecks
<1>3. loadConfig(root).modules
        = [surfaceWater |-> moduleOn(root, "surface_water"),
           groundwater |-> moduleOn(root, "groundwater"),
           transport |-> moduleOn(root, "transport"),
           temperature |-> moduleOn(root, "temperature")]
  BY <1>1 DEF loadConfig, extractModules, moduleOn, Sub2, Flag
<1> QED  BY <1>2, <1>3 DEF modulesCheck

LEMMA FirstStepRead ==
    ASSUME NEW root, NEW fs, validateRoot(root, fs), Given(Sub(root, "groundwater"))
    PROVE  loadConfig(root).groundwater.dtInit \in Nat \ {0}
<1> DEFINE node == root["groundwater"]
           spec == groundwaterSections["groundwater"]
           inner == spec.children["timestep"]
           steps == node["timestep"]
<1>1. Sub(root, "groundwater") = node /\ checkLevel2(node, spec, fs)
  <2>1. "groundwater" \in DOMAIN root /\ Sub(root, "groundwater") = node
    BY DEF Sub, Given
  <2> QED  BY <2>1, RootPassed, Sections
<1>2. /\ spec.type = "map" /\ ~spec.exactlyOne /\ "timestep" \in DOMAIN spec.children
      /\ inner.type = "map" /\ ~inner.exactlyOne /\ inner.required
      /\ "dt_init" \in DOMAIN inner.children
      /\ inner.children["dt_init"] = Req(realPositive)
      /\ inner.children["dt_init"].required
  BY DEF groundwaterSections, map, Req, realPositive, number
<1>3. "timestep" \in DOMAIN node /\ checkLevel3(steps, inner, fs)
  BY <1>1, <1>2, Walk2 DEF Passed, MapPassed
<1>4. "dt_init" \in DOMAIN steps /\ checkLevel4(steps["dt_init"], Req(realPositive), fs)
  BY <1>2, <1>3, Walk3 DEF Passed, MapPassed
<1>5. LeafPassed(steps["dt_init"], Req(realPositive), fs)
  BY <1>4, Walk4 DEF Passed
<1>6. NumberOf(steps["dt_init"]) \in Int /\ NumberOf(steps["dt_init"]) >= 1
  BY <1>5, NumberPassed DEF realPositive
<1>7. loadConfig(root).groundwater = extractGroundwater(node)
  BY <1>1 DEF loadConfig, IfGiven
<1>8. extractGroundwater(node).dtInit = NumberOf(steps["dt_init"])
  BY DEF extractGroundwater
<1> QED  BY <1>6, <1>7, <1>8

LEMMA OutputRead ==
    ASSUME NEW root, NEW fs, validateRoot(root, fs)
    PROVE  LET output == loadConfig(root).output
           IN /\ output.filename \in STRING /\ output.filename = Sub2(root, "output", "filename")
              /\ output.checkpointInterval \in Seconds
              /\ output.monitors \in Seq(Elements(output.monitors))
              /\ \A n \in DOMAIN output.monitors : output.monitors[n].name \in STRING
<1> DEFINE node == root["output"]
           spec == serviceSections["output"]
           kids == spec.children
           saving == Sub(node, "checkpoint")
           mons == ListOr(Sub(node, "monitors"))
<1>1. Sub(root, "output") = node /\ root.output = node /\ checkLevel2(node, spec, fs)
  BY RootPassed, Sections DEF Sub
<1>2. /\ spec.type = "map" /\ ~spec.exactlyOne
      /\ DOMAIN kids = {"filename", "variables", "monitors", "checkpoint"}
      /\ kids["filename"] = Req(text) /\ kids["filename"].required
      /\ kids["monitors"] = sequence(monitorEntry, 0)
      /\ kids["checkpoint"] = map([interval |-> integerSeconds(0)])
  BY DEF serviceSections, map, Req, text
<1>3. /\ "filename" \in DOMAIN node /\ node \notin {Absent, Wrong}
      /\ \A key \in DOMAIN kids \cap DOMAIN node : checkLevel3(node[key], kids[key], fs)
  BY <1>1, <1>2, Walk2 DEF Passed, MapPassed
<1>4. node.filename \in STRING
  <2>1. checkLevel3(node["filename"], Req(text), fs) /\ Req(text).type = "text"
    BY <1>2, <1>3 DEF Req, text
  <2> QED  BY <2>1, Walk3 DEF Passed, LeafPassed
<1>5. numberOr(Sub(saving, "interval"), 0) \in Seconds
  <2>1. 0 \in Seconds
    BY SecondAssumption DEF Seconds
  <2>2. CASE saving = Absent
    BY <2>1, <2>2 DEF Sub, numberOr, Given
  <2>3. CASE saving # Absent
    <3>1. "checkpoint" \in DOMAIN node /\ saving = node["checkpoint"]
      BY <2>3 DEF Sub
    <3>2. checkLevel3(saving, kids["checkpoint"], fs)
      BY <1>2, <1>3, <3>1
    <3>3. kids["checkpoint"].type = "map" /\ DOMAIN kids["checkpoint"].children = {"interval"}
          /\ kids["checkpoint"].children["interval"] = integerSeconds(0)
      BY <1>2 DEF map
    <3>4. "interval" \in DOMAIN saving => checkLevel4(saving["interval"], integerSeconds(0), fs)
      BY <3>2, <3>3, Walk3
    <3>5. "interval" \in DOMAIN saving => NumberOf(saving["interval"]) \in Seconds
      <4> HAVE "interval" \in DOMAIN saving
      <4>1. LeafPassed(saving["interval"], integerSeconds(0), fs)
        BY <3>4, Walk4 DEF Passed
      <4> QED  BY <4>1, NumberPassed DEF integerSeconds, Seconds
    <3> HIDE DEF saving
    <3> QED  BY <2>1, <3>5, OptionalNumber
  <2> QED  BY <2>2, <2>3
<1>6. mons \in Seq(Elements(mons)) /\ \A n \in DOMAIN mons : mons[n].name \in STRING
  <2>1. CASE Sub(node, "monitors") = Absent
    BY <2>1 DEF ListOr, Given
  <2>2. CASE Sub(node, "monitors") # Absent
    <3>1. "monitors" \in DOMAIN node /\ mons = node["monitors"]
      BY <2>2 DEF Sub, ListOr, Given
    <3>2. checkLevel3(mons, kids["monitors"], fs)
      BY <1>2, <1>3, <3>1
    <3>3. kids["monitors"].type = "sequence" /\ kids["monitors"].element = monitorEntry
      BY <1>2 DEF sequence
    <3>4. ListPassed(mons, kids["monitors"]) /\ \A n \in DOMAIN mons : checkLevel4(mons[n], monitorEntry, fs)
      BY <3>2, <3>3, Walk3 DEF Passed
    <3>5. /\ monitorEntry.type = "map" /\ ~monitorEntry.exactlyOne
          /\ "name" \in DOMAIN monitorEntry.children
          /\ monitorEntry.children["name"] = Req(text) /\ Req(text).required
          /\ Req(text).type = "text"
      BY DEF monitorEntry, map, Req, text
    <3>6. ASSUME NEW n \in DOMAIN mons PROVE mons[n].name \in STRING
      <4>1. "name" \in DOMAIN mons[n] /\ checkLevel5(mons[n]["name"], Req(text), fs)
        BY <3>4, <3>5, Walk4 DEF Passed, MapPassed
      <4> QED  BY <3>5, <4>1, Walk5 DEF Passed, LeafPassed
    <3> QED  BY <3>4, <3>6 DEF ListPassed, IsList
  <2> QED  BY <2>1, <2>2
<1>7. /\ loadConfig(root).output = extractOutput(node)
      /\ extractOutput(node).filename = node.filename
      /\ extractOutput(node).checkpointInterval = numberOr(Sub(saving, "interval"), 0)
      /\ extractOutput(node).monitors
           = [n \in DOMAIN mons |-> [name |-> mons[n].name, i |-> NumberOf(mons[n].i),
                                     j |-> NumberOf(mons[n].j), variables |-> mons[n].variables]]
  BY <1>1 DEF loadConfig, extractOutput, Sub2
<1>8. Sub2(root, "output", "filename") = node.filename
  BY <1>1, <1>3 DEF Sub2, Sub
<1> DEFINE monitors == extractOutput(node).monitors
<1>9. monitors \in Seq(Elements(monitors))
  <2> DEFINE f(n) == [name |-> mons[n].name, i |-> NumberOf(mons[n].i),
                      j |-> NumberOf(mons[n].j), variables |-> mons[n].variables]
  <2>1. DOMAIN mons = 1..Len(mons) /\ Len(mons) \in Nat
    BY <1>6
  <2>2. monitors = [n \in 1..Len(mons) |-> f(n)]
    BY <1>7, <2>1
  <2> HIDE DEF f, mons
  <2> QED  BY <2>1, <2>2 DEF Elements
<1>10. \A n \in DOMAIN monitors : monitors[n].name \in STRING
  BY <1>6, <1>7
<1> HIDE DEF node, saving, mons
<1> QED  BY <1>4, <1>5, <1>7, <1>8, <1>9, <1>10

LEMMA VariablesRead ==
    ASSUME NEW root, NEW fs, validateRoot(root, fs),
           NEW key \in {"surface", "groundwater", "transport", "temperature"}
    PROVE  LET names == ListOr(Sub(Sub(root.output, "variables"), key))
           IN names \in Seq(Elements(names))
<1> DEFINE node == root["output"]
           spec == serviceSections["output"]
           inner == spec.children["variables"]
           lists == Sub(node, "variables")
           names == ListOr(Sub(lists, key))
<1>1. checkLevel2(node, spec, fs)
  BY RootPassed, Sections
<1>2. /\ spec.type = "map" /\ "variables" \in DOMAIN spec.children
      /\ inner.type = "map" /\ key \in DOMAIN inner.children
      /\ inner.children[key].type = "sequence"
  BY DEF serviceSections, map, Req, sequence
<1>3. CASE Sub(lists, key) = Absent
  BY <1>3 DEF ListOr, Given
<1>4. CASE Sub(lists, key) # Absent
  <2>1. lists # Absent /\ key \in DOMAIN lists /\ names = lists[key]
    BY <1>4 DEF Sub, ListOr, Given
  <2>2. "variables" \in DOMAIN node /\ lists = node["variables"]
    BY <2>1 DEF Sub
  <2>3. checkLevel3(lists, inner, fs)
    BY <1>1, <1>2, <2>2, Walk2
  <2>4. checkLevel4(names, inner.children[key], fs)
    BY <1>2, <2>1, <2>3, Walk3
  <2> QED  BY <1>2, <2>4, Walk4 DEF Passed, ListPassed, IsList
<1> QED  BY <1>3, <1>4

LEMMA RestartRead ==
    ASSUME NEW root, NEW fs, validateRoot(root, fs)
    PROVE  LET restart == loadConfig(root).restart
           IN restart.time \in Int /\ restart.enabled \in BOOLEAN
<1> DEFINE node == Sub(root, "restart")
           spec == serviceSections["restart"]
<1>1. /\ spec.type = "map" /\ "time" \in DOMAIN spec.children
      /\ spec.children["time"] = real
  BY DEF serviceSections, map
<1>2. ASSUME node # Absent, "time" \in DOMAIN node
      PROVE  NumberOf(node["time"]) \in Int
  <2>1. "restart" \in DOMAIN root /\ node = root["restart"]
    BY <1>2 DEF Sub
  <2>2. checkLevel2(node, spec, fs)
    BY <2>1, RootPassed, Sections
  <2>3. checkLevel3(node["time"], real, fs)
    BY <1>1, <1>2, <2>2, Walk2
  <2>4. LeafPassed(node["time"], real, fs)
    BY <2>3, Walk3 DEF Passed
  <2>5. -Unbounded \in Int
    BY DEF Unbounded
  <2> QED  BY <2>4, <2>5, NumberPassed DEF real
<1>3. numberOr(Sub(node, "time"), 0) \in Int
  <2>1. CASE node = Absent
    BY <2>1 DEF Sub, numberOr, Given
  <2>2. CASE node # Absent
    <3> HIDE DEF node
    <3> QED  BY <1>2, <2>2, OptionalNumber
  <2> QED  BY <2>1, <2>2
<1>4. /\ loadConfig(root).restart = extractRestart(node)
      /\ extractRestart(node).time = numberOr(Sub(node, "time"), 0)
      /\ extractRestart(node).enabled = Flag(Sub(node, "enabled"))
  BY DEF loadConfig, extractRestart
<1> QED  BY <1>3, <1>4 DEF Flag

-----------------------------------------------------------------------------
Groups == {"surface", "groundwater", "transport", "temperature"}

Settings(settings) ==
    settings.reuseMaxSolves \in Nat /\ settings.reuseIterationFactor \in Nat

\* A list of pairs of a group of variables and one of them.
Listing(list) ==
    list \in Seq(Elements(list)) /\ \A n \in DOMAIN list : list[n][1] \in Groups

\* What a run's plan is, whatever its document.
PlanSound(p) ==
    /\ p.live \in BOOLEAN
    /\ \A m \in {"surfaceWater", "groundwater", "transport", "temperature"} : p.mods[m] \in BOOLEAN
    /\ p.mods.surfaceWater \/ p.mods.groundwater
    /\ p.dt \in Nat \ {0}
    /\ p.tStart \in Seconds /\ p.tEnd \in Nat /\ p.tStart < p.tEnd
    /\ p.interval \in Seconds \ {0} /\ p.checkpointInterval \in Seconds
    /\ p.filename \in STRING
    /\ p.restart.time \in Int /\ p.restart.enabled \in BOOLEAN
    /\ Listing(p.variables)
    /\ IsList(p.tables) /\ Elements(audits(p.mods)) \subseteq Elements(p.tables)
    /\ p.monitoring \in {"recorded", "unavailable", "unallocated"}
    /\ \A name \in {"surface", "groundwater"} : Settings(p.policies[name])


LEMMA PairsAreListed ==
    ASSUME NEW group \in Groups, NEW names, names \in Seq(Elements(names)), NEW kept
    PROVE  Listing(pairs(group, names, kept))
<1> DEFINE ns == {n \in DOMAIN names : names[n] \in kept}
           size == Cardinality(ns)
           entry(k) == <<group, names[CHOOSE n \in ns : Cardinality({m \in ns : m < n}) = k - 1]>>
           list == [k \in 1..size |-> entry(k)]
<1>1. size \in Nat
  <2>1. DOMAIN names = 1..Len(names) /\ Len(names) \in Nat
    OBVIOUS
  <2>2. IsFiniteSet(DOMAIN names)
    BY <2>1, FS_Interval
  <2>3. IsFiniteSet(ns)
    BY <2>2, FS_Subset
  <2> QED  BY <2>3, FS_CardinalityType
<1>2. pairs(group, names, kept) = list
  BY DEF pairs
<1>3. \A k : entry(k)[1] = group
  OBVIOUS
<1> HIDE DEF size, entry
<1>4. list \in Seq(Elements(list))
  <2>1. \A k \in 1..size : entry(k) \in Elements(list)
    BY DEF Elements
  <2> QED  BY <1>1, <2>1
<1>5. \A k \in DOMAIN list : list[k][1] \in Groups
  BY <1>3
<1> QED  BY <1>2, <1>4, <1>5 DEF Listing

LEMMA ListedTogether ==
    ASSUME NEW first, NEW second, Listing(first), Listing(second)
    PROVE  Listing(first \o second)
<1> DEFINE all == Elements(first) \cup Elements(second)
           list == first \o second
<1>1. first \in Seq(all) /\ second \in Seq(all)
  BY DEF Listing
<1>2. list \in Seq(all) /\ DOMAIN list = 1..Len(list) /\ Len(list) \in Nat
  BY <1>1
<1>3. list \in Seq(Elements(list))
  <2> HIDE DEF list, all
  <2>1. list = [n \in 1..Len(list) |-> list[n]]
    BY <1>2
  <2>2. \A n \in 1..Len(list) : list[n] \in Elements(list)
    BY <1>2 DEF Elements
  <2> QED  BY <1>2, <2>1, <2>2
<1>4. ASSUME NEW n \in DOMAIN list PROVE list[n][1] \in Groups
  <2>1. CASE n \in DOMAIN first
    BY <1>1, <2>1 DEF Listing
  <2>2. CASE n \notin DOMAIN first
    <3>1. n - Len(first) \in DOMAIN second /\ list[n] = second[n - Len(first)]
      BY <1>1, <1>2, <2>2
    <3> QED  BY <3>1 DEF Listing
  <2> QED  BY <2>1, <2>2
<1> QED  BY <1>3, <1>4 DEF Listing

LEMMA WrittenPairs ==
    ASSUME NEW cfg
    PROVE  \E k1, k2, k3, k4 :
              writtenVariables(cfg)
                = pairs("surface", cfg.output.surfaceVariables, k1)
                  \o pairs("groundwater", cfg.output.groundwaterVariables, k2)
                  \o pairs("transport", cfg.output.transportVariables, k3)
                  \o pairs("temperature", cfg.output.temperatureVariables, k4)
<1> DEFINE keptIf(on, names) == IF on THEN names ELSE {}
           ofScalar(soil, surface) == keptIf(cfg.modules.groundwater, {soil})
                                      \cup keptIf(cfg.modules.surfaceWater, {surface})
           kept1 == keptIf(cfg.modules.surfaceWater, surfaceVariables \ {"seepage"})
                    \cup keptIf(cfg.modules.surfaceWater /\ cfg.modules.groundwater,
                               {"seepage"})
           kept2 == keptIf(cfg.modules.groundwater, groundwaterVariables)
           kept3 == keptIf(cfg.modules.transport,
                           ofScalar("concentration", "concentration_surface"))
           kept4 == keptIf(cfg.modules.temperature,
                           ofScalar("temperature", "temperature_surface"))
<1>1. writtenVariables(cfg)
        = pairs("surface", cfg.output.surfaceVariables, kept1)
          \o pairs("groundwater", cfg.output.groundwaterVariables, kept2)
          \o pairs("transport", cfg.output.transportVariables, kept3)
          \o pairs("temperature", cfg.output.temperatureVariables, kept4)
  BY Zenon DEF writtenVariables
<1> HIDE DEF kept1, kept2, kept3, kept4
<1> QED  BY <1>1

LEMMA WrittenAreListed ==
    ASSUME NEW root, NEW fs, validateRoot(root, fs)
    PROVE  Listing(writtenVariables(loadConfig(root)))
<1> DEFINE out == loadConfig(root).output
           lists == Sub(root.output, "variables")
<1>1. /\ out.surfaceVariables = ListOr(Sub(lists, "surface"))
      /\ out.groundwaterVariables = ListOr(Sub(lists, "groundwater"))
      /\ out.transportVariables = ListOr(Sub(lists, "transport"))
      /\ out.temperatureVariables = ListOr(Sub(lists, "temperature"))
  BY DEF loadConfig, extractOutput
<1>2. /\ out.surfaceVariables \in Seq(Elements(out.surfaceVariables))
      /\ out.groundwaterVariables \in Seq(Elements(out.groundwaterVariables))
      /\ out.transportVariables \in Seq(Elements(out.transportVariables))
      /\ out.temperatureVariables \in Seq(Elements(out.temperatureVariables))
  <2> HIDE DEF out
  <2>1. \A key \in Groups : ListOr(Sub(lists, key)) \in Seq(Elements(ListOr(Sub(lists, key))))
    BY VariablesRead DEF Groups
  <2> QED  BY <1>1, <2>1 DEF Groups
<1> HIDE DEF out
<1>3. /\ \A kept : Listing(pairs("surface", out.surfaceVariables, kept))
      /\ \A kept : Listing(pairs("groundwater", out.groundwaterVariables, kept))
      /\ \A kept : Listing(pairs("transport", out.transportVariables, kept))
      /\ \A kept : Listing(pairs("temperature", out.temperatureVariables, kept))
  BY <1>2, PairsAreListed DEF Groups
<1>4. PICK k1, k2, k3, k4 :
         writtenVariables(loadConfig(root))
           = pairs("surface", out.surfaceVariables, k1)
             \o pairs("groundwater", out.groundwaterVariables, k2)
             \o pairs("transport", out.transportVariables, k3)
             \o pairs("temperature", out.temperatureVariables, k4)
  BY WrittenPairs DEF out
<1> QED  BY <1>3, <1>4, ListedTogether

AllDocuments == UNION {Elements(documents) : documents \in Chains}

\* A set of numbers has a least one, and one below a bound has a greatest.
LEMMA Least ==
    ASSUME NEW numbers \in SUBSET Nat, numbers # {}
    PROVE  \E n \in numbers : \A m \in numbers : n <= m
<1>1. PICK n \in numbers : \A m \in numbers : ~(<<m, n>> \in OpToRel(<, Nat))
  BY NatLessThanWellFounded, WFMin
<1>2. \A m \in numbers : ~(m < n)
  BY <1>1 DEF OpToRel
<1> QED  BY <1>2

LEMMA Greatest ==
    ASSUME NEW bound \in Nat, NEW numbers \in SUBSET (0..bound), numbers # {}
    PROVE  \E n \in numbers : \A m \in numbers : m <= n
<1> DEFINE below == {bound - n : n \in numbers}
<1>1. below \in SUBSET Nat /\ below # {}
  <2>1. \A n \in numbers : bound - n \in Nat
    OBVIOUS
  <2> QED  BY <2>1
<1>2. PICK d \in below : \A e \in below : d <= e
  BY <1>1, Least
<1>3. PICK n \in numbers : d = bound - n
  BY <1>2
<1>4. \A m \in numbers : bound - n <= bound - m
  BY <1>2, <1>3
<1> QED  BY <1>4

LEMMA ChainsAreLists ==
    ASSUME NEW documents \in Chains
    PROVE  documents \in Seq(AllDocuments) /\ documents # <<>>
<1>1. documents \in Seq(Elements(documents)) /\ documents # <<>>
  BY RunAssumption DEF IsList
<1>2. Elements(documents) \subseteq AllDocuments
  BY DEF AllDocuments
<1> QED  BY <1>1, <1>2

LEMMA ListOf ==
    ASSUME NEW S, NEW list \in Seq(S)
    PROVE  IsList(list)
<1>1. list = [n \in 1..Len(list) |-> list[n]] /\ Len(list) \in Nat /\ DOMAIN list = 1..Len(list)
  OBVIOUS
<1>2. \A n \in 1..Len(list) : list[n] \in Elements(list)
  BY <1>1 DEF Elements
<1> QED  BY <1>1, <1>2 DEF IsList

\* A list holds its own elements, and so does one list after another.
LEMMA Together ==
    ASSUME NEW first, NEW second, IsList(first), IsList(second)
    PROVE  /\ IsList(first \o second)
           /\ Elements(first) \subseteq Elements(first \o second)
           /\ Elements(second) \subseteq Elements(first \o second)
           /\ Elements(first \o second) \subseteq Elements(first) \cup Elements(second)
<1> DEFINE all == Elements(first) \cup Elements(second)
           list == first \o second
<1>1. first \in Seq(all) /\ second \in Seq(all)
  BY DEF IsList
<1>2. /\ list \in Seq(all) /\ DOMAIN list = 1..Len(list) /\ Len(list) \in Nat
      /\ Len(list) = Len(first) + Len(second)
      /\ DOMAIN first = 1..Len(first) /\ Len(first) \in Nat
      /\ DOMAIN second = 1..Len(second) /\ Len(second) \in Nat
      /\ \A n \in 1..Len(list) : /\ n <= Len(first) => list[n] = first[n]
                                 /\ n > Len(first) => list[n] = second[n - Len(first)]
  BY <1>1
<1> HIDE DEF list, all
<1>3. list \in Seq(Elements(list))
  <2>1. list = [n \in 1..Len(list) |-> list[n]]
    BY <1>2
  <2>2. \A n \in 1..Len(list) : list[n] \in Elements(list)
    BY <1>2 DEF Elements
  <2> QED  BY <1>2, <2>1, <2>2
<1>4. Elements(first) \subseteq Elements(list)
  <2>1. \A n \in DOMAIN first : n \in DOMAIN list /\ list[n] = first[n]
    BY <1>2
  <2> QED  BY <2>1 DEF Elements
<1>5. Elements(second) \subseteq Elements(list)
  <2>1. \A n \in DOMAIN second : /\ Len(first) + n \in DOMAIN list
                                 /\ list[Len(first) + n] = second[n]
    BY <1>2
  <2> QED  BY <2>1 DEF Elements
<1>6. Elements(list) \subseteq all
  BY <1>2 DEF Elements
<1> QED  BY <1>3, <1>4, <1>5, <1>6 DEF list, all, IsList

LEMMA OneOf ==
    ASSUME NEW element
    PROVE  IsList(<<element>>) /\ Elements(<<element>>) = {element}
BY DEF IsList, Elements

LEMMA SixOf ==
    ASSUME NEW a, NEW b, NEW c, NEW d, NEW e, NEW f
    PROVE  /\ IsList(<<a, b, c, d, e, f>>)
           /\ Elements(<<a, b, c, d, e, f>>) = {a, b, c, d, e, f}
BY DEF IsList, Elements

LEMMA SevenOf ==
    ASSUME NEW a, NEW b, NEW c, NEW d, NEW e, NEW f, NEW g
    PROVE  /\ IsList(<<a, b, c, d, e, f, g>>)
           /\ Elements(<<a, b, c, d, e, f, g>>) = {a, b, c, d, e, f, g}
BY DEF IsList, Elements

LEMMA NoneOf ==
    IsList(<<>>) /\ Elements(<<>>) = {}
BY DEF IsList, Elements

LEMMA AuditsAreListed ==
    ASSUME NEW modules
    PROVE  IsList(audits(modules))
<1>1. \A element : IsList(<<element>>)
  BY OneOf
<1>2. /\ IsList(If(modules.surfaceWater, <<"mass_audit">>))
      /\ IsList(If(modules.groundwater, <<"gw_mass_audit">>))
      /\ IsList(If(modules.transport, <<"transport_audit">>))
      /\ IsList(If(modules.temperature, <<"temperature_audit">>))
  BY <1>1, NoneOf, Zenon DEF If
<1> DEFINE a == If(modules.surfaceWater, <<"mass_audit">>)
           b == If(modules.groundwater, <<"gw_mass_audit">>)
           c == If(modules.transport, <<"transport_audit">>)
           d == If(modules.temperature, <<"temperature_audit">>)
<1> HIDE DEF a, b, c, d
<1>3. IsList(a \o b)
  BY <1>2, Together DEF a, b
<1>4. IsList(a \o b \o c)
  BY <1>2, <1>3, Together DEF c
<1>5. IsList(a \o b \o c \o d)
  BY <1>2, <1>4, Together DEF d
<1> QED  BY <1>5 DEF audits, a, b, c, d

LEMMA TablesRead ==
    ASSUME NEW root, NEW fs, validateRoot(root, fs)
    PROVE  LET output == loadConfig(root).output
               modules   == loadConfig(root).modules
               tables == [n \in DOMAIN output.monitors |-> output.monitors[n].name] \o audits(modules)
           IN IsList(tables) /\ Elements(audits(modules)) \subseteq Elements(tables)
<1> DEFINE monitors == loadConfig(root).output.monitors
           modules     == loadConfig(root).modules
           names    == [n \in DOMAIN monitors |-> monitors[n].name]
           closing  == audits(modules)
<1>1. monitors \in Seq(Elements(monitors))
  BY OutputRead
<1> HIDE DEF monitors, modules
<1>2. IsList(names)
  <2>1. DOMAIN monitors = 1..Len(monitors) /\ Len(monitors) \in Nat
    BY <1>1
  <2>2. \A n \in DOMAIN monitors : names[n] \in Elements(names)
    BY DEF Elements
  <2> QED  BY <2>1, <2>2 DEF IsList
<1>3. IsList(closing)
  BY AuditsAreListed
<1> HIDE DEF names, closing
<1>4. IsList(names \o closing) /\ Elements(closing) \subseteq Elements(names \o closing)
  BY <1>2, <1>3, Together
<1> QED  BY <1>4 DEF closing, names, modules, monitors

LEMMA PlanRead ==
    ASSUME NEW document \in AllDocuments, NEW fs, validateRoot(document, fs), NEW live \in BOOLEAN
    PROVE  PlanSound(planOf(loadConfig(document), live))
<1> DEFINE cfg == loadConfig(document)
           p   == planOf(cfg, live)
<1>1. /\ p.live = live /\ p.mods = cfg.modules /\ p.filename = cfg.output.filename
      /\ p.dt = IF cfg.modules.surfaceWater THEN cfg.time.dt ELSE cfg.groundwater.dtInit
      /\ p.tStart = cfg.time.tStart /\ p.tEnd = cfg.time.tEnd
      /\ p.interval = cfg.time.outputInterval
      /\ p.checkpointInterval = cfg.output.checkpointInterval
      /\ p.restart = cfg.restart
      /\ p.variables = writtenVariables(cfg)
      /\ p.tables = [n \in DOMAIN cfg.output.monitors |-> cfg.output.monitors[n].name]
                      \o audits(cfg.modules)
      /\ p.policies = [surface |-> policyOf(cfg.solver.surface),
                       groundwater |-> policyOf(cfg.solver.groundwater)]
      /\ p.monitoring = recordMonitors(cfg)
  <2> HIDE DEF cfg
  <2> QED  BY DEF planOf
<1>2. /\ \A m \in {"surfaceWater", "groundwater", "transport", "temperature"} :
            cfg.modules[m] \in BOOLEAN
      /\ cfg.modules.surfaceWater \/ cfg.modules.groundwater
      /\ cfg.modules.groundwater => Given(Sub(document, "groundwater"))
  <2> DEFINE a == moduleOn(document, "surface_water")
             b == moduleOn(document, "groundwater")
             c == moduleOn(document, "transport")
             d == moduleOn(document, "temperature")
  <2>1. /\ cfg.modules = [surfaceWater |-> a, groundwater |-> b, transport |-> c, temperature |-> d]
        /\ cfg.modules.surfaceWater \/ cfg.modules.groundwater
        /\ cfg.modules.groundwater => Given(Sub(document, "groundwater"))
    BY ModulesRead
  <2>2. a \in BOOLEAN /\ b \in BOOLEAN /\ c \in BOOLEAN /\ d \in BOOLEAN
    BY Zenon DEF moduleOn
  <2> HIDE DEF cfg, a, b, c, d
  <2>3. /\ cfg.modules["surfaceWater"] = a /\ cfg.modules["groundwater"] = b
        /\ cfg.modules["transport"] = c /\ cfg.modules["temperature"] = d
    BY <2>1
  <2> QED  BY <2>1, <2>2, <2>3
<1>3. /\ cfg.time.dt \in Nat \ {0}
      /\ cfg.time.tStart \in Seconds
      /\ cfg.time.tEnd \in Nat /\ cfg.time.tStart < cfg.time.tEnd
      /\ cfg.time.outputInterval \in Seconds \ {0}
  BY TimeRead DEF Seconds
<1>4. ~cfg.modules.surfaceWater => cfg.groundwater.dtInit \in Nat \ {0}
  BY <1>2, FirstStepRead
<1>5. cfg.output.checkpointInterval \in Seconds /\ cfg.output.filename \in STRING
  BY OutputRead
<1>6. cfg.restart.time \in Int /\ cfg.restart.enabled \in BOOLEAN
  BY RestartRead
<1>7. Listing(writtenVariables(cfg))
  BY WrittenAreListed
<1>8. /\ IsList(p.tables)
      /\ Elements(audits(cfg.modules)) \subseteq Elements(p.tables)
  BY <1>1, TablesRead
<1>9. \A name \in {"surface", "groundwater"} : Settings(p.policies[name])
  <2>1. \A name \in {"surface", "groundwater"} : /\ cfg.solver[name].reuseMaxSolves \in Nat
                                                 /\ cfg.solver[name].reuseIterationFactor \in Nat
    BY SystemRead
  <2> HIDE DEF cfg, p
  <2>2. \A system : /\ policyOf(system).reuseMaxSolves = system.reuseMaxSolves
                    /\ policyOf(system).reuseIterationFactor = system.reuseIterationFactor
    BY DEF policyOf
  <2> QED  BY <1>1, <2>1, <2>2 DEF Settings
<1>12. recordMonitors(cfg) \in {"recorded", "unavailable", "unallocated"}
  <2> HIDE DEF cfg
  <2> QED  BY Zenon DEF recordMonitors
<1> HIDE DEF cfg, p
<1>10. p.dt \in Nat \ {0}
  BY <1>1, <1>2, <1>3, <1>4
<1>11. PlanSound(p)
  BY <1>1, <1>2, <1>3, <1>5, <1>6, <1>7, <1>8, <1>9, <1>10, <1>12
  DEF PlanSound
<1> QED  BY <1>11 DEF p, cfg

\* No check of a configuration is called stale.
LEMMA FirstFailingIsNamed ==
    ASSUME NEW cfg
    PROVE  firstFailing(unchecked(cfg) \o buildChecks(cfg)) # "stale"
<1> DEFINE checks == unchecked(cfg) \o buildChecks(cfg)
           failing == {n \in DOMAIN checks : checks[n][2]}
<1>1. /\ IsList(unchecked(cfg))
      /\ \A n \in DOMAIN unchecked(cfg) : unchecked(cfg)[n][1] # "stale"
  <2>1. PICK a, b, c, d, e, f, g :
           unchecked(cfg) = << <<"no-module", a>>, <<"surface-kind", b>>,
                               <<"groundwater-kind", c>>, <<"soil-type", d>>,
                               <<"scalar-condition", e>>, <<"consistent-update", f>>,
                               <<"monitor-point", g>> >>
    BY ZenonT(60) DEF unchecked
  <2>2. IsList(unchecked(cfg)) /\ Elements(unchecked(cfg)) = {
        <<"no-module", a>>, <<"surface-kind", b>>,
        <<"groundwater-kind", c>>, <<"soil-type", d>>,
        <<"scalar-condition", e>>, <<"consistent-update", f>>,
        <<"monitor-point", g>>}
    BY <2>1, SevenOf
  <2>3. \A check \in Elements(unchecked(cfg)) : check[1] # "stale"
    BY <2>2
  <2> QED  BY <2>2, <2>3 DEF Elements
<1>2. /\ IsList(buildChecks(cfg))
      /\ \A n \in DOMAIN buildChecks(cfg) : buildChecks(cfg)[n][1] # "stale"
  <2>1. PICK a, b, c, d, e, f :
           buildChecks(cfg) = << <<"layout", a>>, <<"empty-region", b>>,
                                 <<"surface-solver", c>>, <<"groundwater-solver", d>>,
                                 <<"evaporation-zone", e>>, <<"several-discharges", f>> >>
    BY Zenon DEF buildChecks
  <2>2. IsList(buildChecks(cfg)) /\ Elements(buildChecks(cfg)) = {
        <<"layout", a>>, <<"empty-region", b>>,
        <<"surface-solver", c>>, <<"groundwater-solver", d>>,
        <<"evaporation-zone", e>>, <<"several-discharges", f>>}
    BY <2>1, SixOf
  <2>3. \A check \in Elements(buildChecks(cfg)) : check[1] # "stale"
    BY <2>2
  <2> QED  BY <2>2, <2>3 DEF Elements
<1>4. /\ IsList(checks)
      /\ Elements(checks) \subseteq Elements(unchecked(cfg)) \cup Elements(buildChecks(cfg))
  BY <1>1, <1>2, Together
<1>5. \A n \in DOMAIN checks : checks[n][1] # "stale"
  <2> HIDE DEF checks
  <2> QED  BY <1>1, <1>2, <1>4 DEF Elements
<1>6. DOMAIN checks \subseteq Nat
  <2> HIDE DEF checks
  <2> QED  BY <1>4 DEF IsList
<1> HIDE DEF checks
<1>7. ASSUME failing # {}
      PROVE  (CHOOSE n \in failing : \A m \in failing : n <= m) \in DOMAIN checks
  <2>1. \E n \in failing : \A m \in failing : n <= m
    BY <1>6, <1>7, Least
  <2>2. (CHOOSE n \in failing : \A m \in failing : n <= m) \in failing
    BY <2>1
  <2> QED  BY <2>2
<1>8. firstFailing(checks) # "stale"
  <2> DEFINE first == CHOOSE n \in failing : \A m \in failing : n <= m
  <2>1. firstFailing(checks) = IF failing = {} THEN "none" ELSE checks[first][1]
    BY DEF firstFailing
  <2> HIDE DEF failing, first
  <2> QED  BY <1>5, <1>7, <2>1 DEF first
<1> QED  BY <1>8 DEF checks

\* How an attempt can end.
Ends == [converged : BOOLEAN, iterations : Nat]

Systems ==
    [rebuildNext : BOOLEAN, solvesSinceRebuild : Nat, baselineIterations : Nat,
     served : Nat, strained : BOOLEAN, outcome : {"none", "solved", "diverged", "stale"}]

\* The counter the code keeps is the number of solves served.
CounterExact(settings, sys) ==
    reusesHierarchy(settings) => sys.served = sys.solvesSinceRebuild

SystemInv(settings, sys) ==
    /\ sys \in Systems
    /\ CounterExact(settings, sys)
    /\ SystemSound(settings, sys)

-----------------------------------------------------------------------------
\* A system that has solved nothing.
LEMMA NewIsSound ==
    ASSUME NEW settings, Settings(settings)
    PROVE  SystemInv(settings, NewSystem)
BY DEF Settings, SystemInv, Systems, NewSystem, CounterExact, SystemSound, Larger

\* A changed wet/dry mask.
LEMMA ForcedIsSound ==
    ASSUME NEW settings, Settings(settings), NEW sys, SystemInv(settings, sys)
    PROVE  SystemInv(settings, forceRebuild(sys))
BY DEF Settings, SystemInv, Systems, forceRebuild, CounterExact, SystemSound, Larger

\* A solve that converged, on a preconditioner built for it or on one that was
\* not due for rebuilding.
LEMMA SettledIsSound ==
    ASSUME NEW settings, Settings(settings), NEW sys, SystemInv(settings, sys),
           NEW rebuilt \in BOOLEAN, NEW iterations \in Nat,
           reusesHierarchy(settings) => (rebuilt \/ ~sys.rebuildNext)
    PROVE  SystemInv(settings, settle(settings, sys, rebuilt, iterations))
<1> DEFINE next     == settle(settings, sys, rebuilt, iterations)
           baseline == IF rebuilt THEN iterations ELSE sys.baselineIterations
           since    == (IF rebuilt THEN 0 ELSE sys.solvesSinceRebuild) + 1
           over     == OverTrigger(settings, iterations, baseline)
<1>1. /\ settings.reuseMaxSolves \in Nat
      /\ sys \in Systems /\ sys.solvesSinceRebuild \in Nat /\ sys.served \in Nat
      /\ sys.rebuildNext \in BOOLEAN /\ baseline \in Nat /\ since \in Nat
      /\ over \in BOOLEAN
  BY DEF Settings, SystemInv, Systems, OverTrigger
<1>2. CASE ~reusesHierarchy(settings)
  <2>1. next = [sys EXCEPT !.served = 1, !.strained = FALSE, !.outcome = "solved"]
    BY <1>2 DEF settle
  <2> HIDE DEF next
  <2>2. next = [rebuildNext |-> sys.rebuildNext, solvesSinceRebuild |-> sys.solvesSinceRebuild,
                baselineIterations |-> sys.baselineIterations, served |-> 1,
                strained |-> FALSE, outcome |-> "solved"]
    BY <1>1, <2>1 DEF Systems
  <2>3. /\ next.served = 1 /\ next.outcome = "solved" /\ ~next.strained
    BY <2>2
  <2>4. next \in Systems
    BY <1>1, <2>2 DEF Systems
  <2>5. 1 <= Larger(1, settings.reuseMaxSolves)
    BY <1>1 DEF Larger
  <2>6. SystemInv(settings, next)
    BY <1>2, <2>3, <2>4, <2>5 DEF SystemInv, CounterExact, SystemSound
  <2> QED  BY <2>6 DEF next
<1>3. CASE reusesHierarchy(settings)
  <2> DEFINE rebuild == \/ ~rebuilt /\ sys.rebuildNext
                    \/ over
                    \/ since >= settings.reuseMaxSolves
             served == (IF rebuilt THEN 0 ELSE sys.served) + 1
  <2>1. next = [rebuildNext |-> rebuild, solvesSinceRebuild |-> since,
                baselineIterations |-> baseline, served |-> served,
                strained |-> over, outcome |-> "solved"]
    BY <1>3 DEF settle
  <2>2. settings.reuseMaxSolves > 0
    BY <1>3 DEF reusesHierarchy
  <2>3. served = since
    BY <1>3 DEF SystemInv, CounterExact
  <2>4. since <= settings.reuseMaxSolves
    BY <1>1, <1>3, <2>2 DEF SystemInv, SystemSound, CounterExact, Larger
  <2>5. rebuild \in BOOLEAN /\ (over => rebuild)
    OBVIOUS
  <2>6. since = settings.reuseMaxSolves => rebuild
    <3> HAVE since = settings.reuseMaxSolves
    <3>1. since >= settings.reuseMaxSolves
      BY <1>1
    <3> QED  BY <3>1
  <2> HIDE DEF next, since, over, baseline, rebuild, served
  <2>7. /\ next.rebuildNext = rebuild /\ next.solvesSinceRebuild = since
        /\ next.served = since /\ next.strained = over /\ next.outcome = "solved"
    BY <2>1, <2>3
  <2>8. next \in Systems
    BY <1>1, <2>1, <2>3, <2>5 DEF Systems
  <2>9. since <= Larger(1, settings.reuseMaxSolves)
    BY <1>1, <2>4 DEF Larger
  <2>10. SystemInv(settings, next)
    BY <2>5, <2>6, <2>7, <2>8, <2>9 DEF SystemInv, CounterExact, SystemSound
  <2> QED  BY <2>10 DEF next
<1> QED  BY <1>2, <1>3

\* The promises of LinearSystem (no preconditioner serves more solves than the
\* settings allow, none after a solve that took too many iterations, no solve
\* is given up under one built for an older operator) survive every solve,
\* however its attempts end and for any settings: the invariant of which
\* SolverSound is the instance the runs of the program check.
THEOREM SolvedIsSound ==
    ASSUME NEW settings, Settings(settings), NEW sys, SystemInv(settings, sys),
           NEW first \in Ends, NEW second \in Ends
    PROVE  SystemInv(settings, solve(settings, sys, first, second))
<1> DEFINE fresh == freshFirst(settings, sys)
           retry == ~first.converged /\ ~fresh
           last  == IF retry THEN second ELSE first
           rebuilt == reusesHierarchy(settings) /\ (fresh \/ retry)
<1>1. /\ first.converged \in BOOLEAN /\ second.converged \in BOOLEAN
      /\ last.iterations \in Nat /\ rebuilt \in BOOLEAN
  BY DEF Ends, reusesHierarchy, freshFirst
<1>2. CASE last.converged
  <2>1. solve(settings, sys, first, second)
          = settle(settings, sys, rebuilt, last.iterations)
    BY <1>2 DEF solve
  <2>2. reusesHierarchy(settings) => (rebuilt \/ ~sys.rebuildNext)
    BY DEF freshFirst
  <2> QED  BY <1>1, <2>1, <2>2, SettledIsSound
<1>3. CASE ~last.converged
  <2>1. fresh \/ retry
    BY <1>1, <1>3
  <2>2. solve(settings, sys, first, second) = [sys EXCEPT !.outcome = "diverged"]
    BY <1>3, <2>1 DEF solve
  <2> QED  BY <2>2 DEF SystemInv, Systems, CounterExact, SystemSound
<1> QED  BY <1>2, <1>3

-----------------------------------------------------------------------------
(***************************************************************************)
(* Where the program can be, and what it does there.  A run is early until *)
(* it has created its output file, then open, and looping from the start   *)
(* of its loop.                                                            *)
(***************************************************************************)
Early   == {"reading", "loaded", "built"}
Looping == {"running", "ending", "completed"}
Open    == {"opened"} \cup Looping
Planned == {"built"} \cup Open
Over    == {"rejected", "reported", "failed", "killed", "done"}

NotStarted ==
    /\ clock = 0 /\ start = 0 /\ saved = Never /\ agenda = <<>> /\ state = Empty
    /\ rows = [recorded |-> Never, written |-> Never]
    /\ solvers = [surface |-> NewSystem, groundwater |-> NewSystem]

ControlInv ==
    /\ pc \in Early \cup Open \cup Over
    /\ run \in Nat
    /\ chain \in Seq(AllDocuments)
    /\ pc \in {"reading", "loaded"} => chain # <<>>
    /\ pc = "loaded" => validateRoot(doc, DataFiles \cup OnDisk)
    /\ pc \in Planned => PlanSound(plan)
    /\ pc \notin Planned => plan = NoPlan
    /\ pc \notin Looping => NotStarted

LEMMA ShorterChain ==
    ASSUME ControlInv, chain # <<>>
    PROVE  Head(chain) \in AllDocuments /\ Tail(chain) \in Seq(AllDocuments)
BY DEF ControlInv

\* A run that ends, whichever way.
LEMMA EndedKeepsControl ==
    ASSUME ControlInv, NEW where \in {"failed", "killed", "done"}, NEW why,
           Ended(where, why), UNCHANGED <<chain, run>>
    PROVE  ControlInv'
<1>1. /\ pc' = where /\ plan' = NoPlan /\ chain' = chain /\ run' = run /\ NotStarted'
  BY DEF Ended, Idle, NotStarted
<1>2. pc' \in Over /\ pc' \notin Early \cup Open
  BY <1>1 DEF Over, Early, Open, Looping
<1> QED  BY <1>1, <1>2 DEF ControlInv, Planned, Open, Over, Early, Looping

\* A step of a run that stays in the same part of the program.
LEMMA WorkingKeepsControl ==
    ASSUME ControlInv, pc \in Looping, pc' \in Looping, UNCHANGED <<chain, run, plan>>
    PROVE  ControlInv'
BY DEF ControlInv, Planned, Open, Over, Early, Looping

LEMMA ControlInit ==
    ASSUME Init PROVE ControlInv
<1>1. chain \in Seq(AllDocuments) /\ chain # <<>>
  BY ChainsAreLists DEF Init
<1>2. pc = "reading" /\ run = 0 /\ plan = NoPlan /\ NotStarted
  BY DEF Init, NotStarted
<1> QED  BY <1>1, <1>2 DEF ControlInv, Early, Open, Looping, Planned

LEMMA ControlStep ==
    ASSUME ControlInv, [Next]_vars PROVE ControlInv'
<1> USE DEF Early, Open, Over, Looping, Planned
<1>1. CASE Read
  <2>0. pc = "reading" /\ chain # <<>> /\ Tail(chain) \in Seq(AllDocuments) /\ NotStarted
        /\ UNCHANGED <<run, plan>> /\ plan = NoPlan /\ run \in Nat
    BY <1>1, ShorterChain DEF Read, ControlInv
  <2>1. NotStarted' /\ OnDisk' = OnDisk
    BY <1>1, <2>0 DEF Read, NotStarted, loop, disk, OnDisk
  <2>2. \/ pc' \in {"rejected", "failed"} /\ chain' = Tail(chain)
        \/ pc' = "loaded" /\ chain' = chain /\ validateRoot(doc, DataFiles \cup OnDisk)
    BY <1>1 DEF Read
  <2>3. CASE pc' \in {"rejected", "failed"} /\ chain' = Tail(chain)
    BY <2>0, <2>1, <2>3 DEF ControlInv
  <2>4. CASE pc' = "loaded" /\ chain' = chain /\ validateRoot(doc, DataFiles \cup OnDisk)
    <3>1. doc' = doc
      BY <2>4 DEF doc
    <3>2. chain' \in Seq(AllDocuments)
      BY <2>4 DEF ControlInv
    <3> QED  BY <2>0, <2>1, <2>4, <3>1, <3>2 DEF ControlInv
  <2> QED  BY <2>2, <2>3, <2>4
<1>2. CASE Report
  <2>1. pc = "loaded" /\ pc' = "reported" /\ chain' = Tail(chain) /\ chain # <<>>
        /\ UNCHANGED <<run, plan>> /\ plan = NoPlan
    BY <1>2 DEF Report, ControlInv
  <2>2. NotStarted'
    BY <1>2, <2>1 DEF Report, ControlInv, NotStarted, loop
  <2> QED  BY <2>1, <2>2, ShorterChain DEF ControlInv
<1>3. CASE Build
  <2>1. /\ pc = "loaded" /\ chain' = Tail(chain) /\ chain # <<>> /\ UNCHANGED run
        /\ plan = NoPlan /\ validateRoot(doc, DataFiles \cup OnDisk)
    BY <1>3 DEF Build, ControlInv
  <2>2. NotStarted'
    BY <1>3, <2>1 DEF Build, ControlInv, NotStarted, loop
  <2>3. \/ pc' = "built" /\ plan' = planOf(loadConfig(doc), Len(chain) > 1)
        \/ pc' = "failed" /\ plan' = NoPlan
    BY <1>3, Zenon DEF Build
  <2>4. ASSUME pc' = "built", plan' = planOf(loadConfig(doc), Len(chain) > 1)
        PROVE  PlanSound(plan')
    <3> DEFINE live == Len(chain) > 1
    <3>1. live \in BOOLEAN
      OBVIOUS
    <3> HIDE DEF live
    <3>2. PlanSound(planOf(loadConfig(doc), live))
      BY <2>1, <3>1, ShorterChain, PlanRead DEF doc
    <3> QED  BY <2>4, <3>2 DEF live
  <2>5. (PlanSound(plan))' = PlanSound(plan')
    BY DEF PlanSound, Listing, Settings
  <2> QED  BY <2>1, <2>2, <2>3, <2>4, <2>5, ShorterChain DEF ControlInv
<1>4. CASE CreateOutput
  <2>1. \/ pc' = "opened" /\ UNCHANGED <<plan, loop>>
        \/ Ended("failed", "table-exists")
    BY <1>4, Zenon DEF CreateOutput, Fatal
  <2>2. pc = "built" /\ UNCHANGED <<chain, run>>
    BY <1>4 DEF CreateOutput
  <2>3. CASE pc' = "opened" /\ UNCHANGED <<plan, loop>>
    <3>1. NotStarted'
      BY <2>2, <2>3 DEF ControlInv, NotStarted, loop
    <3> QED  BY <2>2, <2>3, <3>1 DEF ControlInv
  <2> QED  BY <2>1, <2>2, <2>3, EndedKeepsControl
<1>5. CASE Begin
  <2>1. pc = "opened" /\ UNCHANGED <<chain, run>>
    BY <1>5 DEF Begin
  <2>2. \/ pc' = "running" /\ UNCHANGED plan
        \/ Ended("failed", "no-checkpoint")
    BY <1>5, Zenon DEF Begin, Fatal
  <2>3. CASE pc' = "running" /\ UNCHANGED plan
    BY <2>1, <2>3 DEF ControlInv
  <2> QED  BY <2>1, <2>2, <2>3, EndedKeepsControl
<1>6. CASE Step \/ EndLoop \/ FlushTables \/ FlushFile \/ WriteRecord \/ RenameRecord \/ Finalize
  <2>1. pc \in Looping /\ pc' \in Looping /\ UNCHANGED <<chain, run, plan>>
    BY <1>6 DEF Step, EndLoop, FlushTables, FlushFile, WriteRecord, RenameRecord, Finalize, Doing
  <2> QED  BY <2>1, WorkingKeepsControl
<1>7. ASSUME NEW name \in {"surface", "groundwater"}, Solve(name) PROVE ControlInv'
  <2>1. pc \in Looping /\ UNCHANGED <<chain, run>>
    BY <1>7 DEF Solve, Doing
  <2>2. \/ UNCHANGED <<pc, plan>>
        \/ \E why : Ended("failed", why)
    BY <1>7, Zenon DEF Solve, Fatal
  <2> QED  BY <2>1, <2>2, WorkingKeepsControl, EndedKeepsControl
<1>8. CASE RecordMonitors
  <2>1. pc \in Looping /\ UNCHANGED <<chain, run>>
    BY <1>8 DEF RecordMonitors, Doing
  <2>2. \/ UNCHANGED <<pc, plan>>
        \/ \E why : Ended("failed", why)
        \/ \E why : Ended("killed", why)
    <3>1. plan.monitoring \in {"recorded", "unavailable", "unallocated"}
      BY <2>1 DEF ControlInv, PlanSound
    <3>2. CASE plan.monitoring = "recorded"
      BY <1>8, <3>2 DEF RecordMonitors
    <3>3. CASE plan.monitoring = "unavailable"
      BY <1>8, <3>3 DEF RecordMonitors, Fatal
    <3>4. CASE plan.monitoring = "unallocated"
      BY <1>8, <3>4 DEF RecordMonitors, Killed
    <3> QED  BY <3>1, <3>2, <3>3, <3>4
  <2> QED  BY <2>1, <2>2, WorkingKeepsControl, EndedKeepsControl
<1>9. ASSUME NEW objects, NEW label, NEW last, Write(objects, label, last),
             pc \in Looping, UNCHANGED <<chain, run>>
      PROVE  ControlInv'
  <2>1. \/ UNCHANGED <<pc, plan>>
        \/ \E why : Ended("failed", why)
    BY <1>9, Zenon DEF Write, Fatal
  <2> QED  BY <1>9, <2>1, WorkingKeepsControl, EndedKeepsControl
<1>10. CASE WriteOutputs \/ WriteCheckpoint
  BY <1>9, <1>10, Zenon DEF WriteOutputs, WriteCheckpoint, Doing
<1>11. CASE Exit \/ Kill
  <2>1. UNCHANGED <<chain, run>> /\ \E where \in {"done", "killed"} : Ended(where, "none")
    BY <1>11, Zenon DEF Exit, Kill, Killed
  <2> QED  BY <2>1, EndedKeepsControl
<1>12. CASE Rerun
  <2>1. /\ pc \in Over /\ pc' = "reading" /\ chain # <<>> /\ UNCHANGED <<chain, plan>>
        /\ run' = run + 1 /\ plan = NoPlan /\ NotStarted
    BY <1>12 DEF Rerun, ControlInv
  <2>2. NotStarted'
    BY <1>12, <2>1 DEF Rerun, NotStarted, loop
  <2> QED  BY <2>1, <2>2 DEF ControlInv
<1>13. CASE UNCHANGED vars
  <2>1. UNCHANGED <<NotStarted, OnDisk, doc>>
    BY <1>13 DEF vars, NotStarted, OnDisk, doc
  <2>2. UNCHANGED <<pc, run, chain, plan>>
    BY <1>13 DEF vars
  <2> QED  BY <2>1, <2>2 DEF ControlInv
<1> QED
  BY <1>1, <1>2, <1>3, <1>4, <1>5, <1>6, <1>7, <1>8, <1>10, <1>11, <1>12, <1>13, Zenon DEF Next

Names == {"surface", "groundwater"}

SolversInv ==
    /\ pc \in Looping => /\ solvers = [name \in Names |-> solvers[name]]
                         /\ \A name \in Names : SystemInv(plan.policies[name], solvers[name])
    /\ failure # "stale"

\* A step that leaves the linear systems alone.
LEMMA SolversUntouched ==
    ASSUME SolversInv, pc \in Looping, UNCHANGED <<plan, solvers>>, failure' # "stale"
    PROVE  SolversInv'
BY DEF SolversInv

LEMMA SolversOver ==
    ASSUME NEW where \in {"failed", "killed", "done"}, NEW why, why # "stale", Ended(where, why)
    PROVE  SolversInv'
BY DEF SolversInv, Ended, Looping

LEMMA NewSystems ==
    ASSUME ControlInv, pc \in {"built", "opened"}
    PROVE  /\ solvers = [name \in Names |-> solvers[name]]
           /\ \A name \in Names : SystemInv(plan.policies[name], solvers[name])
<1>1. /\ NotStarted /\ \A name \in Names : Settings(plan.policies[name])
  BY DEF ControlInv, Planned, Open, Looping, PlanSound, Names
<1>2. \A name \in Names : SystemInv(plan.policies[name], NewSystem)
  BY <1>1, NewIsSound
<1> DEFINE new == NewSystem
<1> HIDE DEF new
<1>3. solvers = [surface |-> new, groundwater |-> new]
  BY <1>1 DEF NotStarted, new
<1>4. \A name \in Names : solvers[name] = new
  BY <1>3 DEF Names
<1>5. solvers = [name \in Names |-> solvers[name]]
  BY <1>3 DEF Names
<1> QED  BY <1>2, <1>4, <1>5 DEF new

\* A solve is the policy's solve of a system that is sound.
LEMMA SolveKeepsSolvers ==
    ASSUME ControlInv, SolversInv, NEW name \in Names, Solve(name)
    PROVE  SolversInv'
<1>1. /\ pc \in Looping /\ PlanSound(plan)
      /\ SystemInv(plan.policies[name], solvers[name]) /\ Settings(plan.policies[name])
      /\ solvers = [n \in Names |-> solvers[n]]
  BY DEF Solve, Doing, ControlInv, SolversInv, Looping, Planned, Open, PlanSound, Names
<1> DEFINE policy == plan.policies[name]
<1>2. (IF plan.live THEN Attempts ELSE {Quick}) \subseteq Ends
  <2>1. Attempts \subseteq Ends
    BY RunAssumption, Zenon DEF Ends
  <2>2. Quick \in Ends
    BY DEF Quick, Ends
  <2> QED  BY <2>1, <2>2
<1>3. PICK first \in Ends, second \in Ends, flipped \in BOOLEAN :
         LET sys == IF flipped THEN forceRebuild(solvers[name]) ELSE solvers[name]
             new == solve(policy, sys, first, second)
         IN IF new.outcome = "solved"
              THEN /\ solvers' = [solvers EXCEPT ![name] = new]
                   /\ UNCHANGED <<pc, failure, plan>>
              ELSE Ended("failed", new.outcome)
  BY <1>2 DEF Solve, Fatal
<1> DEFINE sys == IF flipped THEN forceRebuild(solvers[name]) ELSE solvers[name]
           new == solve(policy, sys, first, second)
<1>4. SystemInv(policy, sys)
  BY <1>1, ForcedIsSound
<1>5. SystemInv(policy, new)
  <2> HIDE DEF sys
  <2> QED  BY <1>1, <1>4, SolvedIsSound
<1>6. CASE new.outcome = "solved"
  <2>1. solvers' = [solvers EXCEPT ![name] = new] /\ UNCHANGED <<pc, failure, plan>>
    BY <1>3, <1>6
  <2> HIDE DEF new
  <2>2. \A n \in Names : solvers'[n] = IF n = name THEN new ELSE solvers[n]
    BY <1>1, <2>1
  <2>3. solvers' = [n \in Names |-> solvers'[n]]
    BY <1>1, <2>1
  <2> QED  BY <1>5, <2>1, <2>2, <2>3 DEF SolversInv
<1>7. CASE new.outcome # "solved"
  <2>1. Ended("failed", new.outcome) /\ new.outcome # "stale"
    BY <1>3, <1>5, <1>7 DEF SystemInv, SystemSound
  <2> HIDE DEF new
  <2> QED  BY <2>1, SolversOver
<1> QED  BY <1>6, <1>7

LEMMA SolversInit ==
    ASSUME Init PROVE SolversInv
BY DEF Init, SolversInv, Looping

LEMMA SolversStep ==
    ASSUME ControlInv, SolversInv, [Next]_vars PROVE SolversInv'
<1> USE DEF Looping
<1>1. CASE Read \/ Report \/ Rerun
  <2>1. pc' \notin Looping /\ failure' # "stale"
    BY <1>1 DEF Read, Report, Rerun, SolversInv
  <2> QED  BY <2>1 DEF SolversInv
<1>2. CASE Build
  <2>1. failure' = firstFailing(unchecked(loadConfig(doc)) \o buildChecks(loadConfig(doc)))
        /\ pc' \in {"built", "failed"}
    BY <1>2, Zenon DEF Build
  <2>2. failure' # "stale"
    BY <2>1, FirstFailingIsNamed
  <2> QED  BY <2>1, <2>2 DEF SolversInv
<1>3. CASE CreateOutput
  <2>1. (pc' = "opened" /\ UNCHANGED failure) \/ Ended("failed", "table-exists")
    BY <1>3, Zenon DEF CreateOutput, Fatal
  <2>2. CASE pc' = "opened" /\ UNCHANGED failure
    BY <2>2 DEF SolversInv
  <2> QED  BY <2>1, <2>2, SolversOver
<1>4. CASE Begin
  <2>1. pc = "opened"
    BY <1>4 DEF Begin
  <2>2. UNCHANGED <<failure, plan, solvers>> \/ Ended("failed", "no-checkpoint")
    BY <1>4, Zenon DEF Begin, Fatal
  <2>3. CASE UNCHANGED <<failure, plan, solvers>>
    BY <2>1, <2>3, NewSystems DEF SolversInv
  <2> QED  BY <2>2, <2>3, SolversOver
<1>5. CASE Step \/ EndLoop \/ FlushTables \/ FlushFile \/ WriteRecord \/ RenameRecord \/ Finalize
  <2>1. pc \in Looping /\ UNCHANGED <<plan, failure, solvers>>
    BY <1>5 DEF Step, EndLoop, FlushTables, FlushFile, WriteRecord, RenameRecord, Finalize, Doing
  <2> QED  BY <2>1, SolversUntouched DEF SolversInv
<1>6. ASSUME NEW name \in Names, Solve(name) PROVE SolversInv'
  BY <1>6, SolveKeepsSolvers
<1>7. CASE RecordMonitors
  <2>1. pc \in Looping /\ plan.monitoring \in {"recorded", "unavailable", "unallocated"}
    BY <1>7 DEF RecordMonitors, Doing, ControlInv, PlanSound, Planned, Open
  <2>2. CASE plan.monitoring = "recorded"
    <3>1. UNCHANGED <<plan, failure, solvers>>
      BY <1>7, <2>2 DEF RecordMonitors
    <3> QED  BY <2>1, <3>1, SolversUntouched DEF SolversInv
  <2>3. CASE plan.monitoring = "unavailable"
    BY <1>7, <2>3, SolversOver DEF RecordMonitors, Fatal
  <2>4. CASE plan.monitoring = "unallocated"
    BY <1>7, <2>4, SolversOver DEF RecordMonitors, Killed
  <2> QED  BY <2>1, <2>2, <2>3, <2>4
<1>8. ASSUME NEW objects, NEW label, NEW last, Write(objects, label, last), pc \in Looping
      PROVE  SolversInv'
  <2>1. \/ UNCHANGED <<failure, plan, solvers>>
        \/ Ended("failed", "dataset-exists") \/ Ended("failed", "time-key")
    BY <1>8, Zenon DEF Write, Fatal
  <2> QED  BY <1>8, <2>1, SolversUntouched, SolversOver DEF SolversInv
<1>9. CASE WriteOutputs \/ WriteCheckpoint
  BY <1>8, <1>9, Zenon DEF WriteOutputs, WriteCheckpoint, Doing
<1>10. CASE Exit \/ Kill
  <2>1. \E where \in {"done", "killed"} : Ended(where, "none")
    BY <1>10, Zenon DEF Exit, Kill, Killed
  <2> QED  BY <2>1, SolversOver
<1>11. CASE UNCHANGED vars
  BY <1>11 DEF vars, SolversInv
<1> QED
  BY <1>1, <1>2, <1>3, <1>4, <1>5, <1>6, <1>7, <1>9, <1>10, <1>11, Zenon DEF Next, Names

\* Where the program is, and that a run only gets past its construction with
\* the plan of a document the checks accepted.
THEOREM ControlHolds == Spec => []ControlInv
<1>1. Init => ControlInv
  BY ControlInit
<1>2. ControlInv /\ [Next]_vars => ControlInv'
  BY ControlStep
<1> QED  BY <1>1, <1>2, PTL DEF Spec

\* At every step of every run, whatever its document asks of the linear systems
\* and however their solves end: no preconditioner serves more solves than the
\* settings allow, none serves on after a solve that took too many iterations,
\* and no run ends under a preconditioner built for an older operator.
THEOREM SolversKeepTheirPromises == Spec => []SolverSound
<1>1. Init => SolversInv
  BY SolversInit
<1>2. ControlInv /\ SolversInv /\ [Next]_vars => SolversInv'
  BY SolversStep
<1>3. ControlInv /\ SolversInv => SolverSound
  <2> SUFFICES ASSUME ControlInv, SolversInv PROVE SolverSound
    OBVIOUS
  <2>1. plan # NoPlan => pc \in Planned
    BY DEF ControlInv
  <2>2. pc \in Planned => \A name \in Names : SystemInv(plan.policies[name], solvers[name])
    BY NewSystems DEF SolversInv, Planned, Open, Looping
  <2> QED  BY <2>1, <2>2 DEF SolverSound, SolversInv, SystemInv, Names
<1> QED  BY <1>1, <1>2, <1>3, ControlHolds, PTL DEF Spec

-----------------------------------------------------------------------------
(***************************************************************************)
(* What writing, flushing and being killed do to a file.                   *)
(***************************************************************************)
\* What a run can write: states of its own, or of a run before it.
Tags(r) == [run : 0..r, at : Nat, t : Nat]

FileSound(f) ==
    /\ f = [owner |-> f.owner, objects |-> f.objects, durable |-> f.durable]
    /\ f.owner \in Nat
    /\ IsList(f.objects)
    /\ f.durable \in 0..Len(f.objects)
    /\ \A o \in Objects(f) : o.from \in Tags(f.owner)

\* Nothing that a crash could no longer take is lost.
Grown(old, new) ==
    /\ FileSound(new)
    /\ new.owner = old.owner
    /\ Durable(old) \subseteq Durable(new)

LEMMA CreatedIsSound ==
    ASSUME NEW owner \in Nat
    PROVE  FileSound(created(owner)) /\ created(owner).owner = owner
BY NoneOf DEF FileSound, created, Objects, Elements

LEMMA FlushedGrows ==
    ASSUME NEW f, FileSound(f)
    PROVE  /\ Grown(f, flushed(f))
           /\ Durable(flushed(f)) = Objects(f) /\ flushed(f).objects = f.objects
<1> DEFINE g == flushed(f)
<1>1. g = [owner |-> f.owner, objects |-> f.objects, durable |-> Len(f.objects)]
  BY DEF FileSound, flushed
<1>2. /\ Len(f.objects) \in Nat /\ DOMAIN f.objects = 1..Len(f.objects)
      /\ f.durable \in 0..Len(f.objects)
  BY DEF FileSound, IsList
<1> HIDE DEF g
<1>3. g.owner = f.owner /\ g.objects = f.objects /\ g.durable = Len(f.objects)
  BY <1>1
<1>4. Objects(g) = Objects(f) /\ Durable(g) = Objects(f) /\ Durable(f) \subseteq Objects(f)
  BY <1>2, <1>3 DEF Objects, Durable
<1>5. FileSound(g)
  BY <1>1, <1>2, <1>3, <1>4 DEF FileSound
<1> QED  BY <1>3, <1>4, <1>5 DEF Grown, g

LEMMA LeftoverGrows ==
    ASSUME NEW f, FileSound(f), NEW g \in leftovers(f)
    PROVE  Grown(f, g) /\ Durable(g) = Objects(g) /\ Objects(g) \subseteq Objects(f)
<1>1. PICK n \in f.durable..Len(f.objects) :
         g = [f EXCEPT !.objects = SubSeq(f.objects, 1, n), !.durable = n]
  BY DEF leftovers
<1>2. /\ Len(f.objects) \in Nat /\ DOMAIN f.objects = 1..Len(f.objects)
      /\ f.durable \in 0..Len(f.objects) /\ n \in Nat /\ n <= Len(f.objects)
      /\ f.objects \in Seq(Elements(f.objects))
  BY DEF FileSound, IsList
<1> DEFINE kept == SubSeq(f.objects, 1, n)
<1>3. /\ kept \in Seq(Elements(f.objects)) /\ Len(kept) = n /\ DOMAIN kept = 1..n
      /\ \A k \in 1..n : kept[k] = f.objects[k]
  BY <1>2
<1>4. g = [owner |-> f.owner, objects |-> kept, durable |-> n]
  BY <1>1 DEF FileSound
<1> HIDE DEF kept
<1>5. g.owner = f.owner /\ g.objects = kept /\ g.durable = n
  BY <1>4
<1>6. Objects(g) = Durable(g) /\ Objects(g) \subseteq Objects(f) /\ Durable(f) \subseteq Durable(g)
  BY <1>2, <1>3, <1>5 DEF Objects, Durable
<1>7. IsList(kept)
  BY <1>3, ListOf
<1>8. FileSound(g)
  BY <1>2, <1>3, <1>4, <1>5, <1>6, <1>7 DEF FileSound
<1> QED  BY <1>5, <1>6, <1>8 DEF Grown

\* Writing stops somewhere.
LEMMA AcceptedExists ==
    ASSUME NEW f, NEW new, IsList(new)
    PROVE  \E n \in 0..Len(new) : /\ writable(f, SubSeq(new, 1, n))
                                  /\ n = Len(new) \/ ~writable(f, SubSeq(new, 1, n + 1))
<1> DEFINE refused == {n \in 1..Len(new) : ~writable(f, SubSeq(new, 1, n))}
<1>1. Len(new) \in Nat
  BY DEF IsList
<1>2. writable(f, SubSeq(new, 1, 0))
  <2>1. SubSeq(new, 1, 0) = <<>>
    BY <1>1 DEF IsList
  <2> QED  BY <2>1 DEF writable
<1>3. CASE refused = {}
  <2>1. \A n \in 0..Len(new) : writable(f, SubSeq(new, 1, n))
    BY <1>1, <1>2, <1>3
  <2> QED  BY <1>1, <2>1
<1>4. CASE refused # {}
  <2>1. refused \in SUBSET Nat
    BY <1>1
  <2>2. PICK n \in refused : \A m \in refused : n <= m
    BY <1>4, <2>1, Least
  <2>3. n \in 1..Len(new) /\ ~writable(f, SubSeq(new, 1, n)) /\ n - 1 \in 0..Len(new)
    BY <1>1, <2>2
  <2>4. n - 1 \notin refused
    BY <1>1, <2>2, <2>3
  <2>5. writable(f, SubSeq(new, 1, n - 1))
    <3>1. n - 1 = 0 \/ n - 1 \in 1..Len(new)
      BY <1>1, <2>3
    <3> QED  BY <1>2, <2>4, <3>1
  <2>6. (n - 1) + 1 = n
    BY <2>3
  <2> QED  BY <2>3, <2>5, <2>6
<1> QED  BY <1>3, <1>4

LEMMA WrittenGrows ==
    ASSUME NEW f, FileSound(f), NEW new, IsList(new), \A o \in Elements(new) : o.from \in Tags(f.owner)
    PROVE  LET g == written(f, new)
           IN /\ Grown(f, g)
              /\ Objects(f) \subseteq Objects(g)
              /\ \E n \in 0..Len(new) :
                    /\ writable(f, SubSeq(new, 1, n))
                    /\ n = Len(new) \/ ~writable(f, SubSeq(new, 1, n + 1))
                    /\ g.objects = f.objects \o SubSeq(new, 1, n)
<1> DEFINE g == written(f, new)
<1>1. PICK n \in 0..Len(new) : /\ writable(f, SubSeq(new, 1, n))
                               /\ n = Len(new) \/ ~writable(f, SubSeq(new, 1, n + 1))
                               /\ g = [f EXCEPT !.objects = f.objects \o SubSeq(new, 1, n)]
  <2> DEFINE good(n) == /\ writable(f, SubSeq(new, 1, n))
                        /\ n = Len(new) \/ ~writable(f, SubSeq(new, 1, n + 1))
             accepted == CHOOSE n \in 0..Len(new) : good(n)
  <2>1. accepted \in 0..Len(new) /\ good(accepted)
    BY AcceptedExists
  <2>2. g = [f EXCEPT !.objects = f.objects \o SubSeq(new, 1, accepted)]
    BY DEF written
  <2> HIDE DEF accepted
  <2> QED  BY <2>1, <2>2
<1> DEFINE added == SubSeq(new, 1, n)
           all   == f.objects \o added
<1>2. /\ new \in Seq(Elements(new)) /\ Len(new) \in Nat /\ DOMAIN new = 1..Len(new)
      /\ n \in Nat /\ n <= Len(new)
      /\ IsList(f.objects) /\ f.durable \in 0..Len(f.objects)
      /\ Len(f.objects) \in Nat /\ DOMAIN f.objects = 1..Len(f.objects)
  BY DEF IsList, FileSound
<1>3. /\ added \in Seq(Elements(new)) /\ Len(added) = n /\ DOMAIN added = 1..n
      /\ \A k \in 1..n : added[k] = new[k]
  BY <1>2
<1>4. g = [owner |-> f.owner, objects |-> all, durable |-> f.durable]
  <2> HIDE DEF all, g
  <2> QED  BY <1>1 DEF FileSound, all
<1> HIDE DEF added, g
<1>5. IsList(added) /\ Elements(added) \subseteq Elements(new)
  BY <1>2, <1>3, ListOf DEF Elements
<1>6. /\ IsList(all) /\ Elements(f.objects) \subseteq Elements(all)
      /\ Elements(all) \subseteq Elements(f.objects) \cup Elements(added)
  BY <1>2, <1>5, Together
<1>7. /\ Len(all) \in Nat /\ Len(all) >= Len(f.objects)
      /\ \A k \in 1..Len(f.objects) : all[k] = f.objects[k]
  <2>1. f.objects \in Seq(Elements(f.objects) \cup Elements(new))
        /\ added \in Seq(Elements(f.objects) \cup Elements(new))
    BY <1>2, <1>3 DEF IsList
  <2> QED  BY <2>1
<1> HIDE DEF all
<1>8. g.owner = f.owner /\ g.objects = all /\ g.durable = f.durable
  BY <1>4
<1>9. Objects(f) \subseteq Objects(g) /\ \A o \in Objects(g) : o.from \in Tags(f.owner)
  <2>1. Objects(f) = Elements(f.objects) /\ Objects(g) = Elements(all)
    BY <1>8 DEF Objects, Elements
  <2> QED  BY <1>5, <1>6, <2>1 DEF FileSound
<1>10. Durable(g) = Durable(f)
  <2>1. \A k \in 1..f.durable : all[k] = f.objects[k]
    BY <1>2, <1>7
  <2>2. Durable(g) = {all[k] : k \in 1..f.durable}
    BY <1>8 DEF Durable
  <2>3. Durable(f) = {f.objects[k] : k \in 1..f.durable}
    BY DEF Durable
  <2> QED  BY <2>1, <2>2, <2>3
<1>11. FileSound(g)
  BY <1>2, <1>4, <1>6, <1>7, <1>8, <1>9 DEF FileSound
<1> QED  BY <1>1, <1>8, <1>9, <1>10, <1>11 DEF Grown, g, added, all

\* A set of objects none of which can be refused is written whole.
LEMMA RowsAreWritten ==
    ASSUME NEW f, FileSound(f), NEW new, IsList(new),
           \A o \in Elements(new) : o.from \in Tags(f.owner) /\ o.group = "rows"
    PROVE  /\ Grown(f, written(f, new))
           /\ Objects(written(f, new)) = Objects(f) \cup Elements(new)
<1> DEFINE g == written(f, new)
<1>1. \A n \in 0..Len(new) : writable(f, SubSeq(new, 1, n))
  <2> SUFFICES ASSUME NEW n \in 0..Len(new) PROVE writable(f, SubSeq(new, 1, n))
    OBVIOUS
  <2> DEFINE part == SubSeq(new, 1, n)
  <2>1. Len(new) \in Nat /\ DOMAIN new = 1..Len(new) /\ n \in Nat /\ n <= Len(new)
        /\ new \in Seq(Elements(new))
    BY DEF IsList
  <2>2. DOMAIN part = 1..n /\ \A k \in 1..n : part[k] = new[k]
    BY <2>1
  <2> HIDE DEF part
  <2>3. \A k \in DOMAIN part : part[k].group = "rows"
    BY <2>1, <2>2 DEF Elements
  <2> QED  BY <2>3 DEF writable, Clashes, datasets, part
<1>2. PICK n \in 0..Len(new) :
         /\ n = Len(new) \/ ~writable(f, SubSeq(new, 1, n + 1))
         /\ g.objects = f.objects \o SubSeq(new, 1, n)
  BY WrittenGrows
<1>3. Len(new) \in Nat /\ new \in Seq(Elements(new)) /\ IsList(f.objects)
  BY DEF IsList, FileSound
<1>4. n = Len(new)
  BY <1>1, <1>2, <1>3
<1>5. SubSeq(new, 1, n) = new
  BY <1>3, <1>4
<1>6. g.objects = f.objects \o new
  BY <1>2, <1>5
<1>7. Elements(g.objects) = Elements(f.objects) \cup Elements(new)
  BY <1>3, <1>6, Together
<1>8. Grown(f, g)
  BY WrittenGrows
<1> HIDE DEF g
<1> QED  BY <1>7, <1>8 DEF g, Objects, Elements

LEMMA ChosenIsList ==
    ASSUME NEW condition, NEW list, IsList(list)
    PROVE  /\ IsList(If(condition, list))
           /\ Elements(If(condition, list)) \subseteq Elements(list)
           /\ condition => If(condition, list) = list
<1>1. CASE condition
  <2>1. If(condition, list) = list
    BY <1>1 DEF If
  <2> QED  BY <2>1
<1>2. CASE ~condition
  <2>1. If(condition, list) = <<>>
    BY <1>2 DEF If
  <2> QED  BY <1>2, <2>1, NoneOf
<1> QED  BY <1>1, <1>2

\* A list of tuples made from a list.
LEMMA MappedIsList ==
    ASSUME NEW list, IsList(list), NEW image, DOMAIN image = DOMAIN list,
           image = [n \in DOMAIN image |-> image[n]]
    PROVE  IsList(image)
<1>1. DOMAIN image = 1..Len(list) /\ Len(list) \in Nat
  BY DEF IsList
<1>2. \A n \in DOMAIN image : image[n] \in Elements(image)
  BY DEF Elements
<1> QED  BY <1>1, <1>2 DEF IsList

LEMMA PartsAreListed ==
    ASSUME NEW modules
    PROVE  IsList(checkpointParts(modules))
<1>1. \A on, names : IsList(names) => IsList(If(on, names))
  BY ChosenIsList
<1>2. \A first, second : IsList(first) /\ IsList(second) => IsList(first \o second)
  BY Together
<1>3. \A element : IsList(<<element>>)
  BY OneOf
<1>4. IsList(checkpointScalars(modules))
  BY <1>1, <1>2, <1>3 DEF checkpointScalars
<1>5. ASSUME NEW on, NEW a, NEW b, NEW c, NEW d
      PROVE  IsList(scalarFields2(on, modules, <<a, b, c, d>>))
  <2>1. <<a, b, c, d>> \in Seq({a, b, c, d})
    OBVIOUS
  <2>2. SubSeq(<<a, b, c, d>>, 1, 3) \in Seq({a, b, c, d})
        /\ SubSeq(<<a, b, c, d>>, 4, 4) \in Seq({a, b, c, d})
    BY <2>1
  <2>3. IsList(SubSeq(<<a, b, c, d>>, 1, 3)) /\ IsList(SubSeq(<<a, b, c, d>>, 4, 4))
    BY <2>2, ListOf
  <2> DEFINE x == SubSeq(<<a, b, c, d>>, 1, 3)
             y == SubSeq(<<a, b, c, d>>, 4, 4)
  <2> HIDE DEF x, y
  <2>4. IsList(If(on /\ modules.surfaceWater, x) \o If(on /\ modules.groundwater, y))
    BY <1>1, <1>2, <2>3 DEF x, y
  <2> QED  BY <2>4 DEF scalarFields2, x, y
<1>6. IsList(<<"eta", "etan", "uu", "vv", "cflx", "cfly">>)
  BY SixOf
<1>7. IsList(<<"seep_accum", "qss">>) /\ IsList(<<"h", "wc">>)
  BY DEF IsList, Elements
<1>8. IsList(<<"group", "t", "step">>)
  BY DEF IsList, Elements
<1> DEFINE a == If(modules.surfaceWater, <<"eta", "etan", "uu", "vv", "cflx", "cfly">>)
           b == If(coupledRun(modules), <<"seep_accum", "qss">>)
           c == scalarFields2(modules.transport, modules,
                              <<"s_surf", "s_fu_old", "s_fv_old", "s_dzz_top">>)
           d == scalarFields2(modules.temperature, modules,
                              <<"t_surf", "t_fu_old", "t_fv_old", "t_dzz_top">>)
           e == <<"h", "wc">>
           f == If(modules.transport, <<"s_subs">>)
           g == If(modules.temperature, <<"t_subs">>)
           head == <<"group", "t", "step">>
           list == <<"scalar_names">>
<1>9. IsList(a) /\ IsList(b) /\ IsList(c) /\ IsList(d) /\ IsList(e) /\ IsList(f) /\ IsList(g)
      /\ IsList(head) /\ IsList(list)
  BY <1>1, <1>3, <1>5, <1>6, <1>7, <1>8
<1>10. checkpointFields2(modules) = a \o b \o c \o d
  BY DEF checkpointFields2
<1>11. checkpointFields3(modules) = If(modules.groundwater, e \o f \o g)
  BY DEF checkpointFields3
<1>12. checkpointParts(modules)
         = head \o checkpointScalars(modules) \o list
             \o checkpointFields2(modules) \o checkpointFields3(modules)
  BY DEF checkpointParts
<1> HIDE DEF a, b, c, d, e, f, g, head, list
<1>13. IsList(checkpointFields2(modules)) /\ IsList(checkpointFields3(modules))
  BY <1>1, <1>2, <1>9, <1>10, <1>11
<1> QED  BY <1>2, <1>4, <1>9, <1>12, <1>13

-----------------------------------------------------------------------------
Doings == {"outputs", "monitors", "surface", "groundwater", "tables", "flush",
           "checkpoint", "record", "rename"}
Tasks == [do : Doings, label : Nat]

WorkInv ==
    pc \in Looping =>
        /\ clock \in Nat /\ start \in Nat
        /\ DOMAIN state = prognostic
        /\ \A part \in DOMAIN state : state[part] \in Tags(run)
        /\ agenda \in Seq(Tasks)
        /\ rows = [recorded |-> rows.recorded, written |-> rows.written]
        /\ rows.recorded \in Int /\ rows.written \in Int
        /\ Never <= rows.written /\ rows.written <= rows.recorded /\ rows.recorded <= clock

\* Every file has a name of its own and is a run's, this run's if it has
\* created it, and else an earlier run's.
DiskInv ==
    /\ OnDisk \subseteq STRING
    /\ \A name \in OnDisk :
          /\ FileSound(files[name])
          /\ files[name].owner <= run
          /\ pc \in Early => files[name].owner < run
          /\ pc \in Open /\ name # plan.filename => files[name].owner < run
    /\ pc \in Open => plan.filename \in OnDisk /\ file.owner = run

\* What the program may do to the output file of an open run.
FileEffect == files' = files \/ \E new : Put(new) /\ Grown(file, new)

LEMMA PutFile ==
    ASSUME NEW new, Put(new)
    PROVE  /\ DOMAIN files' = OnDisk \cup {plan.filename}
           /\ files'[plan.filename] = new
           /\ \A name \in OnDisk : name # plan.filename => files'[name] = files[name]
BY DEF Put, joined, OnDisk

LEMMA GrownGrows ==
    ASSUME NEW old, NEW mid, NEW new, Grown(old, mid), Grown(mid, new)
    PROVE  Grown(old, new)
BY DEF Grown

LEMMA FatalEffect ==
    ASSUME NEW why, NEW left, Fatal(why, left), Grown(file, left)
    PROVE  FileEffect
<1>1. Put(flushed(left)) /\ Grown(left, flushed(left))
  BY FlushedGrows DEF Fatal, Grown
<1> QED  BY <1>1, GrownGrows DEF FileEffect

LEMMA SoundGrows ==
    ASSUME NEW f, FileSound(f)
    PROVE  Grown(f, f)
BY DEF Grown

LEMMA FromIsTag ==
    ASSUME ControlInv, WorkInv, pc \in {"built"} \cup Looping
    PROVE  from \in Tags(run)
<1>1. CASE pc = "built"
  <2>1. state = Empty /\ run \in Nat
    BY <1>1 DEF ControlInv, Looping, NotStarted
  <2> QED  BY <2>1 DEF from, Empty, Tags
<1>2. CASE pc \in Looping
  <2>1. "t" \in DOMAIN state /\ state["t"] \in Tags(run)
    BY <1>2 DEF WorkInv, prognostic
  <2> QED  BY <2>1 DEF from
<1> QED  BY <1>1, <1>2

\* Objects written one for each element of a list, of tags that a run can write.
LEMMA ObjectsAreTagged ==
    ASSUME NEW list, IsList(list), NEW r, NEW new, DOMAIN new = DOMAIN list,
           new = [n \in DOMAIN new |-> new[n]], \A n \in DOMAIN new : new[n].from \in Tags(r)
    PROVE  IsList(new) /\ \A o \in Elements(new) : o.from \in Tags(r)
<1>1. IsList(new)
  BY MappedIsList
<1>2. \A o \in Elements(new) : o.from \in Tags(r)
  BY DEF Elements
<1> QED  BY <1>1, <1>2

LEMMA Quotient ==
    ASSUME NEW x \in Nat, NEW y \in Nat \ {0}
    PROVE  x \div y \in Nat
<1>1. x \div y \in Int /\ x % y \in 0..y - 1 /\ x = y * (x \div y) + (x % y)
  OBVIOUS
<1>2. x \div y >= 0
  OBVIOUS
<1> QED  BY <1>1, <1>2

LEMMA Product ==
    ASSUME NEW x \in Nat, NEW y \in Nat
    PROVE  x * y \in Nat
OBVIOUS

LEMMA TaskIsListed ==
    ASSUME NEW do \in Doings, NEW label \in Nat
    PROVE  /\ task(do, label) \in Seq(Tasks) /\ Len(task(do, label)) = 1
           /\ task(do, label)[1] = [do |-> do, label |-> label]
BY DEF task, Tasks

\* What is due is one task, or nothing.
LEMMA DueIsListed ==
    ASSUME ControlInv, pc \in Looping, NEW do \in Doings, NEW before \in Nat, NEW t \in Nat,
           NEW interval \in Nat, start \in Nat
    PROVE  \/ due(do, before, t, interval) = <<>>
           \/ \E label \in Nat : due(do, before, t, interval) = task(do, label)
<1>1. CASE interval = 0
  BY <1>1 DEF due
<1>2. CASE interval # 0
  <2> DEFINE index == nearest(t, interval)
             crossed == before \div interval
  <2>1. index \in Nat
    <3>1. 2 * t + interval \in Nat /\ 2 * interval \in Nat \ {0}
      BY <1>2
    <3> QED  BY <3>1, Quotient DEF nearest
  <2>2. crossed \in Nat
    BY <1>2, Quotient
  <2>3. index * interval \in Nat
    <3> HIDE DEF index
    <3> QED  BY <2>1, Product
  <2>4. (crossed + 1) * interval \in Nat
    <3> HIDE DEF crossed
    <3>1. crossed + 1 \in Nat
      BY <2>2
    <3> QED  BY <3>1, Product
  <2>5. \/ due(do, before, t, interval) = <<>>
        \/ due(do, before, t, interval) = task(do, index * interval)
        \/ due(do, before, t, interval) = task(do, (crossed + 1) * interval)
    BY <1>2, Zenon DEF due, If
  <2> QED  BY <2>3, <2>4, <2>5
<1> QED  BY <1>1, <1>2

LEMMA NearestIsNat ==
    ASSUME NEW t \in Nat
    PROVE  NearestSecond(t) \in Nat
<1>1. Second \div 2 \in Nat /\ Second \in Nat \ {0}
  BY SecondAssumption, Quotient
<1>2. t + Second \div 2 \in Nat
  BY <1>1
<1>3. (t + Second \div 2) \div Second \in Nat
  BY <1>1, <1>2, Quotient
<1> DEFINE q == (t + Second \div 2) \div Second
<1> HIDE DEF q
<1>4. q * Second \in Nat
  BY <1>1, <1>3, Product DEF q
<1> QED  BY <1>4 DEF NearestSecond, q

\* What a checkpoint reads back is one of the tags that were written.
LEMMA ReadIsWritten ==
    ASSUME NEW f, FileSound(f), NEW label, NEW part,
           part \in {o.part : o \in Saved(f, label)}
    PROVE  \E n \in DOMAIN f.objects :
              /\ f.objects[n] \in Saved(f, label) /\ f.objects[n].part = part
              /\ read(f, label, part) = f.objects[n].from
<1> DEFINE at == {n \in DOMAIN f.objects :
                     /\ f.objects[n].group = "checkpoint"
                     /\ f.objects[n].label = label
                     /\ f.objects[n].part = part}
<1>1. DOMAIN f.objects = 1..Len(f.objects) /\ Len(f.objects) \in Nat
  BY DEF FileSound, IsList
<1>2. at # {}
  <2>1. PICK o \in Saved(f, label) : o.part = part
    OBVIOUS
  <2>2. PICK n \in DOMAIN f.objects : f.objects[n] = o
    BY DEF Saved, Objects
  <2> QED  BY <2>1, <2>2 DEF Saved
<1>3. \E n \in at : \A m \in at : m <= n
  <2>1. at \in SUBSET (0..Len(f.objects))
    BY <1>1
  <2> HIDE DEF at
  <2> QED  BY <1>1, <1>2, <2>1, Greatest
<1>4. PICK n \in at : read(f, label, part) = f.objects[n].from
  <2> DEFINE last == CHOOSE n \in at : \A m \in at : m <= n
  <2>1. last \in at
    BY <1>3
  <2>2. read(f, label, part) = f.objects[last].from
    BY DEF read
  <2> HIDE DEF last
  <2> QED  BY <2>1, <2>2
<1> QED  BY <1>4 DEF Saved, Objects

LEMMA RestoredIsTagged ==
    ASSUME NEW f, FileSound(f), NEW r \in Nat, f.owner <= r, NEW label, NEW modules, NEW before,
           \A part \in DOMAIN before : before[part] \in Tags(r)
    PROVE  LET new == restored(f, label, modules, before)
           IN /\ DOMAIN new = DOMAIN before
              /\ \A part \in DOMAIN new : new[part] \in Tags(r)
<1> DEFINE new == restored(f, label, modules, before)
<1>1. DOMAIN new = DOMAIN before
  BY DEF restored
<1>2. ASSUME NEW part \in DOMAIN before PROVE new[part] \in Tags(r)
  <2>1. CASE part \in {o.part : o \in Saved(f, label)} /\ new[part] = read(f, label, part)
    <3>1. PICK n \in DOMAIN f.objects : read(f, label, part) = f.objects[n].from
      BY <2>1, ReadIsWritten
    <3>2. f.objects[n].from \in Tags(f.owner) /\ f.owner \in Nat
      BY DEF FileSound, Objects
    <3>3. Tags(f.owner) \subseteq Tags(r)
      BY <3>2 DEF Tags
    <3> QED  BY <2>1, <3>1, <3>2, <3>3
  <2>2. CASE new[part] = before[part]
    BY <2>2
  <2>3. \/ part \in {o.part : o \in Saved(f, label)} /\ new[part] = read(f, label, part)
        \/ new[part] = before[part]
    BY Zenon DEF restored
  <2> QED  BY <2>1, <2>2, <2>3
<1> QED  BY <1>1, <1>2

-----------------------------------------------------------------------------
(***************************************************************************)
(* What an open run does to its output file.                               *)
(***************************************************************************)
LEMMA FileOpen ==
    ASSUME ControlInv, DiskInv, pc \in Open
    PROVE  FileSound(file) /\ file.owner = run /\ run \in Nat /\ plan.filename \in OnDisk
BY DEF DiskInv, ControlInv, file

LEMMA WriteEffect ==
    ASSUME ControlInv, DiskInv, pc \in Open, NEW objects, NEW label, NEW last,
           IsList(objects), \A o \in Elements(objects) : o.from \in Tags(run),
           Write(objects, label, last)
    PROVE  FileEffect
<1>1. Grown(file, written(file, objects)) /\ Grown(file, file)
  BY FileOpen, WrittenGrows, SoundGrows
<1>2. \/ Put(written(file, objects))
      \/ Fatal("dataset-exists", written(file, objects))
      \/ Fatal("time-key", file)
  BY Zenon DEF Write
<1> QED  BY <1>1, <1>2, FatalEffect DEF FileEffect

LEMMA OutputsAreTagged ==
    ASSUME ControlInv, WorkInv, pc \in Looping, NEW label
    PROVE  LET objects == [n \in DOMAIN plan.variables |->
                             object(plan.variables[n][1], label, plan.variables[n][2], from)]
           IN IsList(objects) /\ \A o \in Elements(objects) : o.from \in Tags(run)
<1> DEFINE objects == [n \in DOMAIN plan.variables |->
                         object(plan.variables[n][1], label, plan.variables[n][2], from)]
<1>1. IsList(plan.variables)
  BY DEF ControlInv, PlanSound, Planned, Open, Listing, IsList
<1>2. \A n \in DOMAIN objects : objects[n].from = from
  BY DEF object
<1>3. objects = [n \in DOMAIN objects |-> objects[n]] /\ DOMAIN objects = DOMAIN plan.variables
  OBVIOUS
<1> HIDE DEF objects
<1>4. \A n \in DOMAIN objects : objects[n].from \in Tags(run)
  BY <1>2, FromIsTag
<1> QED  BY <1>1, <1>3, <1>4, ObjectsAreTagged DEF objects

LEMMA CheckpointIsTagged ==
    ASSUME ControlInv, WorkInv, pc \in Looping, NEW label, NEW header \in Nat
    PROVE  LET headed  == [part \in DOMAIN state |-> [state[part] EXCEPT !.t = header]]
               objects == checkpointOf(mods, headed, label)
           IN IsList(objects) /\ \A o \in Elements(objects) : o.from \in Tags(run)
<1> DEFINE headed  == [part \in DOMAIN state |-> [state[part] EXCEPT !.t = header]]
           parts   == checkpointParts(mods)
           tag(part) == headed[IF part \in DOMAIN headed THEN part ELSE "t"]
           objects == [n \in DOMAIN parts |-> object("checkpoint", label, parts[n], tag(parts[n]))]
<1>1. IsList(parts)
  BY PartsAreListed
<1>2. "t" \in DOMAIN state /\ \A part \in DOMAIN state : state[part] \in Tags(run)
  BY DEF WorkInv, prognostic
<1>3. \A part \in DOMAIN headed : headed[part] \in Tags(run)
  BY <1>2 DEF Tags
<1>4. DOMAIN headed = DOMAIN state
  OBVIOUS
<1> HIDE DEF headed
<1>5. \A part : tag(part) \in Tags(run)
  BY <1>2, <1>3, <1>4
<1> HIDE DEF parts, tag
<1>6. \A n \in DOMAIN objects : objects[n].from \in Tags(run)
  BY <1>5 DEF object
<1>7. objects = [n \in DOMAIN objects |-> objects[n]] /\ DOMAIN objects = DOMAIN parts
  OBVIOUS
<1> HIDE DEF objects
<1>8. IsList(objects) /\ \A o \in Elements(objects) : o.from \in Tags(run)
  BY <1>1, <1>6, <1>7, ObjectsAreTagged
<1>9. objects = checkpointOf(mods, headed, label)
  BY DEF objects, parts, tag, checkpointOf
<1> QED  BY <1>8, <1>9 DEF headed

\* The rows a flush of the tables adds: one of each table.
NewRows == If(rows.recorded > rows.written,
              [n \in DOMAIN plan.tables |->
                  object("rows", rows.recorded, plan.tables[n], from)])

LEMMA RowsAreTagged ==
    ASSUME ControlInv, WorkInv, pc \in Looping
    PROVE  /\ IsList(NewRows)
           /\ \A o \in Elements(NewRows) : o.from \in Tags(run) /\ o.group = "rows"
           /\ rows.recorded > rows.written =>
                 \A table \in Elements(plan.tables) :
                    \E o \in Elements(NewRows) :
                        o.group = "rows" /\ o.label = rows.recorded /\ o.part = table
<1> DEFINE all == [n \in DOMAIN plan.tables |->
                      object("rows", rows.recorded, plan.tables[n], from)]
<1>1. IsList(plan.tables)
  BY DEF ControlInv, PlanSound, Planned, Open
<1>2. \A n \in DOMAIN all : /\ all[n].from = from /\ all[n].group = "rows"
                            /\ all[n].label = rows.recorded /\ all[n].part = plan.tables[n]
  BY DEF object
<1>3. all = [n \in DOMAIN all |-> all[n]] /\ DOMAIN all = DOMAIN plan.tables
  OBVIOUS
<1>4. NewRows = If(rows.recorded > rows.written, all)
  BY DEF NewRows
<1> HIDE DEF all
<1>5. \A n \in DOMAIN all : all[n].from \in Tags(run)
  BY <1>2, FromIsTag
<1>6. IsList(all) /\ \A o \in Elements(all) : o.from \in Tags(run)
  BY <1>1, <1>3, <1>5, ObjectsAreTagged
<1>7. \A o \in Elements(all) : o.group = "rows"
  BY <1>2 DEF Elements
<1>8. \A table \in Elements(plan.tables) :
         \E o \in Elements(all) : o.group = "rows" /\ o.label = rows.recorded /\ o.part = table
  <2> SUFFICES ASSUME NEW table \in Elements(plan.tables)
               PROVE  \E o \in Elements(all) :
                         o.group = "rows" /\ o.label = rows.recorded /\ o.part = table
    OBVIOUS
  <2>1. PICK n \in DOMAIN plan.tables : table = plan.tables[n]
    BY DEF Elements
  <2>2. n \in DOMAIN all /\ all[n] \in Elements(all)
    BY <1>3, <2>1 DEF Elements
  <2> QED  BY <1>2, <2>1, <2>2
<1> QED  BY <1>4, <1>6, <1>7, <1>8, ChosenIsList

LEMMA WorkFiles ==
    ASSUME ControlInv, WorkInv, DiskInv, pc \in Open, [Next]_vars
    PROVE  /\ FileEffect
           /\ run' = run
           /\ pc' \in Open \cup Over
           /\ pc' \in Open => plan' = plan
<1> USE DEF Looping, Open, Over
<1>0. /\ FileSound(file) /\ Grown(file, file) /\ Grown(file, flushed(file))
      /\ pc \in Looping => plan.monitoring \in {"recorded", "unavailable", "unallocated"}
  BY FileOpen, SoundGrows, FlushedGrows DEF ControlInv, PlanSound, Planned
<1>1. CASE Read \/ Report \/ Build \/ CreateOutput \/ Rerun
  BY <1>1 DEF Read, Report, Build, CreateOutput, Rerun
<1>2. CASE Begin
  <2>1. pc = "opened" /\ run' = run
    BY <1>2 DEF Begin
  <2>2. \/ files' = files /\ plan' = plan /\ pc' = "running"
        \/ Fatal("no-checkpoint", file)
    BY <1>2, Zenon DEF Begin
  <2> QED  BY <1>0, <2>1, <2>2, FatalEffect DEF FileEffect, Fatal, Ended
<1>3. CASE Step \/ EndLoop \/ WriteRecord \/ RenameRecord \/ Finalize
  BY <1>3 DEF Step, EndLoop, WriteRecord, RenameRecord, Finalize, Doing, FileEffect, disk
<1>4. ASSUME NEW name \in Names, Solve(name)
      PROVE  /\ FileEffect /\ run' = run
             /\ pc' \in Open \cup Over /\ (pc' \in Open => plan' = plan)
  <2>1. pc \in Looping /\ run' = run
    BY <1>4 DEF Solve, Doing
  <2>2. \/ UNCHANGED <<pc, plan, files>>
        \/ \E why : Fatal(why, file)
    BY <1>4, Zenon DEF Solve
  <2> QED  BY <1>0, <2>1, <2>2, FatalEffect DEF FileEffect, Fatal, Ended
<1>5. ASSUME NEW why, Killed(why)
      PROVE  FileEffect /\ pc' \in Over /\ pc' \notin Open
  <2>1. PICK left \in leftovers(file) : Put(left)
    BY <1>5 DEF Killed
  <2>2. Grown(file, left)
    BY <1>0, LeftoverGrows
  <2> QED  BY <1>5, <2>1, <2>2 DEF FileEffect, Killed, Ended
<1>6. CASE RecordMonitors
  <2>1. pc \in Looping /\ run' = run
    BY <1>6 DEF RecordMonitors, Doing
  <2>2. CASE plan.monitoring = "recorded"
    BY <1>6, <2>1, <2>2 DEF RecordMonitors, FileEffect
  <2>3. CASE plan.monitoring = "unavailable"
    <3>1. Fatal("unavailable", file)
      BY <1>6, <2>3 DEF RecordMonitors
    <3> QED  BY <1>0, <2>1, <3>1, FatalEffect DEF Fatal, Ended
  <2>4. CASE plan.monitoring = "unallocated"
    <3>1. Killed("unallocated")
      BY <1>6, <2>4 DEF RecordMonitors
    <3>2. FileEffect /\ pc' \in Over /\ pc' \notin Open
      BY <1>5, <3>1, Zenon
    <3> QED  BY <2>1, <3>2
  <2> QED  BY <1>0, <2>1, <2>2, <2>3, <2>4
<1>7. ASSUME NEW objects, NEW label, NEW last, Write(objects, label, last), pc \in Looping
      PROVE  pc' \in Open \cup Over /\ (pc' \in Open => plan' = plan)
  <2>1. \/ UNCHANGED <<pc, plan>>
        \/ \E why : Ended("failed", why)
    BY <1>7, Zenon DEF Write, Fatal
  <2> QED  BY <1>7, <2>1 DEF Ended
<1>8. CASE WriteOutputs
  <2> DEFINE objects(label) == [n \in DOMAIN plan.variables |->
                  object(plan.variables[n][1], label, plan.variables[n][2], from)]
  <2>1. pc \in Looping /\ run' = run /\ Write(objects(Head(agenda).label), Head(agenda).label, saved)
    BY <1>8 DEF WriteOutputs, Doing
  <2>2. IsList(objects(Head(agenda).label))
        /\ \A o \in Elements(objects(Head(agenda).label)) : o.from \in Tags(run)
    BY <2>1, OutputsAreTagged
  <2> HIDE DEF objects
  <2> QED  BY <1>7, <2>1, <2>2, WriteEffect
<1>9. CASE WriteCheckpoint
  <2> DEFINE label  == Head(agenda).label
             header == IF surfaceLoop THEN label ELSE clock
             headed == [part \in DOMAIN state |-> [state[part] EXCEPT !.t = header]]
             objects == checkpointOf(mods, headed, label)
  <2>1. pc \in Looping /\ run' = run /\ Write(objects, label, header) /\ agenda # <<>>
    BY <1>9 DEF WriteCheckpoint, Doing
  <2>2. header \in Nat
    <3>0. agenda \in Seq(Tasks) /\ clock \in Nat
      BY <2>1 DEF WorkInv
    <3>1. Head(agenda) \in Tasks
      BY <2>1, <3>0
    <3>2. label \in Nat /\ clock \in Nat
      BY <3>0, <3>1 DEF Tasks
    <3> QED  BY <3>2
  <2> HIDE DEF label, header
  <2>3. IsList(objects) /\ \A o \in Elements(objects) : o.from \in Tags(run)
    BY <2>1, <2>2, CheckpointIsTagged
  <2> HIDE DEF objects
  <2> QED  BY <1>7, <2>1, <2>3, WriteEffect
<1>10. CASE FlushTables
  <2>1. pc \in Looping /\ UNCHANGED <<run, pc, plan>> /\ Put(written(file, NewRows))
    BY <1>10 DEF FlushTables, Doing, NewRows
  <2>2. Grown(file, written(file, NewRows))
    BY <2>1, FileOpen, RowsAreTagged, WrittenGrows
  <2> QED  BY <2>1, <2>2 DEF FileEffect
<1>11. CASE FlushFile
  <2>1. pc \in Looping /\ UNCHANGED <<run, pc, plan>> /\ Put(flushed(file))
    BY <1>11 DEF FlushFile, Doing
  <2> QED  BY <1>0, <2>1 DEF FileEffect
<1>12. CASE Exit
  <2>1. pc' = "done" /\ run' = run /\ Put(flushed(file))
    BY <1>12 DEF Exit, Ended
  <2>2. FileEffect
    BY <1>0, <2>1, Zenon DEF FileEffect
  <2> QED  BY <2>1, <2>2
<1>13. CASE Kill
  <2>1. Killed("none") /\ run' = run
    BY <1>13 DEF Kill
  <2>2. FileEffect /\ pc' \in Over /\ pc' \notin Open
    BY <1>5, <2>1, Zenon
  <2> QED  BY <2>1, <2>2
<1>14. CASE UNCHANGED vars
  BY <1>14 DEF vars, FileEffect
<1> HIDE DEF Looping, Open, Over
<1> QED
  BY <1>1, <1>2, <1>3, <1>4, <1>6, <1>8, <1>9, <1>10, <1>11, <1>12, <1>13, <1>14, Zenon
  DEF Next, Names

-----------------------------------------------------------------------------
(***************************************************************************)
(* The files and the loop's variables, step by step.                       *)
(***************************************************************************)
LEMMA DiskInit ==
    ASSUME Init PROVE DiskInv
BY DEF Init, DiskInv, OnDisk, Empty, Open, Looping

LEMMA WorkInit ==
    ASSUME Init PROVE WorkInv
BY DEF Init, WorkInv, Looping

\* What a new file holds: of this run, and no checkpoint.
LEMMA CreatedObjects ==
    ASSUME ControlInv, pc = "built"
    PROVE  LET tables  == [n \in DOMAIN plan.tables |-> object("table", 0, plan.tables[n], from)]
               objects == gridMeta \o tables
           IN /\ IsList(objects)
              /\ \A o \in Elements(objects) : o.from \in Tags(run) /\ o.group # "checkpoint"
<1> DEFINE tables  == [n \in DOMAIN plan.tables |-> object("table", 0, plan.tables[n], from)]
           objects == gridMeta \o tables
           Meta(o) == o.from \in Tags(run) /\ o.group # "checkpoint"
<1>1. IsList(plan.tables) /\ from \in Tags(run)
  <2>1. run \in Nat /\ IsList(plan.tables) /\ state = Empty
    BY DEF ControlInv, PlanSound, Planned, Looping, NotStarted
  <2> QED  BY <2>1 DEF from, Empty, Tags
<1>2. IsList(gridMeta) /\ \A o \in Elements(gridMeta) : Meta(o)
  <2>1. \A group \in {"grid", "groundwater"} : \A label, part : Meta(object(group, label, part, from))
    BY <1>1 DEF object
  <2> HIDE DEF Meta
  <2>2. PICK a, b, c, d, e, f, g :
           /\ gridMeta = <<a, b, c, d, e, f, g>>
           /\ \A o \in {a, b, c, d, e, f, g} : Meta(o)
    <3> DEFINE a == object("grid", 0, "x_center", from)
               b == object("grid", 0, "y_center", from)
               c == object("grid", 0, "z_center", from)
               d == object("grid", 0, "dz", from)
               e == object("groundwater", 0, "zcell", from)
               f == object("grid", 0, "bottom", from)
               g == object("grid", 0, "ktop", from)
    <3>1. \A o \in {a, b, c, d, e, f, g} : Meta(o)
      BY <2>1
    <3>2. gridMeta = <<a, b, c, d, e, f, g>>
      BY DEF gridMeta
    <3> HIDE DEF a, b, c, d, e, f, g
    <3> QED  BY <3>1, <3>2
  <2> QED  BY <2>2, SevenOf
<1>3. IsList(tables) /\ \A o \in Elements(tables) : Meta(o)
  <2>1. \A n \in DOMAIN tables : Meta(tables[n])
    BY <1>1 DEF object
  <2>2. tables = [n \in DOMAIN tables |-> tables[n]] /\ DOMAIN tables = DOMAIN plan.tables
    OBVIOUS
  <2> HIDE DEF tables, Meta
  <2>3. IsList(tables)
    BY <1>1, <2>2, MappedIsList
  <2> QED  BY <2>1, <2>3 DEF Elements
<1> HIDE DEF tables
<1>4. IsList(objects) /\ Elements(objects) \subseteq Elements(gridMeta) \cup Elements(tables)
  BY <1>2, <1>3, Together
<1> HIDE DEF objects
<1>5. IsList(objects) /\ \A o \in Elements(objects) : Meta(o)
  BY <1>2, <1>3, <1>4
<1> QED  BY <1>5 DEF objects, tables

LEMMA CreateOutputEffect ==
    ASSUME ControlInv, CreateOutput
    PROVE  /\ \E left : Put(left) /\ FileSound(left) /\ left.owner = run
           /\ UNCHANGED <<run, record, tmp, completed>>
           /\ \/ pc' = "opened" /\ plan' = plan
              \/ pc' = "failed"
<1> DEFINE tables  == [n \in DOMAIN plan.tables |-> object("table", 0, plan.tables[n], from)]
           objects == gridMeta \o tables
           left    == written(created(run), objects)
<1>1. pc = "built" /\ UNCHANGED <<run, record, tmp, completed>> /\ run \in Nat
  BY DEF CreateOutput, ControlInv
<1>2. \/ Put(left) /\ pc' = "opened" /\ plan' = plan
      \/ Fatal("table-exists", left)
  BY Zenon DEF CreateOutput
<1>3. IsList(objects) /\ \A o \in Elements(objects) : o.from \in Tags(run)
  BY <1>1, CreatedObjects
<1> HIDE DEF objects
<1>4. FileSound(created(run)) /\ created(run).owner = run
  BY <1>1, CreatedIsSound
<1>5. Grown(created(run), left)
  BY <1>3, <1>4, WrittenGrows
<1>6. FileSound(left) /\ left.owner = run
  BY <1>4, <1>5 DEF Grown
<1> HIDE DEF left
<1>7. FileSound(flushed(left)) /\ flushed(left).owner = run
  BY <1>6, FlushedGrows DEF Grown
<1>8. CASE Put(left) /\ pc' = "opened" /\ plan' = plan
  BY <1>1, <1>6, <1>8
<1>9. CASE Fatal("table-exists", left)
  BY <1>1, <1>7, <1>9 DEF Fatal, Ended
<1> QED  BY <1>2, <1>8, <1>9

LEMMA DiskStep ==
    ASSUME ControlInv, WorkInv, DiskInv, [Next]_vars PROVE DiskInv'
<1>1. CASE pc \in Open
  <2>1. /\ FileEffect /\ run' = run
        /\ pc' \in Open \cup Over /\ (pc' \in Open => plan' = plan)
    BY <1>1, WorkFiles
  <2>2. pc' \notin Early
    BY <2>1 DEF Early, Open, Looping, Over
  <2>3. /\ OnDisk' = OnDisk
        /\ \A name \in OnDisk : /\ FileSound(files'[name])
                                /\ files'[name].owner = files[name].owner
    <3>1. CASE files' = files
      BY <3>1 DEF DiskInv, OnDisk
    <3>2. CASE \E new : Put(new) /\ Grown(file, new)
      <4>1. PICK new : Put(new) /\ Grown(file, new)
        BY <3>2
      <4>2. plan.filename \in OnDisk /\ FileSound(new) /\ new.owner = files[plan.filename].owner
        BY <1>1, <4>1, FileOpen DEF Grown, file
      <4> QED  BY <4>1, <4>2, PutFile DEF DiskInv, OnDisk
    <3> QED  BY <2>1, <3>1, <3>2 DEF FileEffect
  <2>4. file'.owner = files'[plan'.filename].owner
    BY DEF file
  <2>5. plan.filename \in OnDisk /\ files[plan.filename].owner = run
    BY <1>1 DEF DiskInv, file
  <2> QED  BY <1>1, <2>1, <2>2, <2>3, <2>4, <2>5 DEF DiskInv
<1>2. CASE CreateOutput
  <2>1. PICK left : Put(left) /\ FileSound(left) /\ left.owner = run
    BY <1>2, CreateOutputEffect
  <2>2. pc = "built" /\ run' = run /\ run \in Nat /\ ((pc' = "opened" /\ plan' = plan) \/ pc' = "failed")
    BY <1>2, CreateOutputEffect DEF CreateOutput, ControlInv
  <2>3. \A name \in OnDisk : FileSound(files[name]) /\ files[name].owner < run
    BY <2>2 DEF DiskInv, Early
  <2>4. /\ DOMAIN files' = OnDisk \cup {plan.filename}
        /\ files'[plan.filename] = left
        /\ \A name \in OnDisk : name # plan.filename => files'[name] = files[name]
    BY <2>1, PutFile
  <2>5. \A name \in OnDisk' :
           /\ FileSound(files'[name]) /\ files'[name].owner <= run
           /\ name # plan.filename => files'[name].owner < run
    <3> SUFFICES ASSUME NEW name \in OnDisk'
                 PROVE  /\ FileSound(files'[name]) /\ files'[name].owner <= run
                        /\ name # plan.filename => files'[name].owner < run
      OBVIOUS
    <3>1. CASE name = plan.filename
      BY <2>1, <2>2, <2>4, <3>1
    <3>2. CASE name # plan.filename
      <4>1. name \in OnDisk /\ files'[name] = files[name]
        BY <2>4, <3>2 DEF OnDisk
      <4>2. files[name].owner \in Nat
        BY <2>3, <4>1 DEF FileSound
      <4> QED  BY <2>2, <2>3, <4>1, <4>2, <3>2
    <3> QED  BY <3>1, <3>2
  <2>6. file' = files'[plan'.filename]
    BY DEF file
  <2>7. plan.filename \in OnDisk' /\ files'[plan.filename].owner = run
    BY <2>1, <2>4 DEF OnDisk
  <2>10. OnDisk' \subseteq STRING
    <3>1. plan.filename \in STRING /\ OnDisk \subseteq STRING
      BY <2>2 DEF ControlInv, PlanSound, Planned, DiskInv
    <3> QED  BY <2>4, <3>1 DEF OnDisk
  <2>8. pc' \notin Early
    BY <2>2 DEF Early
  <2>9. pc' \in Open => plan' = plan
    BY <2>2 DEF Open, Looping
  <2> QED  BY <2>2, <2>5, <2>6, <2>7, <2>8, <2>9, <2>10 DEF DiskInv
<1>3. CASE Read \/ Report \/ Build
  <2>1. pc \in Early /\ pc' \notin Open /\ UNCHANGED <<run, files>>
    BY <1>3, Zenon DEF Read, Report, Build, Early, Open, Looping, disk
  <2>2. OnDisk' = OnDisk
    BY <2>1 DEF OnDisk
  <2> QED  BY <2>1, <2>2 DEF DiskInv
<1>4. CASE Rerun
  <2>1. pc' \notin Open /\ files' = files /\ run' = run + 1 /\ run \in Nat
    BY <1>4 DEF Rerun, Open, Looping, disk, ControlInv
  <2>2. OnDisk' = OnDisk
    BY <2>1 DEF OnDisk
  <2>3. \A name \in OnDisk : files[name].owner <= run + 1 /\ files[name].owner < run + 1
    <3>1. \A name \in OnDisk : files[name].owner \in Nat /\ files[name].owner <= run
      BY DEF DiskInv, FileSound
    <3> QED  BY <2>1, <3>1
  <2> QED  BY <2>1, <2>2, <2>3 DEF DiskInv
<1>5. CASE UNCHANGED vars
  <2>1. UNCHANGED <<OnDisk, file, files, run, pc, plan>>
    BY <1>5 DEF vars, OnDisk, file
  <2> QED  BY <2>1 DEF DiskInv
<1>6. CASE pc \notin Open /\ ~(Read \/ Report \/ Build \/ CreateOutput \/ Rerun) /\ Next
  BY <1>6 DEF Next, Begin, Step, EndLoop, Solve, RecordMonitors, WriteOutputs, WriteCheckpoint,
       FlushTables, FlushFile, WriteRecord, RenameRecord, Finalize, Exit, Kill, Doing, Open, Looping
<1> QED  BY <1>1, <1>2, <1>3, <1>4, <1>5, <1>6

LEMMA WorkOver ==
    ASSUME NEW where \in {"failed", "killed", "done"}, NEW why, Ended(where, why)
    PROVE  WorkInv'
BY DEF WorkInv, Ended, Looping

\* A step that neither moves the clock nor touches the state.
LEMMA WorkGoesOn ==
    ASSUME ControlInv, WorkInv, pc \in Looping, UNCHANGED <<run, plan, clock, start, state>>,
           agenda' \in Seq(Tasks),
           \/ UNCHANGED rows
           \/ rows' = [rows EXCEPT !.recorded = clock]
           \/ rows' = [rows EXCEPT !.written = rows.recorded]
    PROVE  WorkInv'
<1>1. prognostic' = prognostic
  BY DEF prognostic, mods
<1>2. /\ rows = [recorded |-> rows.recorded, written |-> rows.written]
      /\ rows.recorded \in Int /\ rows.written \in Int /\ clock \in Nat
      /\ Never <= rows.written /\ rows.written <= rows.recorded /\ rows.recorded <= clock
      /\ Never \in Int
  BY DEF WorkInv, Never
<1>3. \/ rows' = rows
      \/ rows' = [recorded |-> clock, written |-> rows.written]
      \/ rows' = [recorded |-> rows.recorded, written |-> rows.recorded]
  BY <1>2
<1>4. /\ rows' = [recorded |-> rows'.recorded, written |-> rows'.written]
      /\ rows'.recorded \in Int /\ rows'.written \in Int
      /\ Never <= rows'.written /\ rows'.written <= rows'.recorded /\ rows'.recorded <= clock
  BY <1>2, <1>3
<1> QED  BY <1>1, <1>4 DEF WorkInv, Never

LEMMA TailOfAgenda ==
    ASSUME WorkInv, pc \in Looping, agenda # <<>>
    PROVE  Head(agenda) \in Tasks /\ Tail(agenda) \in Seq(Tasks)
<1>1. agenda \in Seq(Tasks)
  BY DEF WorkInv
<1> QED  BY <1>1

LEMMA FlushingIsListed ==
    flushing \in Seq(Tasks)
<1>1. "tables" \in Doings /\ "flush" \in Doings /\ "record" \in Doings /\ 0 \in Nat
  BY DEF Doings
<1>2. task("tables", 0) \in Seq(Tasks) /\ task("flush", 0) \in Seq(Tasks)
      /\ task("record", 0) \in Seq(Tasks)
  BY <1>1, TaskIsListed
<1> QED  BY <1>2 DEF flushing

LEMMA NoTask == <<>> \in Seq(Tasks) /\ DOMAIN <<>> = {}
OBVIOUS

LEMMA OneTask ==
    ASSUME NEW do \in Doings, NEW label \in Nat
    PROVE  /\ task(do, label) \in Seq(Tasks) /\ DOMAIN task(do, label) = {1}
           /\ task(do, label)[1].do = do
<1> DEFINE a == [do |-> do, label |-> label]
<1>1. a \in Tasks /\ a.do = do
  BY DEF Tasks
<1>2. task(do, label) = <<a>>
  BY DEF task
<1> HIDE DEF a
<1> QED  BY <1>1, <1>2

LEMMA Joined ==
    ASSUME NEW S, NEW a \in Seq(S), NEW b \in Seq(S)
    PROVE  /\ a \o b \in Seq(S) /\ Len(a \o b) = Len(a) + Len(b)
           /\ \A n \in 1..Len(a) : (a \o b)[n] = a[n]
           /\ \A n \in 1..Len(b) : (a \o b)[n + Len(a)] = b[n]
OBVIOUS

\* A list of two tasks.
Both(tasks, first, second) ==
    /\ tasks \in Seq(Tasks) /\ DOMAIN tasks = {1, 2}
    /\ tasks[1].do = first /\ tasks[2].do = second

LEMMA TwoTasks ==
    ASSUME NEW first \in Doings, NEW m \in Nat, NEW second \in Doings, NEW n \in Nat,
           NEW both, both = task(first, m) \o task(second, n)
    PROVE  Both(both, first, second)
<1> DEFINE a == task(first, m)
           b == task(second, n)
<1>1. /\ a \in Seq(Tasks) /\ DOMAIN a = {1} /\ a[1].do = first
      /\ b \in Seq(Tasks) /\ DOMAIN b = {1} /\ b[1].do = second
  BY OneTask
<1>2. both = a \o b
  OBVIOUS
<1> HIDE DEF a, b
<1>3. Len(a) = 1 /\ Len(b) = 1
  BY <1>1
<1>4. /\ both \in Seq(Tasks) /\ Len(both) = Len(a) + Len(b)
      /\ \A k \in 1..Len(a) : both[k] = a[k]
      /\ \A k \in 1..Len(b) : both[k + Len(a)] = b[k]
  BY <1>1, <1>2, Joined
<1>5. Len(both) = 2 /\ both[1] = a[1] /\ both[2] = b[1]
  BY <1>3, <1>4
<1>6. DOMAIN both = {1, 2}
  BY <1>4, <1>5
<1> QED  BY <1>1, <1>4, <1>5, <1>6 DEF Both

\* What a step of the loop leaves to do, in pieces.
SavesDue == LET svs == due("checkpoint", clock, clock + plan.dt, plan.checkpointInterval)
            IN If(svs # <<>>, svs \o task("flush", 0))

LEMMA StepAgenda ==
    ASSUME ControlInv, WorkInv, Step
    PROVE  \E solved, outputs, saves \in Seq(Tasks) :
              /\ \A n \in DOMAIN solved : solved[n].do \in {"surface", "groundwater", "monitors"}
              /\ \A n \in DOMAIN outputs : outputs[n].do = "outputs"
              /\ \A n \in DOMAIN saves : saves[n].do \in {"checkpoint", "flush"}
              /\ saves = SavesDue
              /\ \/ agenda' = solved \o saves
                 \/ agenda' = solved \o (outputs \o flushing) \o saves
<1> DEFINE t      == clock + plan.dt
           before == clock
           outs   == due("outputs", before, t, plan.interval)
           svs    == due("checkpoint", before, t, plan.checkpointInterval)
           surf   == If(mods.surfaceWater, task("surface", 0))
           subs   == If(mods.groundwater, task("groundwater", 0))
           solved == surf \o subs \o task("monitors", 0)
           saves  == If(svs # <<>>, svs \o task("flush", 0))
<1>1. /\ pc \in Looping /\ clock \in Nat /\ start \in Nat
      /\ plan.dt \in Nat /\ plan.interval \in Nat /\ plan.checkpointInterval \in Nat
  <2>1. pc \in Looping
    BY DEF Step, Looping
  <2> QED  BY <2>1 DEF WorkInv, ControlInv, PlanSound, Planned, Open, Seconds
<1>2. t \in Nat
  BY <1>1
<1>3. {"outputs", "checkpoint", "surface", "groundwater", "monitors", "flush"} \subseteq Doings
  BY DEF Doings
<1>4. /\ agenda' = solved \o If(outs # <<>>, outs \o flushing) \o saves
      /\ saves = SavesDue
  BY DEF Step, SavesDue
<1> HIDE DEF t, before
<1>5. \/ outs = <<>>
      \/ \E label \in Nat : outs = task("outputs", label)
  BY <1>1, <1>2, <1>3, DueIsListed DEF before
<1>6. \/ svs = <<>>
      \/ \E label \in Nat : svs = task("checkpoint", label)
  BY <1>1, <1>2, <1>3, DueIsListed DEF before
<1> HIDE DEF outs, svs
<1>7. outs \in Seq(Tasks) /\ \A n \in DOMAIN outs : outs[n].do = "outputs"
  <2>1. CASE outs = <<>>
    BY <2>1, NoTask
  <2>2. CASE outs # <<>>
    <3>1. PICK label \in Nat : outs = task("outputs", label)
      BY <1>5, <2>2
    <3>2. outs \in Seq(Tasks) /\ DOMAIN outs = {1} /\ outs[1].do = "outputs"
      BY <1>3, <3>1, OneTask
    <3> QED  BY <3>2
  <2> QED  BY <2>1, <2>2
<1>8. saves \in Seq(Tasks) /\ \A n \in DOMAIN saves : saves[n].do \in {"checkpoint", "flush"}
  <2>1. CASE svs = <<>>
    <3>1. saves = <<>>
      BY <2>1 DEF If
    <3> HIDE DEF saves
    <3> QED  BY <3>1, NoTask
  <2>2. CASE svs # <<>>
    <3>1. PICK label \in Nat : svs = task("checkpoint", label)
      BY <1>6, <2>2
    <3>2. saves = task("checkpoint", label) \o task("flush", 0)
      BY <2>2, <3>1 DEF If
    <3> HIDE DEF saves
    <3>3. "checkpoint" \in Doings /\ "flush" \in Doings /\ 0 \in Nat
      BY DEF Doings
    <3>4. Both(saves, "checkpoint", "flush")
      BY <3>2, <3>3, TwoTasks, Zenon
    <3> QED  BY <3>4 DEF Both
  <2> QED  BY <2>1, <2>2
<1>9. solved \in Seq(Tasks)
      /\ \A n \in DOMAIN solved : solved[n].do \in {"surface", "groundwater", "monitors"}
  <2> DEFINE these == [do : {"surface", "groundwater", "monitors"}, label : Nat]
  <2>1. \A do \in {"surface", "groundwater", "monitors"} : task(do, 0) \in Seq(these)
    BY DEF task
  <2>2. \A condition : If(condition, task("surface", 0)) \in Seq(these)
                       /\ If(condition, task("groundwater", 0)) \in Seq(these)
    BY <2>1 DEF If
  <2>3. surf \in Seq(these) /\ subs \in Seq(these) /\ task("monitors", 0) \in Seq(these)
    BY <2>1, <2>2
  <2> HIDE DEF surf, subs
  <2>4. solved \in Seq(these)
    BY <2>3
  <2> HIDE DEF solved
  <2>5. \A x \in these : x \in Tasks /\ x.do \in {"surface", "groundwater", "monitors"}
    BY DEF Tasks, Doings
  <2> HIDE DEF these
  <2>6. DOMAIN solved = 1..Len(solved) /\ \A n \in DOMAIN solved : solved[n] \in these
    BY <2>4
  <2>7. solved = [n \in 1..Len(solved) |-> solved[n]] /\ Len(solved) \in Nat
    BY <2>4
  <2> QED  BY <2>5, <2>6, <2>7
<1> HIDE DEF solved, saves
<1>10. CASE outs = <<>>
  <2>1. If(outs # <<>>, outs \o flushing) = <<>>
    BY <1>10 DEF If
  <2>2. agenda' = solved \o <<>> \o saves
    BY <1>4, <2>1
  <2>3. solved \o <<>> = solved
    BY <1>9
  <2>4. agenda' = solved \o saves
    BY <2>2, <2>3
  <2> QED  BY <1>4, <1>7, <1>8, <1>9, <2>4
<1>11. CASE outs # <<>>
  <2>1. If(outs # <<>>, outs \o flushing) = outs \o flushing
    BY <1>11 DEF If
  <2>2. agenda' = solved \o (outs \o flushing) \o saves
    BY <1>4, <2>1
  <2> QED  BY <1>4, <1>7, <1>8, <1>9, <2>2
<1> QED  BY <1>10, <1>11

LEMMA EndAgenda ==
    ASSUME ControlInv, WorkInv, EndLoop
    PROVE  \E saves \in Seq(Tasks) :
              /\ \A n \in DOMAIN saves : saves[n].do \in {"checkpoint", "flush"}
              /\ agenda' = saves \o flushing
<1> DEFINE label == IF surfaceLoop THEN plan.tEnd ELSE NearestSecond(clock)
<1>1. label \in Nat
  <2>1. clock \in Nat /\ plan.tEnd \in Nat
    BY DEF EndLoop, WorkInv, ControlInv, PlanSound, Planned, Open, Looping
  <2> QED  BY <2>1, NearestIsNat
<1>2. PICK last : agenda' = If(last, task("checkpoint", label) \o task("flush", 0)) \o flushing
  BY DEF EndLoop
<1> HIDE DEF label
<1> DEFINE saves == If(last, task("checkpoint", label) \o task("flush", 0))
<1>3. saves \in Seq(Tasks) /\ \A n \in DOMAIN saves : saves[n].do \in {"checkpoint", "flush"}
  <2>1. CASE ~last
    <3>1. saves = <<>>
      BY <2>1, Zenon DEF If
    <3> HIDE DEF saves
    <3> QED  BY <3>1, NoTask
  <2>2. CASE last
    <3>1. saves = task("checkpoint", label) \o task("flush", 0)
      BY <2>2, Zenon DEF If
    <3> HIDE DEF saves
    <3>2. "checkpoint" \in Doings /\ "flush" \in Doings /\ 0 \in Nat
      BY DEF Doings
    <3>3. Both(saves, "checkpoint", "flush")
      BY <1>1, <3>1, <3>2, TwoTasks, Zenon
    <3> QED  BY <3>3 DEF Both
  <2> QED  BY <2>1, <2>2
<1> QED  BY <1>2, <1>3

LEMMA BeginEffect ==
    ASSUME ControlInv, DiskInv, Begin, pc' \in Looping
    PROVE  /\ pc' = "running" /\ UNCHANGED <<files, plan, run, record, tmp, completed, rows>>
           /\ clock' \in Nat /\ start' = clock'
           /\ DOMAIN state' = prognostic
           /\ \A part \in prognostic : state'[part] \in Tags(run)
           /\ agenda' \in Seq(Tasks)
           /\ \A n \in DOMAIN agenda' : agenda'[n].do # "record"
<1> DEFINE initial == tagged(plan.tStart)
           source  == files[plan.restart.file]
           new     == restored(source, plan.restart.time, mods, initial)
<1>1. pc = "opened" /\ UNCHANGED <<run, record, tmp, completed>>
  BY DEF Begin
<1>2. /\ plan.tStart \in Nat /\ run \in Nat /\ agenda = <<>>
  BY <1>1 DEF ControlInv, PlanSound, Planned, Open, Looping, Seconds, NotStarted
<1>3. DOMAIN initial = prognostic /\ \A part \in prognostic : initial[part] \in Tags(run)
  BY <1>2 DEF tagged, Tags
<1>4. \/ /\ state' = initial /\ clock' = plan.tStart /\ start' = plan.tStart
         /\ agenda' = task("outputs", plan.tStart) \o task("monitors", 0)
         /\ pc' = "running" /\ UNCHANGED <<files, plan, rows>>
      \/ /\ plan.restart.file \in OnDisk
         /\ state' = new /\ clock' = state'["t"].t /\ start' = state'["t"].t
         /\ pc' = "running" /\ UNCHANGED <<files, plan, rows, agenda>>
      \/ Fatal("no-checkpoint", file)
  BY Zenon DEF Begin
<1>5. ~Fatal("no-checkpoint", file)
  BY DEF Fatal, Ended, Looping
<1>6. CASE /\ state' = initial /\ clock' = plan.tStart /\ start' = plan.tStart
           /\ agenda' = task("outputs", plan.tStart) \o task("monitors", 0)
           /\ pc' = "running" /\ UNCHANGED <<files, plan, rows>>
  <2> HIDE DEF initial
  <2>1. "outputs" \in Doings /\ "monitors" \in Doings /\ 0 \in Nat
    BY DEF Doings
  <2> DEFINE list == agenda'
  <2>2. list = task("outputs", plan.tStart) \o task("monitors", 0)
    BY <1>6
  <2> HIDE DEF list
  <2>3. Both(list, "outputs", "monitors")
    BY <1>2, <2>1, <2>2, TwoTasks, Zenon
  <2>4. agenda' \in Seq(Tasks) /\ \A n \in DOMAIN agenda' : agenda'[n].do # "record"
    BY <2>3 DEF list, Both
  <2> QED  BY <1>1, <1>2, <1>3, <1>6, <2>4
<1>7. CASE /\ plan.restart.file \in OnDisk
           /\ state' = new /\ clock' = state'["t"].t /\ start' = state'["t"].t
           /\ pc' = "running" /\ UNCHANGED <<files, plan, rows, agenda>>
  <2>1. FileSound(source) /\ source.owner <= run
    BY <1>7 DEF DiskInv
  <2> HIDE DEF initial, source
  <2>2. DOMAIN new = prognostic /\ \A part \in prognostic : new[part] \in Tags(run)
    BY <1>2, <1>3, <2>1, RestoredIsTagged
  <2>3. "t" \in prognostic
    BY DEF prognostic
  <2>4. state'["t"].t \in Nat
    BY <1>7, <2>2, <2>3 DEF Tags
  <2>5. agenda' = <<>>
    BY <1>2, <1>7
  <2> HIDE DEF new
  <2>6. agenda' \in Seq(Tasks) /\ DOMAIN agenda' = {}
    BY <2>5
  <2> QED  BY <1>1, <1>7, <2>2, <2>4, <2>6
<1> QED  BY <1>4, <1>5, <1>6, <1>7

LEMMA WorkStep ==
    ASSUME ControlInv, WorkInv, DiskInv, [Next]_vars PROVE WorkInv'
<1>1. CASE Read \/ Report \/ Build \/ CreateOutput \/ Rerun
  <2>1. pc' \in {"rejected", "failed", "loaded", "reported", "built", "opened", "reading"}
    BY <1>1, Zenon DEF Read, Report, Build, CreateOutput, Rerun, Fatal, Ended
  <2> QED  BY <2>1 DEF WorkInv, Looping
<1>2. CASE Begin
  <2>1. CASE pc' \in Looping
    <3>1. prognostic' = prognostic
      BY <1>2, <2>1, BeginEffect DEF prognostic, mods
    <3>2. /\ UNCHANGED <<run, rows>> /\ rows = [recorded |-> Never, written |-> Never]
      BY <1>2, <2>1, BeginEffect DEF Begin, ControlInv, NotStarted, Looping
    <3>3. /\ clock' \in Nat /\ start' \in Nat /\ DOMAIN state' = prognostic
          /\ \A part \in prognostic : state'[part] \in Tags(run) /\ agenda' \in Seq(Tasks)
      BY <1>2, <2>1, BeginEffect
    <3>4. "t" \in prognostic
      BY DEF prognostic
    <3> QED  BY <3>1, <3>2, <3>3, <3>4 DEF WorkInv, Never
  <2>2. CASE pc' \notin Looping
    BY <2>2 DEF WorkInv
  <2> QED  BY <2>1, <2>2
<1>3. CASE Step
  <2>1. /\ pc \in Looping /\ pc' = pc /\ UNCHANGED <<run, plan, start, rows>>
        /\ clock' = clock + plan.dt /\ state' = tagged(clock + plan.dt)
    BY <1>3 DEF Step, Looping
  <2>2. clock \in Nat /\ plan.dt \in Nat /\ run \in Nat
    BY <2>1 DEF WorkInv, ControlInv, PlanSound, Planned, Open
  <2>3. DOMAIN state' = prognostic /\ \A part \in prognostic : state'[part] \in Tags(run)
    BY <2>1, <2>2 DEF tagged, Tags
  <2>4. agenda' \in Seq(Tasks)
    <3>1. PICK solved, outputs, saves \in Seq(Tasks) :
             /\ \A n \in DOMAIN solved : solved[n].do \in {"surface", "groundwater", "monitors"}
             /\ \A n \in DOMAIN outputs : outputs[n].do = "outputs"
             /\ \A n \in DOMAIN saves : saves[n].do \in {"checkpoint", "flush"}
             /\ saves = SavesDue
             /\ \/ agenda' = solved \o saves
                \/ agenda' = solved \o (outputs \o flushing) \o saves
      BY <1>3, StepAgenda, Zenon
    <3>2. solved \o saves \in Seq(Tasks)
      BY Joined
    <3>3. solved \o (outputs \o flushing) \o saves \in Seq(Tasks)
      BY FlushingIsListed, Joined
    <3> QED  BY <3>1, <3>2, <3>3
  <2>5. prognostic' = prognostic
    BY <2>1 DEF prognostic, mods
  <2> QED  BY <2>1, <2>2, <2>3, <2>4, <2>5 DEF WorkInv, Never
<1>4. CASE EndLoop
  <2>1. pc \in Looping /\ pc' \in Looping /\ UNCHANGED <<run, plan, clock, start, state, rows>>
    BY <1>4 DEF EndLoop, Looping, disk
  <2>2. agenda' \in Seq(Tasks)
    BY <1>4, EndAgenda, FlushingIsListed, Joined
  <2> QED  BY <2>1, <2>2, WorkGoesOn
<1>5. ASSUME NEW name \in Names, Solve(name) PROVE WorkInv'
  <2>1. pc \in Looping /\ agenda # <<>> /\ run' = run
    BY <1>5 DEF Solve, Doing, Looping
  <2>2. \E new : IF new.outcome = "solved"
                    THEN /\ solvers' = [solvers EXCEPT ![name] = new]
                         /\ Done
                         /\ UNCHANGED <<pc, failure, plan, files, clock, start, saved, state, rows>>
                    ELSE Fatal(new.outcome, file)
    BY <1>5 DEF Solve
  <2>3. \/ agenda' = Tail(agenda) /\ UNCHANGED <<plan, clock, start, state, rows>>
        \/ \E why : Ended("failed", why)
    BY <2>2 DEF Done, Fatal
  <2> QED  BY <2>1, <2>3, TailOfAgenda, WorkGoesOn, WorkOver
<1>6. CASE RecordMonitors
  <2>1. pc \in Looping /\ agenda # <<>> /\ run' = run
        /\ plan.monitoring \in {"recorded", "unavailable", "unallocated"}
    BY <1>6 DEF RecordMonitors, Doing, Looping, ControlInv, PlanSound, Planned, Open
  <2>2. CASE plan.monitoring = "recorded"
    <3>1. /\ agenda' = Tail(agenda) /\ UNCHANGED <<plan, clock, start, state>>
          /\ rows' = [rows EXCEPT !.recorded = clock]
      BY <1>6, <2>2 DEF RecordMonitors, Done
    <3> QED  BY <2>1, <3>1, TailOfAgenda, WorkGoesOn
  <2>3. CASE plan.monitoring = "unavailable"
    BY <1>6, <2>3, WorkOver DEF RecordMonitors, Fatal
  <2>4. CASE plan.monitoring = "unallocated"
    BY <1>6, <2>4, WorkOver DEF RecordMonitors, Killed
  <2> QED  BY <2>1, <2>2, <2>3, <2>4
<1>7. CASE WriteOutputs \/ WriteCheckpoint
  <2>1. pc \in Looping /\ agenda # <<>> /\ run' = run
    BY <1>7 DEF WriteOutputs, WriteCheckpoint, Doing, Looping
  <2>2. \/ agenda' = Tail(agenda) /\ UNCHANGED <<plan, clock, start, state, rows>>
        \/ \E why : Ended("failed", why)
    BY <1>7, Zenon DEF WriteOutputs, WriteCheckpoint, Write, Fatal, Done
  <2> QED  BY <2>1, <2>2, TailOfAgenda, WorkGoesOn, WorkOver
<1>8. CASE FlushTables \/ FlushFile \/ RenameRecord
  <2>1. /\ pc \in Looping /\ agenda # <<>> /\ agenda' = Tail(agenda)
        /\ UNCHANGED <<run, plan, clock, start, state>>
        /\ UNCHANGED rows \/ rows' = [rows EXCEPT !.written = rows.recorded]
    BY <1>8 DEF FlushTables, FlushFile, RenameRecord, Doing, Done, Looping
  <2> QED  BY <2>1, TailOfAgenda, WorkGoesOn
<1>9. CASE WriteRecord
  <2>1. /\ pc \in Looping /\ agenda # <<>> /\ agenda' = task("rename", 0) \o Tail(agenda)
        /\ UNCHANGED <<run, plan, clock, start, state, rows>>
    BY <1>9 DEF WriteRecord, Doing, Looping
  <2>2. "rename" \in Doings /\ 0 \in Nat
    BY DEF Doings
  <2>3. task("rename", 0) \in Seq(Tasks)
    BY <2>2, OneTask
  <2>4. agenda' \in Seq(Tasks)
    BY <2>1, <2>3, TailOfAgenda, Joined
  <2> QED  BY <2>1, <2>4, WorkGoesOn
<1>10. CASE Finalize
  <2>1. /\ pc \in Looping /\ agenda' = task("record", 0)
        /\ UNCHANGED <<run, plan, clock, start, state, rows>>
    BY <1>10 DEF Finalize, Looping
  <2>2. "record" \in Doings /\ 0 \in Nat
    BY DEF Doings
  <2>3. agenda' \in Seq(Tasks)
    BY <2>1, <2>2, OneTask
  <2> QED  BY <2>1, <2>3, WorkGoesOn
<1>11. CASE Exit \/ Kill
  <2>1. \E where \in {"done", "killed"} : Ended(where, "none")
    BY <1>11, Zenon DEF Exit, Kill, Killed
  <2> QED  BY <2>1, WorkOver
<1>12. CASE UNCHANGED vars
  <2>1. UNCHANGED <<prognostic, pc, run, clock, start, agenda, state, rows>>
    BY <1>12 DEF vars, prognostic, mods
  <2> QED  BY <2>1 DEF WorkInv
<1> QED
  BY <1>1, <1>2, <1>3, <1>4, <1>5, <1>6, <1>7, <1>8, <1>9, <1>10, <1>11, <1>12, Zenon
  DEF Next, Names

\* What a run in its loop holds (a state of its own or of an earlier run for
\* every variable, a list of tasks, rows that are never written before they are
\* recorded), and whose the files on disk are: only the open run's output file
\* is of the open run.
THEOREM WorkHolds == Spec => [](ControlInv /\ WorkInv /\ DiskInv)
<1>1. Init => ControlInv /\ WorkInv /\ DiskInv
  BY ControlInit, WorkInit, DiskInit
<1>2. ControlInv /\ WorkInv /\ DiskInv /\ [Next]_vars => (ControlInv /\ WorkInv /\ DiskInv)'
  BY ControlStep, WorkStep, DiskStep
<1> QED  BY <1>1, <1>2, PTL DEF Spec

-----------------------------------------------------------------------------
(***************************************************************************)
(* The run record closes with rows that are already durable: a record is   *)
(* only written after the tables it closes were written and then flushed.  *)
(* Stage says how far the rows recorded last have come.                    *)
(***************************************************************************)
HasRows(tables, objects, label) ==
    \A table \in tables : \E row \in objects :
        row.group = "rows" /\ row.part = table /\ row.label = label

RowsKept == rows.written # Never
               => HasRows(Elements(plan.tables), Objects(file), rows.written)
Settled  == rows.written = rows.recorded
Closed   == Settled /\ (rows.recorded # Never
               => HasRows(Elements(plan.tables), Durable(file), rows.recorded))
Stage    == IF Closed THEN 2 ELSE IF Settled THEN 1 ELSE 0

\* Every record of a list of tasks comes after the tables and a flush, or
\* follows what was done of them.
Orderly(list, stage) ==
    \A i \in DOMAIN list : list[i].do = "record" =>
        \/ i >= 3 /\ list[i - 1].do = "flush" /\ list[i - 2].do = "tables"
        \/ i = 2 /\ list[1].do = "flush" /\ stage >= 1
        \/ i = 1 /\ stage = 2

Avoids(list, what) == \A i \in DOMAIN list : list[i].do # what

LEMMA AvoidsTogether ==
    ASSUME NEW a \in Seq(Tasks), NEW b \in Seq(Tasks), NEW what, Avoids(a, what), Avoids(b, what)
    PROVE  Avoids(a \o b, what)
<1> DEFINE list == a \o b
<1>1. /\ list \in Seq(Tasks) /\ Len(list) = Len(a) + Len(b)
      /\ \A n \in 1..Len(a) : list[n] = a[n]
      /\ \A n \in 1..Len(b) : list[n + Len(a)] = b[n]
  BY Joined
<1>2. DOMAIN a = 1..Len(a) /\ DOMAIN b = 1..Len(b) /\ Len(a) \in Nat /\ Len(b) \in Nat
  OBVIOUS
<1> HIDE DEF list
<1>3. ASSUME NEW i \in DOMAIN list PROVE list[i].do # what
  <2>1. i \in 1..(Len(a) + Len(b))
    BY <1>1, <1>3
  <2>2. CASE i <= Len(a)
    BY <1>1, <1>2, <2>1, <2>2 DEF Avoids
  <2>3. CASE i > Len(a)
    <3>1. i - Len(a) \in 1..Len(b) /\ (i - Len(a)) + Len(a) = i
      BY <1>2, <2>1, <2>3
    <3>2. list[i] = b[i - Len(a)]
      BY <1>1, <3>1
    <3> QED  BY <1>2, <3>1, <3>2 DEF Avoids
  <2> QED  BY <1>2, <2>1, <2>2, <2>3
<1> QED  BY <1>3 DEF Avoids, list

\* Lists of which every record has its flush and tables before it.
LEMMA OrderlyTogether ==
    ASSUME NEW a \in Seq(Tasks), NEW b \in Seq(Tasks), Orderly(a, 0), Orderly(b, 0)
    PROVE  Orderly(a \o b, 0)
<1> DEFINE list == a \o b
<1>1. /\ list \in Seq(Tasks) /\ Len(list) = Len(a) + Len(b)
      /\ \A n \in 1..Len(a) : list[n] = a[n]
      /\ \A n \in 1..Len(b) : list[n + Len(a)] = b[n]
  BY Joined
<1>2. DOMAIN a = 1..Len(a) /\ DOMAIN b = 1..Len(b) /\ Len(a) \in Nat /\ Len(b) \in Nat
  OBVIOUS
<1> HIDE DEF list
<1>3. ASSUME NEW i \in DOMAIN list, list[i].do = "record"
      PROVE  i >= 3 /\ list[i - 1].do = "flush" /\ list[i - 2].do = "tables"
  <2>1. i \in 1..(Len(a) + Len(b))
    BY <1>1, <1>3
  <2>2. CASE i <= Len(a)
    <3>1. i \in DOMAIN a /\ a[i].do = "record"
      BY <1>1, <1>2, <1>3, <2>1, <2>2
    <3>2. i >= 3 /\ a[i - 1].do = "flush" /\ a[i - 2].do = "tables"
      BY <3>1 DEF Orderly
    <3>3. i - 1 \in 1..Len(a) /\ i - 2 \in 1..Len(a)
      BY <1>2, <2>1, <2>2, <3>2
    <3> QED  BY <1>1, <3>2, <3>3
  <2>3. CASE i > Len(a)
    <3> DEFINE j == i - Len(a)
    <3>1. j \in 1..Len(b) /\ j + Len(a) = i
      BY <1>2, <2>1, <2>3
    <3>2. list[i] = b[j]
      BY <1>1, <3>1
    <3>3. j >= 3 /\ b[j - 1].do = "flush" /\ b[j - 2].do = "tables"
      BY <1>2, <1>3, <3>1, <3>2 DEF Orderly
    <3>4. /\ j - 1 \in 1..Len(b) /\ j - 2 \in 1..Len(b)
          /\ (j - 1) + Len(a) = i - 1 /\ (j - 2) + Len(a) = i - 2
      <4>1. j \in Int /\ j >= 3 /\ j <= Len(b) /\ i = j + Len(a)
        BY <1>2, <2>1, <3>1, <3>3
      <4> HIDE DEF j
      <4> QED  BY <1>2, <4>1
    <3>5. list[i - 1] = b[j - 1] /\ list[i - 2] = b[j - 2]
      BY <1>1, <3>4
    <3>6. i >= 3
      BY <1>2, <3>1, <3>3
    <3> QED  BY <3>3, <3>5, <3>6
  <2> QED  BY <1>2, <2>1, <2>2, <2>3
<1> QED  BY <1>3 DEF Orderly, list

LEMMA AvoidingIsOrderly ==
    ASSUME NEW list, Avoids(list, "record"), NEW stage
    PROVE  Orderly(list, stage)
BY DEF Avoids, Orderly

LEMMA OrderlyAtAnyStage ==
    ASSUME NEW list, Orderly(list, 0), NEW stage
    PROVE  Orderly(list, stage)
BY DEF Orderly

\* The tables, a flush, and the record.
LEMMA FlushingIsOrderly ==
    /\ Orderly(flushing, 0)
    /\ Len(flushing) = 3 /\ flushing[3].do = "record"
    /\ Avoids(flushing, "monitors") /\ Avoids(flushing, "checkpoint")
<1> DEFINE a == [do |-> "tables", label |-> 0]
           b == [do |-> "flush", label |-> 0]
           c == [do |-> "record", label |-> 0]
<1>1. a.do = "tables" /\ b.do = "flush" /\ c.do = "record"
  OBVIOUS
<1>2. flushing = <<a>> \o <<b>> \o <<c>>
  BY DEF flushing, task
<1>3. a \in Tasks /\ b \in Tasks /\ c \in Tasks
  BY DEF Tasks, Doings
<1> HIDE DEF a, b, c
<1> DEFINE x == <<a>>
           y == <<b>>
           z == <<c>>
<1>4. /\ x \in Seq(Tasks) /\ Len(x) = 1 /\ x[1] = a
      /\ y \in Seq(Tasks) /\ Len(y) = 1 /\ y[1] = b
      /\ z \in Seq(Tasks) /\ Len(z) = 1 /\ z[1] = c
  BY <1>3
<1>5. flushing = (x \o y) \o z
  BY <1>2
<1> HIDE DEF x, y, z
<1> DEFINE xy == x \o y
<1>6. xy \in Seq(Tasks) /\ Len(xy) = 1 + 1 /\ xy[1] = a /\ xy[1 + 1] = b
  BY <1>4, Joined
<1> DEFINE f == flushing
<1>7. f = xy \o z /\ xy \in Seq(Tasks) /\ z \in Seq(Tasks)
  BY <1>4, <1>5, <1>6
<1> HIDE DEF xy, f
<1>8. /\ f \in Seq(Tasks) /\ Len(f) = Len(xy) + Len(z)
      /\ \A n \in 1..Len(xy) : f[n] = xy[n]
      /\ \A n \in 1..Len(z) : f[n + Len(xy)] = z[n]
  BY <1>7, Joined
<1>9. Len(f) = 3 /\ f[1] = a /\ f[2] = b /\ f[3] = c
  BY <1>4, <1>6, <1>8
<1>10. DOMAIN f = 1..Len(f)
  BY <1>8
<1>11. Orderly(f, 0)
  BY <1>1, <1>9, <1>10 DEF Orderly
<1>12. Avoids(f, "monitors") /\ Avoids(f, "checkpoint")
  BY <1>1, <1>9, <1>10 DEF Avoids
<1> QED  BY <1>1, <1>9, <1>11, <1>12 DEF f

-----------------------------------------------------------------------------
\* The first task is done.
LEMMA OrderlyGoesOn ==
    ASSUME NEW list \in Seq(Tasks), list # <<>>, list[1].do # "record",
           NEW stage \in 0..2, NEW next \in 0..2, Orderly(list, stage),
           list[1].do = "tables" => next >= 1,
           list[1].do = "flush" /\ stage >= 1 => next = 2
    PROVE  Orderly(Tail(list), next)
<1> DEFINE rest == Tail(list)
<1>1. /\ rest \in Seq(Tasks) /\ Len(rest) = Len(list) - 1 /\ DOMAIN rest = 1..(Len(list) - 1)
      /\ \A i \in 1..(Len(list) - 1) : rest[i] = list[i + 1]
      /\ Len(list) \in Nat /\ DOMAIN list = 1..Len(list)
  OBVIOUS
<1> HIDE DEF rest
<1>2. ASSUME NEW i \in DOMAIN rest, rest[i].do = "record"
      PROVE  \/ i >= 3 /\ rest[i - 1].do = "flush" /\ rest[i - 2].do = "tables"
             \/ i = 2 /\ rest[1].do = "flush" /\ next >= 1
             \/ i = 1 /\ next = 2
  <2>1. i \in Nat /\ i >= 1 /\ i + 1 \in DOMAIN list /\ list[i + 1].do = "record"
    BY <1>1, <1>2
  <2> DEFINE j == i + 1
  <2>2. \/ j >= 3 /\ list[j - 1].do = "flush" /\ list[j - 2].do = "tables"
        \/ j = 2 /\ list[1].do = "flush" /\ stage >= 1
        \/ j = 1 /\ stage = 2
    BY <2>1 DEF Orderly
  <2>3. CASE j >= 4 /\ list[j - 1].do = "flush" /\ list[j - 2].do = "tables"
    <3>0. i \in Nat /\ i >= 3 /\ i + 1 <= Len(list) /\ Len(list) \in Nat
      BY <1>1, <2>1, <2>3
    <3>1. i - 1 \in 1..(Len(list) - 1) /\ i - 2 \in 1..(Len(list) - 1)
          /\ (i - 1) + 1 = j - 1 /\ (i - 2) + 1 = j - 2 /\ i >= 3
      BY <3>0
    <3>2. rest[i - 1] = list[j - 1] /\ rest[i - 2] = list[j - 2]
      BY <1>1, <3>1
    <3> QED  BY <2>3, <3>1, <3>2
  <2>4. CASE j = 3 /\ list[2].do = "flush" /\ list[1].do = "tables"
    <3>1. i = 2 /\ 1 \in 1..(Len(list) - 1) /\ 1 + 1 = 2
      BY <1>1, <2>1, <2>4
    <3>2. rest[1] = list[1 + 1]
      BY <1>1, <3>1
    <3> QED  BY <2>4, <3>1, <3>2
  <2>5. CASE j = 2 /\ list[1].do = "flush" /\ stage >= 1
    BY <2>1, <2>5
  <2>6. \/ j >= 4 /\ list[j - 1].do = "flush" /\ list[j - 2].do = "tables"
        \/ j = 3 /\ list[2].do = "flush" /\ list[1].do = "tables"
        \/ j = 2 /\ list[1].do = "flush" /\ stage >= 1
    <3>1. CASE j = 1
      BY <2>1, <3>1
    <3>2. CASE j = 2
      BY <2>2, <3>2
    <3>3. CASE j = 3
      <4>1. list[j - 1].do = "flush" /\ list[j - 2].do = "tables" /\ j - 1 = 2 /\ j - 2 = 1
        BY <2>2, <3>3
      <4> QED  BY <3>3, <4>1
    <3>4. CASE j >= 4
      BY <2>2, <3>4
    <3> QED  BY <2>1, <3>1, <3>2, <3>3, <3>4
  <2> QED  BY <2>3, <2>4, <2>5, <2>6
<1> QED  BY <1>2 DEF Orderly, rest

LEMMA OneThenMore ==
    ASSUME NEW first \in Seq(Tasks), NEW rest \in Seq(Tasks)
    PROVE  Len(first) = 1 =>
              /\ first \o rest \in Seq(Tasks) /\ Len(first \o rest) = 1 + Len(rest)
              /\ (first \o rest)[1] = first[1]
              /\ \A n \in 1..Len(rest) : (first \o rest)[n + 1] = rest[n]
<1> DEFINE new == first \o rest
<1>1. /\ new \in Seq(Tasks) /\ Len(new) = Len(first) + Len(rest)
      /\ \A n \in 1..Len(first) : new[n] = first[n]
      /\ \A n \in 1..Len(rest) : new[n + Len(first)] = rest[n]
  <2>1. new \in Seq(Tasks) /\ Len(new) = Len(first) + Len(rest)
    BY Joined
  <2>2. \A n \in 1..Len(first) : new[n] = first[n]
    BY Joined
  <2>3. \A n \in 1..Len(rest) : new[n + Len(first)] = rest[n]
    BY Joined
  <2> QED  BY <2>1, <2>2, <2>3
<1> HIDE DEF new
<1>2. Len(first) = 1 => /\ Len(new) = 1 + Len(rest) /\ new[1] = first[1]
                         /\ \A n \in 1..Len(rest) : new[n + 1] = rest[n]
  BY <1>1
<1> QED  BY <1>1, <1>2 DEF new

\* The first task is a record, and it is replaced.
LEMMA OrderlyReplaced ==
    ASSUME NEW list \in Seq(Tasks), list # <<>>, list[1].do = "record",
           NEW stage \in 0..2, Orderly(list, stage), NEW first \in Seq(Tasks), Len(first) = 1,
           first[1].do # "record", NEW next \in 0..2
    PROVE  Orderly(first \o Tail(list), next) /\ stage = 2
<1> DEFINE rest == Tail(list)
           new  == first \o rest
<1>1. /\ rest \in Seq(Tasks) /\ Len(rest) = Len(list) - 1
      /\ \A i \in 1..(Len(list) - 1) : rest[i] = list[i + 1]
      /\ Len(list) \in Nat /\ Len(list) >= 1 /\ DOMAIN list = 1..Len(list)
  OBVIOUS
<1> HIDE DEF rest
<1>0. rest \in Seq(Tasks)
  BY <1>1
<1>2. /\ new \in Seq(Tasks) /\ Len(new) = 1 + Len(rest) /\ new[1] = first[1]
      /\ \A n \in 1..Len(rest) : new[n + 1] = rest[n]
  BY <1>0, OneThenMore
<1> HIDE DEF new
<1>3. DOMAIN new = 1..Len(list) /\ new[1].do # "record"
  BY <1>1, <1>2
<1>4. ASSUME NEW i \in 2..Len(list) PROVE new[i] = list[i]
  <2>1. i - 1 \in 1..Len(rest) /\ (i - 1) + 1 = i
    BY <1>1, <1>4
  <2>2. new[i] = rest[i - 1] /\ rest[i - 1] = list[i]
    BY <1>1, <1>2, <2>1
  <2> QED  BY <2>2
<1>5. stage = 2
  BY <1>1 DEF Orderly
<1>6. ASSUME NEW i \in DOMAIN new, new[i].do = "record"
      PROVE  i >= 3 /\ new[i - 1].do = "flush" /\ new[i - 2].do = "tables"
  <2>1. i \in 2..Len(list) /\ i # 1
    BY <1>1, <1>3, <1>6
  <2>2. list[i].do = "record" /\ i \in DOMAIN list
    BY <1>1, <1>4, <1>6, <2>1
  <2>3. i >= 3 /\ list[i - 1].do = "flush" /\ list[i - 2].do = "tables"
    BY <1>1, <2>1, <2>2 DEF Orderly
  <2>4. i # 3
    BY <2>3
  <2>5. i - 1 \in 2..Len(list) /\ i - 2 \in 2..Len(list)
    BY <1>1, <2>1, <2>3, <2>4
  <2> QED  BY <1>4, <2>3, <2>5
<1> QED  BY <1>5, <1>6 DEF Orderly, new, rest

Records(list) == {i \in DOMAIN list : list[i].do = "record"}

CloseInv == pc \in Looping =>
    /\ RowsKept
    /\ Orderly(agenda, Stage)
    /\ pc \in {"ending", "completed"} => Avoids(agenda, "monitors")
    /\ pc = "ending" => Closed \/ Records(agenda) # {}
    /\ pc = "completed" => Closed /\ run \in completed

LEMMA StageIsStage == Stage \in 0..2 /\ (Stage = 2 <=> Closed) /\ (Stage >= 1 <=> Settled)
BY DEF Stage, Closed

LEMMA HasMoreRows ==
    ASSUME NEW tables, NEW some, NEW more, some \subseteq more, NEW label,
           HasRows(tables, some, label)
    PROVE  HasRows(tables, more, label)
BY DEF HasRows

\* The rows after a step, in terms of what the step leaves.
LEMMA RowsAfter ==
    ASSUME UNCHANGED plan
    PROVE  /\ RowsKept' <=> (rows'.written # Never
                => HasRows(Elements(plan.tables), Objects(file'), rows'.written))
           /\ Closed' <=> (rows'.written = rows'.recorded /\ (rows'.recorded # Never
                => HasRows(Elements(plan.tables), Durable(file'), rows'.recorded)))
           /\ Settled' <=> rows'.written = rows'.recorded
<1>1. RowsKept' <=> (rows'.written # Never
                => HasRows(Elements(plan.tables), Objects(file'), rows'.written))
  BY DEF RowsKept, HasRows, Elements, Objects, Never
<1>2. Closed' <=> (rows'.written = rows'.recorded /\ (rows'.recorded # Never
                => HasRows(Elements(plan.tables), Durable(file'), rows'.recorded)))
  BY DEF Closed, Settled, HasRows, Elements, Durable, Never
<1>3. Settled' <=> rows'.written = rows'.recorded
  BY DEF Settled
<1> QED  BY <1>1, <1>2, <1>3

LEMMA StageAfter == Stage' = IF Closed' THEN 2 ELSE IF Settled' THEN 1 ELSE 0
BY DEF Stage

\* A step that neither records nor writes rows.
LEMMA StageKept ==
    ASSUME UNCHANGED <<plan, rows>>, RowsKept,
           Objects(file) \subseteq Objects(file'), Durable(file) \subseteq Durable(file')
    PROVE  /\ RowsKept'
           /\ Closed => Closed'
           /\ Stage' \in 0..2 /\ Stage' >= Stage
<1>1. RowsKept'
  BY HasMoreRows, RowsAfter DEF RowsKept
<1>2. Closed => Closed'
  BY HasMoreRows, RowsAfter DEF Closed, Settled
<1>3. Settled => Settled'
  BY RowsAfter DEF Settled
<1>4. Stage' \in 0..2 /\ Stage' >= Stage
  BY <1>2, <1>3, StageAfter DEF Stage
<1> QED  BY <1>1, <1>2, <1>4

LEMMA PutKeeps ==
    ASSUME NEW new, Put(new), plan' = plan
    PROVE  file' = new
BY PutFile DEF file

LEMMA WriteKeeps ==
    ASSUME ControlInv, DiskInv, pc \in Open, plan' = plan, NEW objects, IsList(objects),
           \A o \in Elements(objects) : o.from \in Tags(run), Put(written(file, objects))
    PROVE  Objects(file) \subseteq Objects(file') /\ Durable(file) \subseteq Durable(file')
<1>1. file' = written(file, objects)
  BY PutKeeps
<1>2. Grown(file, written(file, objects)) /\ Objects(file) \subseteq Objects(written(file, objects))
  BY FileOpen, WrittenGrows
<1> QED  BY <1>1, <1>2 DEF Grown

\* The first thing to do is done.
LEMMA AgendaGoesOn ==
    ASSUME CloseInv, WorkInv, pc \in Looping, pc' = pc, run' = run, completed' = completed,
           agenda # <<>>, agenda' = Tail(agenda), Head(agenda).do # "record",
           RowsKept', Stage' \in 0..2,
           Head(agenda).do = "tables" => Stage' >= 1,
           Head(agenda).do = "flush" /\ Stage >= 1 => Stage' = 2,
           pc \in {"ending", "completed"} => (Closed => Closed')
    PROVE  CloseInv'
<1> DEFINE rest == Tail(agenda)
<1>1. agenda \in Seq(Tasks) /\ agenda[1] = Head(agenda)
  BY DEF WorkInv
<1>2. Orderly(rest, Stage')
  BY <1>1, StageIsStage, OrderlyGoesOn DEF CloseInv
<1>3. /\ DOMAIN rest = 1..(Len(agenda) - 1) /\ DOMAIN agenda = 1..Len(agenda) /\ Len(agenda) \in Nat
      /\ \A i \in 1..(Len(agenda) - 1) : rest[i] = agenda[i + 1]
  BY <1>1
<1>4. Avoids(agenda, "monitors") => Avoids(rest, "monitors")
  <2> HIDE DEF rest
  <2>1. \A i \in 1..(Len(agenda) - 1) : i + 1 \in 1..Len(agenda)
    BY <1>3
  <2> QED  BY <1>3, <2>1 DEF Avoids
<1>5. Records(agenda) # {} => Records(rest) # {}
  <2> HIDE DEF rest
  <2> SUFFICES ASSUME NEW i \in Records(agenda) PROVE Records(rest) # {}
    OBVIOUS
  <2>1. i \in 1..Len(agenda) /\ agenda[i].do = "record" /\ i # 1
    BY <1>1, <1>3 DEF Records
  <2>2. i - 1 \in 1..(Len(agenda) - 1) /\ (i - 1) + 1 = i
    BY <1>3, <2>1
  <2>3. rest[i - 1] = agenda[i]
    BY <1>3, <2>2
  <2>4. i - 1 \in Records(rest)
    BY <1>3, <2>1, <2>2, <2>3 DEF Records
  <2> QED  BY <2>4
<1> HIDE DEF rest
<1>6. agenda' = rest
  BY DEF rest
<1>7. Orderly(agenda, Stage)' <=> Orderly(rest, Stage')
  BY <1>6 DEF Orderly
<1>8. Avoids(agenda, "monitors")' <=> Avoids(rest, "monitors")
  BY <1>6 DEF Avoids
<1>9. Records(agenda)' = Records(rest)
  BY <1>6 DEF Records
<1> QED  BY <1>2, <1>4, <1>5, <1>7, <1>8, <1>9 DEF CloseInv

LEMMA CloseOver ==
    ASSUME pc' \notin Looping PROVE CloseInv'
BY DEF CloseInv

LEMMA DoneGoesOn ==
    ASSUME CloseInv, WorkInv, pc \in Looping,
           UNCHANGED <<pc, plan, run, rows, completed>>, agenda # <<>>, Done,
           Head(agenda).do \notin {"tables", "flush", "record"},
           Objects(file) \subseteq Objects(file'), Durable(file) \subseteq Durable(file')
    PROVE  CloseInv'
<1>1. RowsKept
  BY DEF CloseInv
<1>2. /\ RowsKept' /\ (Closed => Closed') /\ Stage' \in 0..2
  BY <1>1, StageKept
<1>3. agenda' = Tail(agenda)
  BY DEF Done
<1> QED  BY <1>2, <1>3, AgendaGoesOn

LEMMA SameFile ==
    ASSUME UNCHANGED <<files, plan>> PROVE file' = file
BY DEF file

LEMMA BeginClose ==
    ASSUME ControlInv, DiskInv, Begin, pc' \in Looping PROVE CloseInv'
<1>1. /\ pc' = "running" /\ UNCHANGED <<files, plan, rows>>
      /\ \A n \in DOMAIN agenda' : agenda'[n].do # "record"
  BY BeginEffect
<1>2. rows = [recorded |-> Never, written |-> Never]
  BY DEF Begin, ControlInv, NotStarted, Looping
<1>3. RowsKept'
  BY <1>1, <1>2, RowsAfter
<1> DEFINE new == agenda'
<1>4. \A stage : Orderly(new, stage)
  BY <1>1 DEF Orderly
<1> HIDE DEF new
<1>5. Orderly(agenda, Stage)' <=> Orderly(new, Stage')
  BY DEF Orderly, new
<1>6. Orderly(agenda, Stage)'
  BY <1>4, <1>5
<1> QED  BY <1>1, <1>3, <1>6 DEF CloseInv

LEMMA StepClose ==
    ASSUME ControlInv, WorkInv, CloseInv, Step PROVE CloseInv'
<1>1. pc = "running" /\ pc' = pc /\ UNCHANGED <<plan, rows, files>> /\ pc \in Looping
  BY DEF Step, disk, Looping
<1>2. file' = file
  BY <1>1, SameFile
<1>3. RowsKept
  BY <1>1 DEF CloseInv
<1>4. RowsKept' /\ Stage' \in 0..2
  BY <1>1, <1>2, <1>3, StageKept
<1>5. PICK solved, outputs, saves \in Seq(Tasks) :
         /\ \A n \in DOMAIN solved : solved[n].do \in {"surface", "groundwater", "monitors"}
         /\ \A n \in DOMAIN outputs : outputs[n].do = "outputs"
         /\ \A n \in DOMAIN saves : saves[n].do \in {"checkpoint", "flush"}
         /\ saves = SavesDue
         /\ \/ agenda' = solved \o saves
            \/ agenda' = solved \o (outputs \o flushing) \o saves
  BY StepAgenda, Zenon
<1>6. Orderly(solved, 0) /\ Orderly(outputs, 0) /\ Orderly(saves, 0)
  BY <1>5 DEF Orderly
<1> DEFINE new == agenda'
<1>7. Orderly(new, 0)
  <2>1. outputs \o flushing \in Seq(Tasks) /\ Orderly(outputs \o flushing, 0)
    BY <1>6, Joined, FlushingIsListed, FlushingIsOrderly, OrderlyTogether
  <2>2. solved \o (outputs \o flushing) \in Seq(Tasks) /\ Orderly(solved \o (outputs \o flushing), 0)
    BY <1>6, <2>1, Joined, OrderlyTogether
  <2>3. Orderly(solved \o (outputs \o flushing) \o saves, 0)
    BY <1>6, <2>2, OrderlyTogether
  <2>4. Orderly(solved \o saves, 0)
    BY <1>6, OrderlyTogether
  <2> QED  BY <1>5, <2>3, <2>4
<1> HIDE DEF new
<1>8. Orderly(agenda, Stage)' <=> Orderly(new, Stage')
  BY DEF Orderly, new
<1>9. Orderly(agenda, Stage)'
  BY <1>7, <1>8, OrderlyAtAnyStage
<1> QED  BY <1>1, <1>4, <1>9 DEF CloseInv

LEMMA EndClose ==
    ASSUME ControlInv, WorkInv, CloseInv, EndLoop PROVE CloseInv'
<1>1. pc = "running" /\ pc' = "ending" /\ UNCHANGED <<plan, rows, files>> /\ pc \in Looping
  BY DEF EndLoop, disk, Looping
<1>2. file' = file
  BY <1>1, SameFile
<1>3. RowsKept
  BY <1>1 DEF CloseInv
<1>4. RowsKept' /\ Stage' \in 0..2
  BY <1>1, <1>2, <1>3, StageKept
<1>5. PICK saves \in Seq(Tasks) :
         /\ \A n \in DOMAIN saves : saves[n].do \in {"checkpoint", "flush"}
         /\ agenda' = saves \o flushing
  BY EndAgenda
<1>6. Orderly(saves, 0) /\ Avoids(saves, "monitors")
  BY <1>5 DEF Orderly, Avoids
<1> DEFINE new == agenda'
<1>7. Orderly(new, 0) /\ Avoids(new, "monitors")
  <2>1. Orderly(saves \o flushing, 0)
    BY <1>6, FlushingIsListed, FlushingIsOrderly, OrderlyTogether
  <2>2. Avoids(saves \o flushing, "monitors")
    BY <1>6, FlushingIsListed, FlushingIsOrderly, AvoidsTogether
  <2> QED  BY <1>5, <2>1, <2>2
<1>8. Records(new) # {}
  <2>1. new = saves \o flushing
    BY <1>5
  <2> HIDE DEF new
  <2>2. /\ new \in Seq(Tasks) /\ Len(new) = Len(saves) + Len(flushing)
        /\ \A n \in 1..Len(flushing) : new[n + Len(saves)] = flushing[n]
    BY <2>1, FlushingIsListed, Joined
  <2>3. Len(saves) \in Nat
    OBVIOUS
  <2>4. 3 + Len(saves) \in 1..Len(new) /\ new[3 + Len(saves)].do = "record"
    BY <2>2, <2>3, FlushingIsOrderly
  <2>5. 3 + Len(saves) \in Records(new)
    BY <2>2, <2>4 DEF Records
  <2> QED  BY <2>5
<1> HIDE DEF new
<1>9. /\ Orderly(agenda, Stage)' <=> Orderly(new, Stage')
      /\ Avoids(agenda, "monitors")' <=> Avoids(new, "monitors")
      /\ Records(agenda)' = Records(new)
  BY DEF Orderly, Avoids, Records, new
<1>10. Orderly(agenda, Stage)'
  BY <1>7, <1>9, OrderlyAtAnyStage
<1> QED  BY <1>1, <1>4, <1>7, <1>8, <1>9, <1>10 DEF CloseInv

LEMMA WriteClose ==
    ASSUME ControlInv, WorkInv, DiskInv, CloseInv, WriteOutputs \/ WriteCheckpoint
    PROVE  CloseInv'
<1>1. /\ pc \in Looping /\ agenda # <<>> /\ UNCHANGED <<run, completed>>
      /\ Head(agenda).do \in {"outputs", "checkpoint"}
  BY DEF WriteOutputs, WriteCheckpoint, Doing, Looping
<1>2. PICK objects, label, last :
         /\ Write(objects, label, last)
         /\ IsList(objects) /\ \A o \in Elements(objects) : o.from \in Tags(run)
  <2>1. CASE WriteOutputs
    <3> DEFINE objects(label) == [n \in DOMAIN plan.variables |->
                  object(plan.variables[n][1], label, plan.variables[n][2], from)]
    <3>1. Write(objects(Head(agenda).label), Head(agenda).label, saved)
      BY <2>1 DEF WriteOutputs
    <3>2. IsList(objects(Head(agenda).label))
          /\ \A o \in Elements(objects(Head(agenda).label)) : o.from \in Tags(run)
      BY <1>1, OutputsAreTagged
    <3> HIDE DEF objects
    <3> QED  BY <3>1, <3>2
  <2>2. CASE WriteCheckpoint
    <3> DEFINE label  == Head(agenda).label
               header == IF surfaceLoop THEN label ELSE clock
               headed == [part \in DOMAIN state |-> [state[part] EXCEPT !.t = header]]
               objects == checkpointOf(mods, headed, label)
    <3>1. Write(objects, label, header)
      BY <2>2 DEF WriteCheckpoint
    <3>2. header \in Nat
      <4>1. label \in Nat /\ clock \in Nat
        BY <1>1, TailOfAgenda DEF Tasks, WorkInv
      <4> QED  BY <4>1
    <3> HIDE DEF label, header
    <3>3. IsList(objects) /\ \A o \in Elements(objects) : o.from \in Tags(run)
      BY <1>1, <3>2, CheckpointIsTagged
    <3> HIDE DEF objects
    <3> QED  BY <3>1, <3>3
  <2> QED  BY <2>1, <2>2
<1>3. \/ Put(written(file, objects)) /\ Done /\ UNCHANGED <<pc, failure, plan, clock, start, state, rows, solvers>>
      \/ \E why, left : Fatal(why, left)
  BY <1>2, Zenon DEF Write
<1>4. CASE Put(written(file, objects)) /\ Done
             /\ UNCHANGED <<pc, failure, plan, clock, start, state, rows, solvers>>
  <2>1. Objects(file) \subseteq Objects(file') /\ Durable(file) \subseteq Durable(file')
    BY <1>1, <1>2, <1>4, WriteKeeps DEF Open
  <2> QED  BY <1>1, <1>4, <2>1, DoneGoesOn
<1>5. CASE \E why, left : Fatal(why, left)
  BY <1>5, CloseOver DEF Fatal, Ended, Looping
<1> QED  BY <1>3, <1>4, <1>5

LEMMA MonitorsClose ==
    ASSUME ControlInv, WorkInv, DiskInv, CloseInv, RecordMonitors PROVE CloseInv'
<1>1. /\ pc \in Looping /\ agenda # <<>> /\ UNCHANGED <<run, completed>>
      /\ Head(agenda).do = "monitors"
      /\ plan.monitoring \in {"recorded", "unavailable", "unallocated"}
  BY DEF RecordMonitors, Doing, Looping, ControlInv, PlanSound, Planned, Open
<1>2. CASE plan.monitoring = "recorded"
  <2>1. /\ agenda' = Tail(agenda) /\ UNCHANGED <<pc, plan, files>>
        /\ rows' = [rows EXCEPT !.recorded = clock]
    BY <1>2 DEF RecordMonitors, Done
  <2>2. pc \notin {"ending", "completed"}
    <3>1. agenda[1].do = "monitors" /\ 1 \in DOMAIN agenda
      BY <1>1 DEF WorkInv
    <3> QED  BY <1>1, <3>1 DEF CloseInv, Avoids
  <2>3. rows'.written = rows.written /\ file' = file
    BY <1>1, <2>1, SameFile DEF WorkInv
  <2>4. RowsKept'
    BY <1>1, <2>1, <2>3, RowsAfter DEF CloseInv, RowsKept
  <2>5. Stage' \in 0..2
    BY StageAfter
  <2> QED  BY <1>1, <2>1, <2>2, <2>4, <2>5, AgendaGoesOn
<1>3. CASE plan.monitoring = "unavailable"
  BY <1>3, CloseOver DEF RecordMonitors, Fatal, Ended, Looping
<1>4. CASE plan.monitoring = "unallocated"
  BY <1>4, CloseOver DEF RecordMonitors, Killed, Ended, Looping
<1> QED  BY <1>1, <1>2, <1>3, <1>4

LEMMA TablesClose ==
    ASSUME ControlInv, WorkInv, DiskInv, CloseInv, FlushTables PROVE CloseInv'
<1>1. /\ pc \in Looping /\ agenda # <<>> /\ UNCHANGED <<pc, plan, run, completed>>
      /\ Head(agenda).do = "tables" /\ agenda' = Tail(agenda)
      /\ Put(written(file, NewRows))
      /\ rows' = [rows EXCEPT !.written = rows.recorded]
  BY DEF FlushTables, Doing, Done, Looping, NewRows
<1>2. /\ rows = [recorded |-> rows.recorded, written |-> rows.written]
      /\ rows.recorded \in Int /\ rows.written \in Int /\ rows.written <= rows.recorded
  BY <1>1 DEF WorkInv
<1>3. rows' = [recorded |-> rows.recorded, written |-> rows.recorded]
  BY <1>1, <1>2
<1>4. rows'.recorded = rows.recorded /\ rows'.written = rows.recorded
  BY <1>3
<1>5. FileSound(file) /\ file.owner = run
  BY <1>1, FileOpen DEF Open
<1>6. /\ IsList(NewRows) /\ \A o \in Elements(NewRows) : o.from \in Tags(run) /\ o.group = "rows"
  BY <1>1, RowsAreTagged
<1>7. /\ Objects(file') = Objects(file) \cup Elements(NewRows)
      /\ Durable(file) \subseteq Durable(file')
  <2>1. file' = written(file, NewRows)
    BY <1>1, PutKeeps
  <2>2. /\ Grown(file, written(file, NewRows))
        /\ Objects(written(file, NewRows)) = Objects(file) \cup Elements(NewRows)
    BY <1>5, <1>6, RowsAreWritten
  <2> QED  BY <2>1, <2>2 DEF Grown
<1>8. RowsKept'
  <2>1. CASE rows.recorded > rows.written
    <3>1. HasRows(Elements(plan.tables), Elements(NewRows), rows.recorded)
      BY <1>1, <2>1, RowsAreTagged DEF HasRows
    <3>2. HasRows(Elements(plan.tables), Objects(file'), rows.recorded)
      BY <1>7, <3>1, HasMoreRows
    <3> QED  BY <1>1, <1>4, <3>2, RowsAfter
  <2>2. CASE ~(rows.recorded > rows.written)
    <3>1. rows.recorded = rows.written
      BY <1>2, <2>2
    <3>2. rows.written # Never => HasRows(Elements(plan.tables), Objects(file'), rows.written)
      BY <1>1, <1>7, HasMoreRows DEF CloseInv, RowsKept
    <3> QED  BY <1>1, <1>4, <3>1, <3>2, RowsAfter
  <2> QED  BY <2>1, <2>2
<1>9. Settled'
  BY <1>1, <1>4, RowsAfter
<1>10. Closed => Closed'
  <2>1. Closed => (rows.recorded # Never
            => HasRows(Elements(plan.tables), Durable(file'), rows.recorded))
    BY <1>7, HasMoreRows DEF Closed
  <2> QED  BY <1>1, <1>4, <2>1, RowsAfter
<1>11. Stage' \in 0..2 /\ Stage' >= 1
  BY <1>9, StageAfter
<1> QED  BY <1>1, <1>8, <1>10, <1>11, AgendaGoesOn

LEMMA FlushClose ==
    ASSUME ControlInv, WorkInv, DiskInv, CloseInv, FlushFile PROVE CloseInv'
<1>1. /\ pc \in Looping /\ agenda # <<>> /\ UNCHANGED <<pc, plan, run, completed, rows>>
      /\ Head(agenda).do = "flush" /\ agenda' = Tail(agenda)
      /\ Put(flushed(file))
  BY DEF FlushFile, Doing, Done, Looping
<1>2. FileSound(file)
  BY <1>1, FileOpen DEF Open
<1>3. file' = flushed(file)
  BY <1>1, PutKeeps
<1>4. /\ Durable(file') = Objects(file) /\ Objects(file') = Objects(file)
      /\ Durable(file) \subseteq Durable(file')
  BY <1>2, <1>3, FlushedGrows DEF Grown, Objects
<1>5. RowsKept
  BY <1>1 DEF CloseInv
<1>6. RowsKept' /\ (Closed => Closed') /\ Stage' \in 0..2
  BY <1>1, <1>4, <1>5, StageKept
<1>7. Settled => Closed'
  BY <1>1, <1>4, <1>5, RowsAfter DEF Settled, RowsKept
<1>8. Stage >= 1 => Stage' = 2
  BY <1>7, StageIsStage, StageAfter
<1> QED  BY <1>1, <1>6, <1>8, AgendaGoesOn

LEMMA RecordClose ==
    ASSUME ControlInv, WorkInv, DiskInv, CloseInv, WriteRecord PROVE CloseInv' /\ Closed
<1>1. /\ pc \in Looping /\ agenda # <<>> /\ UNCHANGED <<pc, plan, run, completed, rows, files>>
      /\ Head(agenda).do = "record" /\ agenda' = task("rename", 0) \o Tail(agenda)
  BY DEF WriteRecord, Doing, Looping
<1>2. file' = file
  BY <1>1, SameFile
<1>3. RowsKept' /\ (Closed => Closed') /\ Stage' \in 0..2
  <2>1. RowsKept
    BY <1>1 DEF CloseInv
  <2> QED  BY <1>1, <1>2, <2>1, StageKept
<1> DEFINE renaming == task("rename", 0)
           new == agenda'
<1>4. renaming \in Seq(Tasks) /\ Len(renaming) = 1 /\ renaming[1].do # "record" /\ renaming[1].do = "rename"
  <2>1. "rename" \in Doings /\ 0 \in Nat
    BY DEF Doings
  <2>2. renaming \in Seq(Tasks) /\ DOMAIN renaming = {1} /\ renaming[1].do = "rename"
    BY <2>1, OneTask
  <2> HIDE DEF renaming
  <2> QED  BY <2>2
<1>5. agenda \in Seq(Tasks) /\ agenda[1] = Head(agenda) /\ Tail(agenda) \in Seq(Tasks)
  BY <1>1 DEF WorkInv
<1>6. new = renaming \o Tail(agenda)
  BY <1>1
<1> HIDE DEF renaming, new
<1>7. Orderly(agenda, Stage)
  BY <1>1 DEF CloseInv
<1>8. Orderly(new, Stage') /\ Stage = 2
  BY <1>1, <1>3, <1>4, <1>5, <1>6, <1>7, StageIsStage, OrderlyReplaced
<1>9. Closed /\ Closed'
  BY <1>3, <1>8, StageIsStage
<1>10. Avoids(agenda, "monitors") => Avoids(new, "monitors")
  <2>1. Avoids(renaming, "monitors")
    BY <1>4 DEF Avoids
  <2>2. Avoids(agenda, "monitors") => Avoids(Tail(agenda), "monitors")
    <3>1. /\ DOMAIN Tail(agenda) = 1..(Len(agenda) - 1) /\ DOMAIN agenda = 1..Len(agenda)
          /\ Len(agenda) \in Nat
          /\ \A i \in 1..(Len(agenda) - 1) : Tail(agenda)[i] = agenda[i + 1]
      BY <1>1, <1>5
    <3>2. \A i \in 1..(Len(agenda) - 1) : i + 1 \in 1..Len(agenda)
      BY <3>1
    <3> QED  BY <3>1, <3>2 DEF Avoids
  <2> QED  BY <1>4, <1>5, <1>6, <2>1, <2>2, AvoidsTogether
<1>11. /\ Orderly(agenda, Stage)' <=> Orderly(new, Stage')
       /\ Avoids(agenda, "monitors")' <=> Avoids(new, "monitors")
  BY DEF Orderly, Avoids, new
<1> QED  BY <1>1, <1>3, <1>8, <1>9, <1>10, <1>11 DEF CloseInv

LEMMA FinalClose ==
    ASSUME ControlInv, WorkInv, DiskInv, CloseInv, Finalize PROVE CloseInv'
<1>1. /\ pc = "ending" /\ pc' = "completed" /\ UNCHANGED <<plan, run, rows, files>>
      /\ agenda = <<>> /\ agenda' = task("record", 0) /\ pc \in Looping
      /\ completed' = completed \cup {run}
  BY DEF Finalize, disk, Looping
<1>2. file' = file
  BY <1>1, SameFile
<1>3. Records(agenda) = {}
  BY <1>1 DEF Records
<1>4. Closed
  BY <1>1, <1>3 DEF CloseInv
<1>5. RowsKept' /\ Closed' /\ Stage' = 2
  <2>1. RowsKept
    BY <1>1 DEF CloseInv
  <2>2. RowsKept' /\ Closed'
    BY <1>1, <1>2, <1>4, <2>1, StageKept
  <2> QED  BY <2>2, StageAfter
<1> DEFINE new == agenda'
<1>6. DOMAIN new = {1} /\ new[1].do = "record"
  <2>1. "record" \in Doings /\ 0 \in Nat
    BY DEF Doings
  <2> QED  BY <1>1, <2>1, OneTask
<1> HIDE DEF new
<1>7. Orderly(new, Stage') /\ Avoids(new, "monitors")
  BY <1>5, <1>6 DEF Orderly, Avoids
<1>8. /\ Orderly(agenda, Stage)' <=> Orderly(new, Stage')
      /\ Avoids(agenda, "monitors")' <=> Avoids(new, "monitors")
  BY DEF Orderly, Avoids, new
<1> QED  BY <1>1, <1>5, <1>7, <1>8 DEF CloseInv

LEMMA CloseInit ==
    ASSUME Init PROVE CloseInv
BY DEF Init, CloseInv, Looping

LEMMA CloseStep ==
    ASSUME ControlInv, WorkInv, DiskInv, CloseInv, [Next]_vars PROVE CloseInv'
<1>1. CASE Read \/ Report \/ Build \/ CreateOutput \/ Rerun
  <2>1. pc' \in {"rejected", "failed", "loaded", "reported", "built", "opened", "reading"}
    BY <1>1, Zenon DEF Read, Report, Build, CreateOutput, Rerun, Fatal, Ended
  <2>2. pc' \notin Looping
    BY <2>1 DEF Looping
  <2> QED  BY <2>2, CloseOver
<1>2. CASE Begin
  BY <1>2, BeginClose, CloseOver
<1>3. CASE Step
  BY <1>3, StepClose
<1>4. CASE EndLoop
  BY <1>4, EndClose
<1>5. ASSUME NEW name \in Names, Solve(name) PROVE CloseInv'
  <2>1. /\ pc \in Looping /\ agenda # <<>> /\ UNCHANGED <<run, completed>>
        /\ Head(agenda).do = name
    BY <1>5 DEF Solve, Doing, Looping
  <2>2. \E new : IF new.outcome = "solved"
                    THEN /\ solvers' = [solvers EXCEPT ![name] = new]
                         /\ Done
                         /\ UNCHANGED <<pc, failure, plan, files, clock, start, saved, state, rows>>
                    ELSE Fatal(new.outcome, file)
    BY <1>5 DEF Solve
  <2>3. \/ Done /\ UNCHANGED <<pc, plan, files, rows>>
        \/ pc' = "failed"
    BY <2>2 DEF Fatal, Ended
  <2>4. CASE Done /\ UNCHANGED <<pc, plan, files, rows>>
    <3>1. file' = file
      BY <2>4, SameFile
    <3>2. Head(agenda).do \notin {"tables", "flush", "record"}
      BY <2>1 DEF Names
    <3> QED  BY <2>1, <2>4, <3>1, <3>2, DoneGoesOn
  <2>5. CASE pc' = "failed"
    BY <2>5, CloseOver DEF Looping
  <2> QED  BY <2>3, <2>4, <2>5
<1>6. CASE RecordMonitors
  BY <1>6, MonitorsClose
<1>7. CASE WriteOutputs \/ WriteCheckpoint
  BY <1>7, WriteClose
<1>8. CASE FlushTables
  BY <1>8, TablesClose
<1>9. CASE FlushFile
  BY <1>9, FlushClose
<1>10. CASE WriteRecord
  BY <1>10, RecordClose
<1>11. CASE RenameRecord
  <2>1. /\ pc \in Looping /\ agenda # <<>> /\ Head(agenda).do = "rename" /\ Done
        /\ UNCHANGED <<pc, plan, run, rows, completed, files>>
    BY <1>11 DEF RenameRecord, Doing, Looping
  <2>2. file' = file
    BY <2>1, SameFile
  <2> QED  BY <2>1, <2>2, DoneGoesOn
<1>12. CASE Finalize
  BY <1>12, FinalClose
<1>13. CASE Exit \/ Kill
  <2>1. \E where \in {"done", "killed"} : Ended(where, "none")
    BY <1>13, Zenon DEF Exit, Kill, Killed
  <2> QED  BY <2>1, CloseOver DEF Ended, Looping
<1>14. CASE UNCHANGED vars
  <2>1. UNCHANGED <<pc, plan, run, rows, completed, files, agenda>>
    BY <1>14 DEF vars
  <2>2. CASE pc \in Looping
    <3>1. file' = file
      BY <2>1, SameFile
    <3>2. RowsKept' /\ (Closed => Closed')
      BY <2>1, <2>2, <3>1, StageKept DEF CloseInv
    <3>3. (Settled' <=> Settled) /\ (Closed' <=> Closed)
      BY <2>1, <3>1, RowsAfter DEF Settled, Closed
    <3>4. Stage' = Stage
      BY <3>3, StageAfter DEF Stage
    <3>5. /\ Orderly(agenda, Stage)' <=> Orderly(agenda, Stage)
          /\ Avoids(agenda, "monitors")' <=> Avoids(agenda, "monitors")
          /\ Records(agenda)' = Records(agenda)
      BY <2>1, <3>4 DEF Orderly, Avoids, Records
    <3> QED  BY <2>1, <2>2, <3>2, <3>5 DEF CloseInv
  <2>3. CASE pc \notin Looping
    BY <2>1, <2>3, CloseOver
  <2> QED  BY <2>2, <2>3
<1> QED
  BY <1>1, <1>2, <1>3, <1>4, <1>5, <1>6, <1>7, <1>8, <1>9, <1>10, <1>11, <1>12, <1>13, <1>14, Zenon
  DEF Next, Names

\* A run record whose rows are durable in every file of its run.  newest is
\* the last run that can have written one, done the runs that reached their
\* end.
Backed(c, fs, newest, done) ==
    /\ c.run \in 0..newest
    /\ c.finished => c.run \in done
    /\ \A name \in DOMAIN fs : \A table \in c.closes :
          fs[name].owner = c.run /\ c.upTo # Never =>
              \E row \in Durable(fs[name]) :
                  row.group = "rows" /\ row.part = table /\ row.label = c.upTo

latest == IF pc \in Early THEN run - 1 ELSE run

ContentInv ==
    /\ record # Missing => Backed(record, files, latest, completed)
    /\ tmp # Missing => Backed(tmp, files, latest, completed)

\* Files either keep what is durable in them or are of a later run.
FilesKept ==
    \A name \in DOMAIN files' :
        \/ /\ name \in DOMAIN files
           /\ files'[name].owner = files[name].owner
           /\ Durable(files[name]) \subseteq Durable(files'[name])
        \/ files'[name].owner \notin 0..latest

LEMMA BackedKept ==
    ASSUME NEW c, Backed(c, files, latest, completed), FilesKept,
           latest \in Int, latest' \in Int, latest' >= latest, completed \subseteq completed'
    PROVE  Backed(c, files', latest', completed')
<1>1. c.run \in 0..latest
  BY DEF Backed
<1>2. c.run \in 0..latest'
  BY <1>1
<1>3. c.finished => c.run \in completed'
  BY DEF Backed
<1>4. ASSUME NEW name \in DOMAIN files', NEW table \in c.closes,
             files'[name].owner = c.run, c.upTo # Never
      PROVE  \E row \in Durable(files'[name]) :
                row.group = "rows" /\ row.part = table /\ row.label = c.upTo
  <2>1. /\ name \in DOMAIN files
        /\ files'[name].owner = files[name].owner
        /\ Durable(files[name]) \subseteq Durable(files'[name])
    BY <1>1, <1>4 DEF FilesKept
  <2>2. \E row \in Durable(files[name]) :
           row.group = "rows" /\ row.part = table /\ row.label = c.upTo
    BY <1>4, <2>1 DEF Backed
  <2> QED  BY <2>1, <2>2
<1> QED  BY <1>2, <1>3, <1>4 DEF Backed

LEMMA SameFilesKept ==
    ASSUME UNCHANGED files PROVE FilesKept
BY DEF FilesKept

LEMMA FilesStep ==
    ASSUME ControlInv, WorkInv, DiskInv, [Next]_vars
    PROVE  FilesKept
<1>1. CASE pc \in Open
  <2>1. FileEffect
    BY <1>1, WorkFiles
  <2>2. CASE files' = files
    BY <2>2, SameFilesKept
  <2>3. CASE \E new : Put(new) /\ Grown(file, new)
    <3>1. PICK new : Put(new) /\ Grown(file, new)
      BY <2>3
    <3>2. plan.filename \in OnDisk /\ new.owner = files[plan.filename].owner
          /\ Durable(files[plan.filename]) \subseteq Durable(new)
      BY <1>1, <3>1, FileOpen DEF Grown, file
    <3> QED  BY <3>1, <3>2, PutFile DEF FilesKept, OnDisk
  <2> QED  BY <2>1, <2>2, <2>3 DEF FileEffect
<1>2. CASE CreateOutput
  <2>1. PICK left : Put(left) /\ FileSound(left) /\ left.owner = run
    BY <1>2, CreateOutputEffect
  <2>2. latest = run - 1 /\ run \in Nat
    BY <1>2 DEF CreateOutput, latest, Early, ControlInv
  <2>3. left.owner \notin 0..latest
    BY <2>1, <2>2
  <2> QED  BY <2>1, <2>3, PutFile DEF FilesKept, OnDisk
<1>3. CASE Read \/ Report \/ Build \/ Rerun \/ UNCHANGED vars
  <2>1. files' = files
    BY <1>3, Zenon DEF Read, Report, Build, Rerun, disk, vars
  <2> QED  BY <2>1, SameFilesKept
<1>4. CASE pc \notin Open /\ ~(Read \/ Report \/ Build \/ CreateOutput \/ Rerun) /\ Next
  BY <1>4 DEF Next, Begin, Step, EndLoop, Solve, RecordMonitors, WriteOutputs, WriteCheckpoint,
       FlushTables, FlushFile, WriteRecord, RenameRecord, Finalize, Exit, Kill, Doing, Open, Looping
<1> QED  BY <1>1, <1>2, <1>3, <1>4

\* Runs are numbered up, and those that reached their end stay so.
LEMMA LatestStep ==
    ASSUME ControlInv, WorkInv, DiskInv, [Next]_vars
    PROVE  latest \in Int /\ latest' \in Int /\ latest' >= latest
<1> USE DEF Early, latest
<1>1. run \in Nat
  BY DEF ControlInv
<1>2. CASE pc \in Open
  <2>1. run' = run /\ pc' \in Open \cup Over
    BY <1>2, WorkFiles
  <2>2. pc' \notin Early
    BY <2>1 DEF Open, Looping, Over
  <2> QED  BY <1>1, <2>1, <2>2
<1>3. CASE Read \/ Report \/ Build \/ CreateOutput
  <2>1. run' = run /\ pc \in Early
    BY <1>3, Zenon DEF Read, Report, Build, CreateOutput
  <2> QED  BY <1>1, <2>1
<1>4. CASE Rerun
  BY <1>1, <1>4 DEF Rerun
<1>5. CASE UNCHANGED vars
  BY <1>1, <1>5 DEF vars
<1>6. CASE pc \notin Open /\ ~(Read \/ Report \/ Build \/ CreateOutput \/ Rerun) /\ Next
  BY <1>6 DEF Next, Begin, Step, EndLoop, Solve, RecordMonitors, WriteOutputs, WriteCheckpoint,
       FlushTables, FlushFile, WriteRecord, RenameRecord, Finalize, Exit, Kill, Doing, Open, Looping
<1> QED  BY <1>2, <1>3, <1>4, <1>5, <1>6

\* What a run writes of itself is backed by its file.
LEMMA ContentIsBacked ==
    ASSUME ControlInv, WorkInv, DiskInv, CloseInv, WriteRecord
    PROVE  Backed(content, files, run, completed)
<1>1. pc \in Looping /\ pc \in Open /\ run \in Nat /\ Closed
  BY RecordClose DEF WriteRecord, Doing, Looping, Open, ControlInv
<1> DEFINE c == content
<1>2. /\ c.run = run /\ c.finished = (pc = "completed") /\ c.upTo = rows.recorded
      /\ c.closes \subseteq Elements(audits(mods))
  BY DEF content, provenance, Elements
<1> HIDE DEF c
<1>3. c.closes \subseteq Elements(plan.tables)
  BY <1>1, <1>2 DEF ControlInv, PlanSound, Planned, mods
<1>4. c.finished => c.run \in completed
  BY <1>1, <1>2 DEF CloseInv
<1>5. ASSUME NEW name \in DOMAIN files, NEW table \in c.closes,
             files[name].owner = c.run, c.upTo # Never
      PROVE  \E row \in Durable(files[name]) :
                row.group = "rows" /\ row.part = table /\ row.label = c.upTo
  <2>1. name = plan.filename
    <3>1. files[name].owner \in Nat
      BY <1>5 DEF DiskInv, OnDisk, FileSound
    <3> QED  BY <1>1, <1>2, <1>5, <3>1 DEF DiskInv, OnDisk
  <2>2. HasRows(Elements(plan.tables), Durable(file), rows.recorded)
    BY <1>1, <1>2, <1>5 DEF Closed
  <2> QED  BY <1>2, <1>3, <2>1, <2>2 DEF HasRows, file
<1>6. c.run \in 0..run
  BY <1>1, <1>2
<1> QED  BY <1>4, <1>5, <1>6 DEF Backed, c

LEMMA ContentInit ==
    ASSUME Init PROVE ContentInv
BY DEF Init, ContentInv

LEMMA ContentStep ==
    ASSUME ControlInv, WorkInv, DiskInv, CloseInv, ContentInv, [Next]_vars PROVE ContentInv'
<1>1. FilesKept /\ latest \in Int /\ latest' \in Int /\ latest' >= latest
  BY FilesStep, LatestStep
<1>2. completed \subseteq completed'
  <2>1. CASE Finalize
    BY <2>1 DEF Finalize
  <2>2. CASE ~Finalize
    <3>1. completed' = completed
      BY <2>2, ZenonT(60) DEF Next, vars, Read, Report, Build, CreateOutput, Begin, Step, EndLoop, Solve,
           RecordMonitors, WriteOutputs, WriteCheckpoint, FlushTables, FlushFile, WriteRecord,
           RenameRecord, Exit, Kill, Rerun
    <3> QED  BY <3>1
  <2> QED  BY <2>1, <2>2
<1>3. \A c : Backed(c, files, latest, completed) => Backed(c, files', latest', completed')
  BY <1>1, <1>2, BackedKept
<1>4. CASE UNCHANGED <<record, tmp>>
  BY <1>3, <1>4 DEF ContentInv
<1>5. CASE WriteRecord
  <2>1. UNCHANGED record /\ tmp' = content /\ pc \in Looping
    BY <1>5 DEF WriteRecord, Doing, Looping
  <2>2. latest = run
    BY <2>1 DEF latest, Early, Looping
  <2>3. Backed(content, files, latest, completed)
    BY <1>5, <2>2, ContentIsBacked
  <2>4. Backed(tmp', files', latest', completed')
    BY <1>3, <2>1, <2>3
  <2> QED  BY <1>3, <2>1, <2>4 DEF ContentInv
<1>6. CASE RenameRecord
  <2>1. record' = tmp /\ tmp' = Missing
    BY <1>6 DEF RenameRecord
  <2> QED  BY <1>3, <2>1 DEF ContentInv
<1>7. CASE ~(WriteRecord \/ RenameRecord)
  <2>1. UNCHANGED <<record, tmp>>
    BY <1>7, ZenonT(60) DEF Next, vars, disk, Read, Report, Build, CreateOutput, Begin, Step, EndLoop, Solve,
         RecordMonitors, WriteOutputs, WriteCheckpoint, FlushTables, FlushFile, Finalize, Exit, Kill, Rerun
  <2> QED  BY <1>4, <2>1
<1> QED  BY <1>5, <1>6, <1>7

\* The record on disk is never ahead of its run, whatever files later runs
\* create or leave cut short: it says finished only of a run that reached its
\* end, and the rows its budgets were closed with are durable in that run's
\* output file.
THEOREM RecordIsTruthful == Spec => []RecordTruthful
<1>1. Init => CloseInv /\ ContentInv
  BY CloseInit, ContentInit
<1>2. ControlInv /\ WorkInv /\ DiskInv /\ CloseInv /\ ContentInv /\ [Next]_vars
         => (CloseInv /\ ContentInv)'
  BY CloseStep, ContentStep
<1>3. ContentInv => RecordTruthful
  BY DEF ContentInv, RecordTruthful, Backed, OnDisk
<1> QED  BY <1>1, <1>2, <1>3, WorkHolds, PTL DEF Spec

-----------------------------------------------------------------------------
(***************************************************************************)
(* What an accepted document has.                                          *)
(***************************************************************************)
LEMMA GivenKey ==
    ASSUME NEW node, NEW key, Given(Sub(node, key))
    PROVE  node \notin {Absent, Wrong} /\ key \in DOMAIN node /\ Sub(node, key) = node[key]
BY DEF Given, Sub

\* A node that passed as a map, a list or a word was given.
LEMMA PassedIsGiven ==
    ASSUME NEW node, NEW spec, NEW fs, Passed(node, spec, fs),
           spec.type \in {"map", "sequence"}
    PROVE  Given(node)
BY DEF Passed, MapPassed, ListPassed, Given

LEMMA SectionPassed ==
    ASSUME NEW root, NEW fs, validateRoot(root, fs), NEW key, Given(Sub(root, key))
    PROVE  /\ key \in DOMAIN rootSchema.children
           /\ checkLevel2(Sub(root, key), rootSchema.children[key], fs)
BY GivenKey, RootPassed

LEMMA Below2 ==
    ASSUME NEW node, NEW spec, NEW fs, checkLevel2(node, spec, fs), spec.type = "map",
           NEW key \in DOMAIN spec.children, Given(Sub(node, key))
    PROVE  checkLevel3(Sub(node, key), spec.children[key], fs)
BY GivenKey, Walk2

LEMMA Below3 ==
    ASSUME NEW node, NEW spec, NEW fs, checkLevel3(node, spec, fs), spec.type = "map",
           NEW key \in DOMAIN spec.children, Given(Sub(node, key))
    PROVE  checkLevel4(Sub(node, key), spec.children[key], fs)
BY GivenKey, Walk3

LEMMA Below4 ==
    ASSUME NEW node, NEW spec, NEW fs, checkLevel4(node, spec, fs), spec.type = "map",
           NEW key \in DOMAIN spec.children, Given(Sub(node, key))
    PROVE  checkLevel5(Sub(node, key), spec.children[key], fs)
BY GivenKey, Walk4

\* A map of which exactly one key must be given, and that key is given.
LEMMA OneOfPassed ==
    ASSUME NEW node, NEW spec, MapPassed(node, spec), spec.exactlyOne,
           IsFiniteSet(DOMAIN spec.children)
    PROVE  \E key \in DOMAIN spec.children : DOMAIN node = {key}
<1>1. Cardinality(DOMAIN node) = 1 /\ DOMAIN node \subseteq DOMAIN spec.children
  BY DEF MapPassed
<1>2. IsFiniteSet(DOMAIN node)
  BY <1>1, FS_Subset
<1>3. PICK key : DOMAIN node = {key}
  BY <1>1, <1>2, FS_Singleton
<1> QED  BY <1>1, <1>3

-----------------------------------------------------------------------------
LEMMA ConditionsRead ==
    ASSUME NEW root, NEW fs, validateRoot(root, fs),
           NEW bc \in Elements(loadConfig(root).boundaryConditions)
    PROVE  /\ bc.target = "surface" => moduleOn(root, "surface_water")
           /\ bc.target # "surface" => moduleOn(root, "groundwater")
           /\ bc.kind \in surfaceKinds => bc.target = "surface"
           /\ bc.kind \in {"head", "flux"} => bc.target # "surface"
<1> DEFINE node == Sub(root, "boundary_conditions")
           conditions == loadConfig(root).boundaryConditions
<1>1. conditions = extractBoundaryConditions(node)
  BY DEF loadConfig
<1>2. boundaryCheck(root)
  BY DEF validateRoot, crossChecks
<1>3. PICK n \in DOMAIN ListOr(node) : bc.target = node[n].target /\ bc.kind = node[n].kind
  <2>1. DOMAIN conditions = DOMAIN ListOr(node)
    BY <1>1 DEF extractBoundaryConditions
  <2>2. PICK n \in DOMAIN conditions : bc = conditions[n]
    BY DEF Elements
  <2>3. /\ conditions[n].target = node[n].target
        /\ conditions[n].kind = node[n].kind
    BY <1>1, <2>1, <2>2 DEF extractBoundaryConditions
  <2> QED  BY <2>1, <2>2, <2>3
<1>4. Given(node) /\ ListOr(node) = node
  <2>1. ASSUME ~Given(node) PROVE FALSE
    <3>1. ListOr(node) = << >>
      BY <2>1 DEF ListOr
    <3> HIDE DEF node
    <3> QED  BY <1>3, <3>1
  <2> QED  BY <2>1 DEF ListOr
<1>5. conditionTarget(node[n], root)
  <2>1. node[n] \in Elements(ListOr(node))
    BY <1>3, <1>4 DEF Elements
  <2> HIDE DEF node
  <2> QED  BY <1>2, <2>1 DEF boundaryCheck, node
<1> QED  BY <1>3, <1>5 DEF conditionTarget

LEMMA IntegerPassed ==
    ASSUME NEW value, NEW fs, LeafPassed(value, Req(integer(1)), fs)
    PROVE  NumberOf(value) \in Int
<1>1. LeafPassed(value, Req(number(1, Unbounded, 1)), fs)
  BY DEF integer
<1> DEFINE least == 1
           most == Unbounded
           step == 1
<1>2. LeafPassed(value, Req(number(least, most, step)), fs) /\ least \in Int
  BY <1>1
<1> HIDE DEF least, most, step
<1> QED  BY <1>2, NumberPassed

LEMMA DomainRead ==
    ASSUME NEW root, NEW fs, validateRoot(root, fs)
    PROVE  /\ loadConfig(root).domain.nx = NumberOf(root.domain.nx)
           /\ loadConfig(root).domain.ny = NumberOf(root.domain.ny)
           /\ NumberOf(root.domain.nx) \in Int /\ NumberOf(root.domain.ny) \in Int
<1> DEFINE node == root["domain"]
           spec == runSections["domain"]
<1>1. checkLevel2(node, spec, fs)
  BY RootPassed, Sections
<1>2. /\ spec.type = "map" /\ ~spec.exactlyOne /\ {"nx", "ny"} \subseteq DOMAIN spec.children
      /\ spec.children["nx"] = Req(integer(1)) /\ spec.children["ny"] = Req(integer(1))
  BY DEF runSections, map, Req
<1>3. Req(integer(1)).required
  BY DEF Req, integer, number
<1>4. {"nx", "ny"} \subseteq DOMAIN node
  BY <1>1, <1>2, <1>3, Walk2 DEF Passed, MapPassed
<1>5. checkLevel3(node["nx"], Req(integer(1)), fs) /\ checkLevel3(node["ny"], Req(integer(1)), fs)
  BY <1>1, <1>2, <1>4, Walk2
<1>6. LeafPassed(node["nx"], Req(integer(1)), fs) /\ LeafPassed(node["ny"], Req(integer(1)), fs)
  BY <1>5, Walk3 DEF Passed
<1>7. NumberOf(node["nx"]) \in Int /\ NumberOf(node["ny"]) \in Int
  BY <1>6, IntegerPassed
<1>8. loadConfig(root).domain = extractDomain(node)
  BY DEF loadConfig
<1>9. extractDomain(node).nx = NumberOf(node.nx) /\ extractDomain(node).ny = NumberOf(node.ny)
  BY DEF extractDomain
<1> QED  BY <1>7, <1>8, <1>9

LEMMA MonitorsRead ==
    ASSUME NEW root, NEW fs, validateRoot(root, fs),
           NEW mon \in Elements(loadConfig(root).output.monitors)
    PROVE  /\ ~(mon.i >= loadConfig(root).domain.nx)
           /\ ~(mon.j >= loadConfig(root).domain.ny)
           /\ mon.variables # << >>
<1> DEFINE node == root["output"]
           spec == serviceSections["output"]
           mons == ListOr(Sub(node, "monitors"))
           monitors == loadConfig(root).output.monitors
<1>1. Sub(root, "output") = node /\ checkLevel2(node, spec, fs)
  BY RootPassed, Sections DEF Sub
<1>2. monitors = [n \in DOMAIN mons |-> [name |-> mons[n].name, i |-> NumberOf(mons[n].i),
                                         j |-> NumberOf(mons[n].j), variables |-> mons[n].variables]]
  BY DEF loadConfig, extractOutput
<1>3. PICK n \in DOMAIN mons : /\ mon.i = NumberOf(mons[n].i) /\ mon.j = NumberOf(mons[n].j)
                               /\ mon.variables = mons[n].variables
  <2>1. PICK n \in DOMAIN monitors : mon = monitors[n]
    BY DEF Elements
  <2> HIDE DEF mons, monitors
  <2> QED  BY <1>2, <2>1
<1>4. Given(Sub(node, "monitors")) /\ mons = Sub(node, "monitors")
  <2>1. ASSUME ~Given(Sub(node, "monitors")) PROVE FALSE
    <3>1. mons = << >>
      BY <2>1 DEF ListOr
    <3> HIDE DEF mons
    <3> QED  BY <1>3, <3>1
  <2> QED  BY <2>1 DEF ListOr
<1>5. /\ spec.type = "map" /\ "monitors" \in DOMAIN spec.children
      /\ spec.children["monitors"] = sequence(monitorEntry, 0)
  BY DEF serviceSections, map, Req
<1>6. checkLevel3(mons, sequence(monitorEntry, 0), fs)
  BY <1>1, <1>4, <1>5, Below2
<1>7. checkLevel4(mons[n], monitorEntry, fs)
  BY <1>3, <1>6, Walk3 DEF sequence
<1> DEFINE entry == mons[n]
<1> HIDE DEF mons
<1>8. /\ monitorEntry.type = "map" /\ ~monitorEntry.exactlyOne
      /\ {"i", "j", "variables"} \subseteq DOMAIN monitorEntry.children
      /\ monitorEntry.children["i"] = Req(integer(0))
      /\ monitorEntry.children["j"] = Req(integer(0))
      /\ monitorEntry.children["variables"] = Req(sequence(enumeration(allVariables), 1))
  BY DEF monitorEntry, map
<1>9. /\ Req(integer(0)).required /\ Req(sequence(enumeration(allVariables), 1)).required
      /\ Req(sequence(enumeration(allVariables), 1)).type = "sequence"
      /\ Req(sequence(enumeration(allVariables), 1)).minItems = 1
  BY DEF Req, integer, number, sequence
<1>10. {"i", "j", "variables"} \subseteq DOMAIN entry
  BY <1>7, <1>8, <1>9, Walk4 DEF Passed, MapPassed
<1>11. /\ checkLevel5(entry["i"], Req(integer(0)), fs)
       /\ checkLevel5(entry["j"], Req(integer(0)), fs)
       /\ checkLevel5(entry["variables"], Req(sequence(enumeration(allVariables), 1)), fs)
  BY <1>7, <1>8, <1>10, Walk4
<1>12. NumberOf(entry["i"]) \in Int /\ NumberOf(entry["j"]) \in Int
  <2>1. LeafPassed(entry["i"], Req(integer(0)), fs) /\ LeafPassed(entry["j"], Req(integer(0)), fs)
    BY <1>11, Walk5 DEF Passed
  <2>2. Req(integer(0)) = Req(number(0, Unbounded, 1))
    BY DEF integer
  <2>3. NumberOf(entry["i"]) \in Int
    BY <2>1, <2>2, NumberPassed
  <2>4. NumberOf(entry["j"]) \in Int
    BY <2>1, <2>2, NumberPassed
  <2> QED  BY <2>3, <2>4
<1>13. entry["variables"] # << >>
  <2>1. Len(entry["variables"]) >= 1
    BY <1>9, <1>11, Walk5 DEF Passed, ListPassed
  <2> QED  BY <2>1
<1>14. NumberOf(entry.i) < NumberOf(root.domain.nx) /\ NumberOf(entry.j) < NumberOf(root.domain.ny)
  <2>1. mons = ListOr(Sub2(root, "output", "monitors"))
    BY <1>1 DEF Sub2, mons
  <2>2. entry \in Elements(mons)
    BY <1>3 DEF Elements
  <2>3. monitorCheck(root)
    BY DEF validateRoot, crossChecks
  <2> HIDE DEF entry
  <2> QED  BY <2>1, <2>2, <2>3 DEF monitorCheck
<1> HIDE DEF entry
<1>15. /\ mon.i = NumberOf(entry.i) /\ mon.j = NumberOf(entry.j) /\ mon.variables = entry.variables
  BY <1>3 DEF entry
<1> QED  BY <1>12, <1>13, <1>14, <1>15, DomainRead

\* A soil that is one type everywhere is a type of the list.
LEMMA SoilRead ==
    ASSUME NEW root, NEW fs, validateRoot(root, fs), fs \subseteq STRING,
           Given(Sub(root, "soil"))
    PROVE  LET soil == loadConfig(root).soil
           IN ~soil.fromFile => \E t \in Elements(soil.types) : t.name = soil.constantName
<1> DEFINE node == Sub(root, "soil")
           spec == groundwaterSections["soil"]
           chooser == oneOf([constant |-> text, file |-> path])
           choice == node["map"]
           types == node["types"]
<1>1. checkLevel2(node, spec, fs)
  BY SectionPassed, Sections
<1>2. /\ spec.type = "map" /\ ~spec.exactlyOne
      /\ {"types", "map"} \subseteq DOMAIN spec.children
      /\ spec.children["types"] = Req(sequence(soilType, 1))
      /\ spec.children["map"] = Req(chooser)
      /\ spec.children["types"].required /\ spec.children["map"].required
      /\ Req(sequence(soilType, 1)).type = "sequence"
  BY DEF groundwaterSections, map, Req, sequence, oneOf
<1>3. /\ Req(chooser).type = "map" /\ Req(chooser).exactlyOne
      /\ DOMAIN Req(chooser).children = {"constant", "file"}
      /\ Req(chooser).children["constant"] = text /\ Req(chooser).children["file"] = path
  BY DEF Req, oneOf, map
<1> HIDE DEF spec, chooser
<1>4. {"types", "map"} \subseteq DOMAIN node /\ node \notin {Absent, Wrong}
  BY <1>1, <1>2, Walk2 DEF Passed, MapPassed
<1>5. checkLevel3(choice, Req(chooser), fs) /\ checkLevel3(types, Req(sequence(soilType, 1)), fs)
  BY <1>1, <1>2, <1>4, Walk2
<1>6. /\ Sub2(root, "soil", "types") = types /\ Given(types)
      /\ Sub2(root, "soil", "map") = choice
  <2>1. Given(types)
    BY <1>2, <1>5, Walk3, PassedIsGiven
  <2> QED  BY <1>4, <2>1 DEF Sub2, Sub
<1>7. /\ loadConfig(root).soil.fromFile = Given(Sub(choice, "file"))
      /\ loadConfig(root).soil.constantName = wordOr(Sub(choice, "constant"), "")
      /\ DOMAIN loadConfig(root).soil.types = DOMAIN types
      /\ \A n \in DOMAIN types : loadConfig(root).soil.types[n].name = types[n].name
  <2>1. loadConfig(root).soil = extractSoil(node)
    BY DEF loadConfig, IfGiven
  <2> HIDE DEF node
  <2>2. extractSoil(node).fromFile = Given(Sub(node["map"], "file"))
    BY Zenon DEF extractSoil
  <2>3. extractSoil(node).constantName = wordOr(Sub(node["map"], "constant"), "")
    BY DEF extractSoil
  <2>4. /\ DOMAIN extractSoil(node).types = DOMAIN node["types"]
        /\ \A n \in DOMAIN node["types"] : extractSoil(node).types[n].name = node["types"][n].name
    BY DEF extractSoil
  <2> QED  BY <2>1, <2>2, <2>3, <2>4, Zenon DEF choice, types
<1> SUFFICES ASSUME ~Given(Sub(choice, "file"))
             PROVE  \E t \in Elements(loadConfig(root).soil.types) :
                        t.name = loadConfig(root).soil.constantName
  BY <1>7
<1>8. Given(Sub(choice, "constant"))
  <2>1. MapPassed(choice, Req(chooser))
    BY <1>3, <1>5, Walk3 DEF Passed
  <2>2. IsFiniteSet({"constant", "file"})
    <3>1. IsFiniteSet({"constant"}) /\ IsFiniteSet({"file"})
      BY FS_Singleton
    <3>2. IsFiniteSet({"constant"} \cup {"file"})
      BY <3>1, FS_Union
    <3> QED  BY <3>2
  <2>3. PICK key \in {"constant", "file"} : DOMAIN choice = {key}
    <3>1. \E key \in DOMAIN Req(chooser).children : DOMAIN choice = {key}
      <4>1. IsFiniteSet(DOMAIN Req(chooser).children)
        BY <1>3, <2>2
      <4> HIDE DEF choice
      <4> QED  BY <1>3, <2>1, <4>1, OneOfPassed, Zenon
    <3> QED  BY <1>3, <3>1
  <2>4. choice \notin {Absent, Wrong}
    BY <2>1 DEF MapPassed
  <2>5. CASE key = "file"
    <3>1. checkLevel4(choice["file"], path, fs)
      BY <1>3, <1>5, <2>3, <2>5, Walk3
    <3>2. Sub(choice, "file") = choice["file"]
      BY <2>3, <2>4, <2>5 DEF Sub
    <3>3. choice["file"] \in STRING
      BY <3>1, Walk4 DEF Passed, LeafPassed, path
    <3> QED  BY <3>2, <3>3, AbsentAssumption DEF Given
  <2>6. CASE key = "constant"
    <3>1. checkLevel4(choice["constant"], text, fs)
      BY <1>3, <1>5, <2>3, <2>6, Walk3
    <3>2. choice["constant"] \in STRING
      BY <3>1, Walk4 DEF Passed, LeafPassed, text
    <3>3. Sub(choice, "constant") = choice["constant"]
      BY <2>3, <2>4, <2>6 DEF Sub
    <3> QED  BY <3>2, <3>3, AbsentAssumption DEF Given
  <2> QED  BY <2>5, <2>6
<1>9. PICK t \in Elements(types) : t.name = Sub(choice, "constant")
  <2>1. soilCheck(root)
    BY DEF validateRoot, crossChecks
  <2>2. ListOr(Sub2(root, "soil", "types")) = types
    BY <1>6 DEF ListOr
  <2>3. Sub3(root, "soil", "map", "constant") = Sub(choice, "constant")
    BY <1>6 DEF Sub3
  <2> HIDE DEF choice, types
  <2> QED  BY <1>8, <2>1, <2>2, <2>3 DEF soilCheck
<1>10. PICK n \in DOMAIN types : t = types[n]
  BY DEF Elements
<1>11. loadConfig(root).soil.constantName = Sub(choice, "constant")
  BY <1>7, <1>8 DEF wordOr
<1>12. loadConfig(root).soil.types[n] \in Elements(loadConfig(root).soil.types)
  BY <1>7, <1>10 DEF Elements
<1> QED  BY <1>7, <1>9, <1>10, <1>11, <1>12

LEMMA ModulesAre ==
    ASSUME NEW root, NEW fs, validateRoot(root, fs)
    PROVE  LET modules == loadConfig(root).modules
           IN /\ modules.surfaceWater = moduleOn(root, "surface_water")
              /\ modules.groundwater = moduleOn(root, "groundwater")
              /\ modules.transport = moduleOn(root, "transport")
              /\ modules.temperature = moduleOn(root, "temperature")
<1> DEFINE a == moduleOn(root, "surface_water")
           b == moduleOn(root, "groundwater")
           c == moduleOn(root, "transport")
           d == moduleOn(root, "temperature")
<1>1. loadConfig(root).modules
        = [surfaceWater |-> a, groundwater |-> b, transport |-> c, temperature |-> d]
  BY ModulesRead
<1> HIDE DEF a, b, c, d
<1>2. /\ loadConfig(root).modules.surfaceWater = a
      /\ loadConfig(root).modules.groundwater = b
      /\ loadConfig(root).modules.transport = c
      /\ loadConfig(root).modules.temperature = d
  BY <1>1
<1> QED  BY <1>2 DEF a, b, c, d

\* The form of the groundwater's initial state is the one that is given.
LEMMA FormRead ==
    ASSUME NEW root, NEW fs, validateRoot(root, fs), moduleOn(root, "groundwater")
    PROVE  Given(Sub2(Sub(root, "initial_conditions"), "groundwater",
                      loadConfig(root).initialConditions.form))
<1> DEFINE ics  == Sub(root, "initial_conditions")
           spec == conditionSections["initial_conditions"]
           gw   == Sub(ics, "groundwater")
           forms == oneOf([water_table |-> fileOrConstant, head |-> fileOrConstant,
                           moisture |-> fileOrConstant])
           form == IF Given(Sub(gw, "water_table")) THEN "water_table"
                   ELSE IF Given(Sub(gw, "head")) THEN "head" ELSE "moisture"
<1>1. Given(gw) /\ Given(ics)
  <2>1. Given(gw)
    BY DEF validateRoot, crossChecks, initialCheck
  <2> QED  BY <2>1 DEF Sub, Given
<1>2. /\ spec.type = "map" /\ "groundwater" \in DOMAIN spec.children
      /\ spec.children["groundwater"] = forms
  BY DEF conditionSections, map
<1>3. /\ forms.type = "map" /\ forms.exactlyOne
      /\ DOMAIN forms.children = {"water_table", "head", "moisture"}
      /\ \A key \in {"water_table", "head", "moisture"} : forms.children[key] = fileOrConstant
  BY DEF oneOf, map
<1>4. fileOrConstant.type = "map"
  BY DEF fileOrConstant, oneOf, map
<1> HIDE DEF forms
<1>5. checkLevel2(ics, spec, fs)
  BY <1>1, SectionPassed, Sections
<1>6. checkLevel3(gw, forms, fs)
  BY <1>1, <1>2, <1>5, Below2
<1>7. MapPassed(gw, forms)
  BY <1>3, <1>6, Walk3 DEF Passed
<1>8. IsFiniteSet(DOMAIN forms.children)
  <2>1. IsFiniteSet({"water_table"}) /\ IsFiniteSet({"head"}) /\ IsFiniteSet({"moisture"})
    BY FS_Singleton
  <2>2. IsFiniteSet({"water_table"} \cup {"head"})
    BY <2>1, FS_Union
  <2>3. IsFiniteSet(({"water_table"} \cup {"head"}) \cup {"moisture"})
    BY <2>1, <2>2, FS_Union
  <2>4. DOMAIN forms.children = ({"water_table"} \cup {"head"}) \cup {"moisture"}
    BY <1>3
  <2> QED  BY <2>3, <2>4
<1>9. PICK key \in DOMAIN forms.children : DOMAIN gw = {key}
  <2> HIDE DEF gw
  <2> QED  BY <1>3, <1>7, <1>8, OneOfPassed, Zenon
<1>10. Given(Sub(gw, key))
  <2>1. gw \notin {Absent, Wrong} /\ Sub(gw, key) = gw[key]
    BY <1>7, <1>9 DEF MapPassed, Sub
  <2>2. checkLevel4(gw[key], fileOrConstant, fs)
    BY <1>3, <1>6, <1>9, Walk3
  <2>3. Given(gw[key])
    BY <1>4, <2>2, Walk4, PassedIsGiven
  <2> QED  BY <2>1, <2>3
<1>11. Given(Sub(gw, form))
  <2>1. \A other \in DOMAIN forms.children : other # key => ~Given(Sub(gw, other))
    BY <1>9 DEF Sub, Given
  <2> HIDE DEF gw
  <2> QED  BY <1>3, <1>9, <1>10, <2>1
<1>12. loadConfig(root).initialConditions.form = form
  <2>1. loadConfig(root).initialConditions = extractInitialConditions(ics, loadConfig(root).modules)
    BY DEF loadConfig
  <2>2. loadConfig(root).modules.groundwater
    BY ModulesAre
  <2> DEFINE modules == loadConfig(root).modules
  <2>3. extractInitialConditions(ics, modules).form
           = LET soil == IF modules.groundwater THEN Sub(ics, "groundwater") ELSE Absent
             IN IF Given(Sub(soil, "water_table")) THEN "water_table"
                ELSE IF Given(Sub(soil, "head")) THEN "head" ELSE "moisture"
    <3> HIDE DEF ics, modules
    <3> QED  BY DEF extractInitialConditions
  <2> QED  BY <2>1, <2>2, <2>3
<1> HIDE DEF form, gw, ics
<1> QED  BY <1>11, <1>12 DEF Sub2, gw, ics

\* Evaporation by the bulk formula finds its atmosphere, and the temperature
\* of the surface in it.
LEMMA AtmosphereRead ==
    ASSUME NEW root, NEW fs, validateRoot(root, fs)
    PROVE  LET cfg == loadConfig(root)
           IN \/ Given(Sub(root, "surface_water")) /\ cfg.surfaceWater.evapMode = "bulk"
              \/ Given(Sub(root, "groundwater")) /\ cfg.groundwater.evaporates
              => Given(Sub(root, "atmosphere")) /\ cfg.atmosphere.hasSurfaceTemperature
<1> DEFINE cfg == loadConfig(root)
           atm == Sub(root, "atmosphere")
           sw  == Sub(root, "surface_water")
           gw  == Sub(root, "groundwater")
<1>1. atmosphereCheck(root)
  BY DEF validateRoot, crossChecks
<1>2. Given(sw) /\ cfg.surfaceWater.evapMode = "bulk" => Given(Sub(Sub(sw, "evaporation"), "mode"))
  <2> HAVE Given(sw) /\ cfg.surfaceWater.evapMode = "bulk"
  <2>1. cfg.surfaceWater = extractSurfaceWater(sw)
    BY DEF loadConfig, IfGiven
  <2>2. extractSurfaceWater(sw).evapMode
          = IF wordOr(Sub(Sub(sw, "evaporation"), "mode"), "prescribed") = "bulk"
              THEN "bulk" ELSE "prescribed"
    <3> HIDE DEF sw
    <3> QED  BY DEF extractSurfaceWater
  <2>3. wordOr(Sub(Sub(sw, "evaporation"), "mode"), "prescribed") = "bulk"
    BY <2>1, <2>2
  <2> QED  BY <2>3 DEF wordOr
<1>3. Given(gw) => (cfg.groundwater.evaporates = Given(Sub(gw, "evaporation")))
  <2> HAVE Given(gw)
  <2>1. cfg.groundwater = extractGroundwater(gw)
    BY DEF loadConfig, IfGiven
  <2>2. extractGroundwater(gw).evaporates = Given(Sub(gw, "evaporation"))
    BY Zenon DEF extractGroundwater
  <2> QED  BY <2>1, <2>2, Zenon
<1>4. Given(atm) => (cfg.atmosphere.hasSurfaceTemperature = Given(Sub(atm, "surface_temperature")))
  <2> HAVE Given(atm)
  <2>1. cfg.atmosphere = extractAtmosphere(atm)
    BY DEF loadConfig, IfGiven
  <2>2. extractAtmosphere(atm).hasSurfaceTemperature = Given(Sub(atm, "surface_temperature"))
    BY Zenon DEF extractAtmosphere
  <2> QED  BY <2>1, <2>2, Zenon
<1>5. Given(Sub(Sub(sw, "evaporation"), "mode")) \/ Given(Sub(gw, "evaporation"))
         => Given(atm) /\ Given(Sub(atm, "surface_temperature"))
  BY <1>1, Zenon DEF atmosphereCheck, Sub2
<1> HIDE DEF cfg, atm, sw, gw
<1>6. \/ Given(sw) /\ cfg.surfaceWater.evapMode = "bulk"
      \/ Given(gw) /\ cfg.groundwater.evaporates
      => Given(atm) /\ cfg.atmosphere.hasSurfaceTemperature
  BY <1>2, <1>3, <1>4, <1>5, Zenon
<1> QED  BY <1>6 DEF cfg, atm, sw, gw

LEMMA TemperatureRead ==
    ASSUME NEW root, NEW fs, validateRoot(root, fs), Given(Sub(root, "temperature"))
    PROVE  LET temperature == loadConfig(root).temperature
           IN /\ moduleOn(root, "temperature") /\ moduleOn(root, "groundwater") =>
                    /\ temperature.thermalConductivity > 0
                    /\ temperature.heatCapacitySolid > 0
              /\ temperature.exchangeMode # "none" => moduleOn(root, "surface_water")
              /\ temperature.exchangeMode = "bulk" => Given(Sub(root, "atmosphere"))
              /\ temperature.exchangeMode = "equilibrium" =>
                    temperature.equilibriumCoefficient > 0
<1> DEFINE node == Sub(root, "temperature")
           spec == scalarSections["temperature"]
           exchange == Sub(node, "surface_exchange")
           eq == Sub(exchange, "equilibrium")
           balance == map([temperature |-> real, coefficient |-> realPositive])
           exchanging == map([mode |-> Req(enumeration({"equilibrium", "bulk"})),
                              equilibrium |-> balance])
<1>1. temperatureCheck(root)
  BY DEF validateRoot, crossChecks
<1>2. checkLevel2(node, spec, fs)
  BY SectionPassed, Sections
<1>3. /\ spec.type = "map"
      /\ {"thermal_conductivity", "heat_capacity_solid", "surface_exchange"}
            \subseteq DOMAIN spec.children
      /\ spec.children["thermal_conductivity"] = realPositive
      /\ spec.children["heat_capacity_solid"] = realPositive
      /\ spec.children["surface_exchange"] = exchanging
  BY DEF scalarSections, map
<1>4. /\ exchanging.type = "map" /\ "equilibrium" \in DOMAIN exchanging.children
      /\ exchanging.children["equilibrium"] = balance
      /\ balance.type = "map" /\ "coefficient" \in DOMAIN balance.children
      /\ balance.children["coefficient"] = realPositive
  BY DEF map
<1>5. loadConfig(root).temperature = extractTemperature(node)
  BY DEF loadConfig, IfGiven
<1>6. /\ extractTemperature(node).thermalConductivity
           = numberOr(Sub(node, "thermal_conductivity"), 0)
      /\ extractTemperature(node).heatCapacitySolid
           = numberOr(Sub(node, "heat_capacity_solid"), 0)
      /\ extractTemperature(node).exchangeMode = wordOr(Sub(exchange, "mode"), "none")
      /\ extractTemperature(node).equilibriumCoefficient = numberOr(Sub(eq, "coefficient"), 0)
  <2> HIDE DEF node
  <2> QED  BY DEF extractTemperature, Sub2
<1> HIDE DEF spec, balance, exchanging
<1>7. ASSUME NEW value, Given(value),
             \/ checkLevel3(value, realPositive, fs)
             \/ checkLevel5(value, realPositive, fs)
      PROVE  numberOr(value, 0) > 0
  <2>1. LeafPassed(value, number(1, Unbounded, 1), fs)
    BY <1>7, Walk3, Walk5 DEF Passed, realPositive
  <2>2. NumberOf(value) \in Int /\ NumberOf(value) >= 1
    BY <2>1, NumberPassed
  <2> QED  BY <1>7, <2>2 DEF numberOr
<1>8. ASSUME moduleOn(root, "temperature"), moduleOn(root, "groundwater")
      PROVE  /\ numberOr(Sub(node, "thermal_conductivity"), 0) > 0
             /\ numberOr(Sub(node, "heat_capacity_solid"), 0) > 0
  <2>1. Given(Sub(node, "thermal_conductivity")) /\ Given(Sub(node, "heat_capacity_solid"))
    BY <1>1, <1>8, Zenon DEF temperatureCheck
  <2> HIDE DEF node
  <2>2. /\ checkLevel3(Sub(node, "thermal_conductivity"), realPositive, fs)
        /\ checkLevel3(Sub(node, "heat_capacity_solid"), realPositive, fs)
    <3>1. checkLevel3(Sub(node, "thermal_conductivity"), spec.children["thermal_conductivity"], fs)
      BY <1>2, <1>3, <2>1, Below2
    <3>2. checkLevel3(Sub(node, "heat_capacity_solid"), spec.children["heat_capacity_solid"], fs)
      BY <1>2, <1>3, <2>1, Below2
    <3> QED  BY <1>3, <3>1, <3>2
  <2> QED  BY <1>7, <2>1, <2>2
<1>9. ASSUME wordOr(Sub(exchange, "mode"), "none") # "none"
      PROVE  /\ Given(exchange) /\ moduleOn(root, "surface_water")
             /\ Sub(exchange, "mode") = wordOr(Sub(exchange, "mode"), "none")
  <2>1. Given(Sub(exchange, "mode"))
    BY <1>9 DEF wordOr
  <2>2. Given(exchange)
    BY <2>1, GivenKey DEF Given
  <2>3. moduleOn(root, "surface_water")
    BY <1>1, <2>2, Zenon DEF temperatureCheck
  <2> QED  BY <2>1, <2>2, <2>3 DEF wordOr
<1>10. wordOr(Sub(exchange, "mode"), "none") = "bulk" => Given(Sub(root, "atmosphere"))
  <2> HAVE wordOr(Sub(exchange, "mode"), "none") = "bulk"
  <2>1. Sub(exchange, "mode") = "bulk"
    BY <1>9
  <2> QED  BY <1>1, <2>1, Zenon DEF temperatureCheck
<1>11. wordOr(Sub(exchange, "mode"), "none") = "equilibrium" => numberOr(Sub(eq, "coefficient"), 0) > 0
  <2> HAVE wordOr(Sub(exchange, "mode"), "none") = "equilibrium"
  <2>1. Sub(exchange, "mode") = "equilibrium" /\ Given(exchange)
    BY <1>9
  <2>2. Given(Sub(eq, "coefficient"))
    BY <1>1, <2>1, Zenon DEF temperatureCheck
  <2>3. Given(eq)
    BY <2>2, GivenKey DEF Given
  <2>4. checkLevel3(exchange, exchanging, fs)
    BY <1>2, <1>3, <2>1, Below2
  <2>5. checkLevel4(eq, balance, fs)
    BY <1>4, <2>3, <2>4, Below3
  <2>6. checkLevel5(Sub(eq, "coefficient"), realPositive, fs)
    BY <1>4, <2>2, <2>5, Below4
  <2> QED  BY <1>7, <2>2, <2>6
<1> HIDE DEF node, exchange, eq
<1> QED  BY <1>5, <1>6, <1>8, <1>9, <1>10, <1>11

\* Checks none of which fails.
LEMMA NoneFails ==
    ASSUME NEW checks,
           NEW a1, NEW a2, NEW a3, NEW a4, NEW a5, NEW a6, NEW a7,
           NEW c1, NEW c2, NEW c3, NEW c4, NEW c5, NEW c6, NEW c7,
           checks = << <<a1, c1>>, <<a2, c2>>, <<a3, c3>>, <<a4, c4>>, <<a5, c5>>,
                       <<a6, c6>>, <<a7, c7>> >>,
           ~c1, ~c2, ~c3, ~c4, ~c5, ~c6, ~c7
    PROVE  firstFailing(checks) = "none"
<1>1. DOMAIN checks = 1..7
  OBVIOUS
<1>2. /\ checks[1] = <<a1, c1>> /\ checks[2] = <<a2, c2>> /\ checks[3] = <<a3, c3>>
      /\ checks[4] = <<a4, c4>> /\ checks[5] = <<a5, c5>> /\ checks[6] = <<a6, c6>>
      /\ checks[7] = <<a7, c7>>
  OBVIOUS
<1>3. /\ checks[1][2] = c1 /\ checks[2][2] = c2 /\ checks[3][2] = c3 /\ checks[4][2] = c4
      /\ checks[5][2] = c5 /\ checks[6][2] = c6 /\ checks[7][2] = c7
  BY <1>2
<1>4. \A n \in 1..7 : ~checks[n][2]
  <2> SUFFICES ASSUME NEW n \in 1..7 PROVE ~checks[n][2]
    OBVIOUS
  <2>1. n = 1 \/ n = 2 \/ n = 3 \/ n = 4 \/ n = 5 \/ n = 6 \/ n = 7
    OBVIOUS
  <2> QED  BY <1>3, <2>1, Zenon
<1>5. {n \in DOMAIN checks : checks[n][2]} = {}
  BY <1>1, <1>4, Zenon
<1> QED  BY <1>5, Zenon DEF firstFailing

LEMMA ChecksHold ==
    ASSUME NEW root, NEW fs, validateRoot(root, fs), fs \subseteq STRING
    PROVE  firstFailing(unchecked(loadConfig(root))) = "none"
<1> DEFINE cfg == loadConfig(root)
           bcs == Elements(cfg.boundaryConditions)
           m   == cfg.modules
           ofScalar == {bc \in bcs : bc.kind \in {"scalar_value", "scalar_cauchy"}}
           c1 == ~m.surfaceWater /\ ~m.groundwater
           c2 == m.surfaceWater /\ onTarget(cfg, "surface", {"head", "flux"}) # {}
           c3 == m.groundwater /\ \E bc \in bcs : bc.target # "surface" /\ bc.kind \in surfaceKinds
           c4 == m.groundwater /\ ~cfg.soil.fromFile /\
                    \A t \in Elements(cfg.soil.types) : t.name # cfg.soil.constantName
           c5 == \E bc \in ofScalar :
                    /\ scalarModule(bc, m)
                    /\ IF bc.target = "surface" THEN ~m.surfaceWater ELSE ~m.groundwater
           c6 == m.transport /\ cfg.transport.consistentSubsurfaceUpdate /\ ~m.groundwater
           c7 == \E mon \in Elements(cfg.output.monitors) :
                    mon.i >= cfg.domain.nx \/ mon.j >= cfg.domain.ny \/ mon.variables = <<>>
<1>1. unchecked(cfg) = << <<"no-module", c1>>, <<"surface-kind", c2>>, <<"groundwater-kind", c3>>,
                          <<"soil-type", c4>>, <<"scalar-condition", c5>>,
                          <<"consistent-update", c6>>, <<"monitor-point", c7>> >>
  <2> HIDE DEF cfg
  <2> QED  BY Zenon DEF unchecked
<1>2. ~c1
  BY ModulesRead
<1>3. ~c2
  <2>1. \A bc \in bcs : bc.kind \in {"head", "flux"} => bc.target # "surface"
    BY ConditionsRead
  <2> HIDE DEF cfg
  <2> QED  BY <2>1 DEF onTarget
<1>4. ~c3
  <2>1. \A bc \in bcs : bc.kind \in surfaceKinds => bc.target = "surface"
    BY ConditionsRead
  <2> HIDE DEF cfg
  <2> QED  BY <2>1
<1>5. ~c4
  <2>1. m.groundwater => Given(Sub(root, "soil"))
    BY ModulesRead
  <2>2. Given(Sub(root, "soil")) => (~cfg.soil.fromFile =>
            \E t \in Elements(cfg.soil.types) : t.name = cfg.soil.constantName)
    BY SoilRead
  <2> HIDE DEF cfg
  <2> QED  BY <2>1, <2>2, Zenon
<1>6. ~c5
  <2>1. \A bc \in bcs : /\ bc.target = "surface" => m.surfaceWater
                        /\ bc.target # "surface" => m.groundwater
    BY ConditionsRead, ModulesAre
  <2> HIDE DEF cfg
  <2> QED  BY <2>1, Zenon
<1>7. ~c6
  <2> SUFFICES ASSUME m.transport, cfg.transport.consistentSubsurfaceUpdate
               PROVE  m.groundwater
    OBVIOUS
  <2>1. Given(Sub(root, "transport"))
    BY ModulesRead
  <2>2. cfg.transport = extractTransport(Sub(root, "transport"))
    BY <2>1 DEF loadConfig, IfGiven
  <2>3. extractTransport(Sub(root, "transport")).consistentSubsurfaceUpdate
           = (Sub(Sub(root, "transport"), "subsurface_update") = "consistent")
    BY Zenon DEF extractTransport
  <2>4. Sub2(root, "transport", "subsurface_update") = "consistent"
    <3> HIDE DEF cfg
    <3> QED  BY <2>2, <2>3, Zenon DEF Sub2
  <2>5. updateCheck(root)
    BY DEF validateRoot, crossChecks
  <2>6. moduleOn(root, "groundwater")
    BY <2>4, <2>5 DEF updateCheck
  <2> QED  BY <2>6, ModulesAre
<1>8. ~c7
  BY MonitorsRead
<1> HIDE DEF cfg, c1, c2, c3, c4, c5, c6, c7
<1>9. firstFailing(unchecked(cfg)) = "none"
  BY <1>1, <1>2, <1>3, <1>4, <1>5, <1>6, <1>7, <1>8, NoneFails
<1> QED  BY <1>9 DEF cfg

LEMMA ValidIsComplete ==
    ASSUME NEW root, NEW fs, validateRoot(root, fs), fs \subseteq STRING
    PROVE  Complete(root)
<1> DEFINE cfg == loadConfig(root)
           m   == cfg.modules
           ics == Sub(root, "initial_conditions")
           given(section) == Given(Sub(root, section))
<1>1. firstFailing(unchecked(cfg)) = "none"
  BY ChecksHold
<1>2. /\ m.surfaceWater => given("surface_water")
      /\ m.groundwater => given("groundwater") /\ given("soil")
      /\ m.transport => given("transport")
      /\ m.temperature => given("temperature")
  BY ModulesRead
<1>3. /\ m.surfaceWater = moduleOn(root, "surface_water")
      /\ m.groundwater = moduleOn(root, "groundwater")
      /\ m["transport"] = moduleOn(root, "transport")
      /\ m["temperature"] = moduleOn(root, "temperature")
  BY ModulesAre
<1>4. /\ m.surfaceWater => Given(Sub2(ics, "surface", "eta"))
      /\ \A s \in {"transport", "temperature"} : m[s] =>
            /\ m.surfaceWater => Given(Sub2(ics, s, "surface"))
            /\ m.groundwater => Given(Sub2(ics, s, "groundwater"))
  <2>1. initialCheck(root)
    BY DEF validateRoot, crossChecks
  <2> HIDE DEF m
  <2>2. \A s \in {"transport", "temperature"} : m[s] = moduleOn(root, s)
    BY <1>3
  <2> QED  BY <1>3, <2>1, <2>2, Zenon DEF initialCheck
<1>5. m.groundwater => Given(Sub2(ics, "groundwater", cfg.initialConditions.form))
  BY <1>3, FormRead
<1>6. LET bulkSurface == m.surfaceWater /\ cfg.surfaceWater.evapMode = "bulk"
          bulkSoil    == m.groundwater /\ cfg.groundwater.evaporates
      IN bulkSurface \/ bulkSoil => given("atmosphere") /\ cfg.atmosphere.hasSurfaceTemperature
  <2>1. \/ given("surface_water") /\ cfg.surfaceWater.evapMode = "bulk"
        \/ given("groundwater") /\ cfg.groundwater.evaporates
        => given("atmosphere") /\ cfg.atmosphere.hasSurfaceTemperature
    BY AtmosphereRead
  <2> HIDE DEF cfg, given
  <2> QED  BY <1>2, <2>1, Zenon
<1>7. m.temperature =>
        /\ m.groundwater => /\ cfg.temperature.thermalConductivity > 0
                            /\ cfg.temperature.heatCapacitySolid > 0
        /\ cfg.temperature.exchangeMode # "none" => m.surfaceWater
        /\ cfg.temperature.exchangeMode = "bulk" => given("atmosphere")
        /\ cfg.temperature.exchangeMode = "equilibrium" => cfg.temperature.equilibriumCoefficient > 0
  BY <1>2, <1>3, TemperatureRead
<1>8. \A s \in {"transport", "temperature"} : m[s] => given(s)
  BY <1>2
<1> HIDE DEF cfg, ics, given
<1>9. Complete(root)
  BY <1>1, <1>2, <1>4, <1>5, <1>6, <1>7, <1>8, Zenon DEF Complete, cfg, ics, given
<1> QED  BY <1>9

\* Of every document that the checks accept, whichever files are beside it: an
\* enabled module finds every section and value that it reads without a
\* default, and none of the checks the constructors repeat can fail.
THEOREM AcceptedDocumentsAreComplete == Spec => []AcceptedIsComplete
<1>1. ControlInv /\ DiskInv => AcceptedIsComplete
  <2> SUFFICES ASSUME ControlInv, DiskInv, pc = "loaded"
               PROVE  Complete(doc)
    BY DEF AcceptedIsComplete
  <2>1. validateRoot(doc, DataFiles \cup OnDisk)
    BY DEF ControlInv
  <2>2. DataFiles \cup OnDisk \subseteq STRING
    BY RunAssumption DEF DiskInv
  <2> QED  BY <2>1, <2>2, ValidIsComplete
<1> QED  BY <1>1, WorkHolds, PTL

-----------------------------------------------------------------------------
(***************************************************************************)
(* A resumed run begins from one whole state, of documents whose plans     *)
(* keep the checkpoints of a file apart.  Without that the last checkpoint *)
(* can be written over an earlier one, which is fatal and leaves a         *)
(* checkpoint of two states.                                               *)
(***************************************************************************)
DocumentTimed(document, step) ==
    \A fs : validateRoot(document, fs) => PlanTimed(planOf(loadConfig(document), TRUE), step)

\* The documents run after each other have one step.
WellTimedChains ==
    \A documents \in Chains :
        \E step \in Nat \ {0} :
            \A document \in Elements(documents) : DocumentTimed(document, step)

Saves(f)         == {o \in Objects(f) : o.group = "checkpoint"}
Near(x, y, step) == x - y \in -step..step

\* Where a checkpoint of a run that steps so far stands in time.
Placed(o, step) ==
    /\ o.label \in Nat /\ timeKeyed(o.label)
    /\ Near(o.from.at, o.label, step)
    /\ Near(o.from.at, o.from.t, step)
    /\ 2 * step < Second => o.from.t - o.label \in 0..step - 1
    /\ o.part = "scalar_dtg" => o.from.at = o.from.t

FileTimed(f, step) ==
    /\ \A o \in Saves(f) : Placed(o, step)
    /\ \A o1, o2 \in Saves(f) : o1.label = o2.label => o1.from = o2.from

\* What a list is made of, joined of two.
LEMMA AllOf ==
    ASSUME NEW first, NEW second, IsList(first), IsList(second)
    PROVE  Elements(first \o second) = Elements(first) \cup Elements(second)
BY Together

LEMMA ChosenOf ==
    ASSUME NEW condition, NEW list
    PROVE  Elements(If(condition, list)) = IF condition THEN Elements(list) ELSE {}
<1>1. CASE condition
  BY <1>1, Zenon DEF If
<1>2. CASE ~condition
  BY <1>2, NoneOf, Zenon DEF If
<1> QED  BY <1>1, <1>2

LEMMA ScalarFieldsOf ==
    ASSUME NEW on, NEW modules, NEW a, NEW b, NEW c, NEW d
    PROVE  /\ IsList(scalarFields2(on, modules, <<a, b, c, d>>))
           /\ Elements(scalarFields2(on, modules, <<a, b, c, d>>))
                = (IF on /\ modules.surfaceWater THEN {a, b, c} ELSE {})
                  \cup (IF on /\ modules.groundwater THEN {d} ELSE {})
<1> DEFINE x == SubSeq(<<a, b, c, d>>, 1, 3)
           y == SubSeq(<<a, b, c, d>>, 4, 4)
<1>1. <<a, b, c, d>> \in Seq({a, b, c, d})
  OBVIOUS
<1>2. x \in Seq({a, b, c, d}) /\ y \in Seq({a, b, c, d})
  BY <1>1
<1>3. /\ DOMAIN x = {1, 2, 3} /\ x[1] = a /\ x[2] = b /\ x[3] = c
      /\ DOMAIN y = {1} /\ y[1] = d
  BY <1>1
<1> HIDE DEF x, y
<1>4. IsList(x) /\ IsList(y)
  BY <1>2, ListOf
<1>5. Elements(x) = {a, b, c} /\ Elements(y) = {d}
  BY <1>3 DEF Elements
<1> DEFINE u == If(on /\ modules.surfaceWater, x)
           v == If(on /\ modules.groundwater, y)
<1>6. IsList(u) /\ IsList(v)
  BY <1>4, ChosenIsList
<1>7. Elements(u) = (IF on /\ modules.surfaceWater THEN {a, b, c} ELSE {})
      /\ Elements(v) = (IF on /\ modules.groundwater THEN {d} ELSE {})
  BY <1>5, ChosenOf, Zenon
<1>8. scalarFields2(on, modules, <<a, b, c, d>>) = u \o v
  BY DEF scalarFields2, x, y
<1> HIDE DEF u, v
<1>9. IsList(u \o v) /\ Elements(u \o v) = Elements(u) \cup Elements(v)
  BY <1>6, AllOf, Together
<1> QED  BY <1>7, <1>8, <1>9

\* Everything that a checkpoint of a run with these modules consists of.
Header == {"group", "t", "step", "scalar_names"}

SurfaceParts == {"eta", "etan", "uu", "vv", "cflx", "cfly"}

LEMMA PartsAre ==
    ASSUME NEW m
    PROVE  Parts(m) =
             Header
             \cup (IF coupledRun(m) THEN {"scalar_dt_surface", "scalar_tgw_lag", "seep_accum", "qss"}
                                    ELSE {})
             \cup (IF m.groundwater THEN {"scalar_dtg", "h", "wc"} ELSE {})
             \cup (IF m.surfaceWater THEN SurfaceParts ELSE {})
             \cup (IF m.transport /\ m.surfaceWater THEN {"s_surf", "s_fu_old", "s_fv_old"} ELSE {})
             \cup (IF m.transport /\ m.groundwater THEN {"s_dzz_top", "s_subs"} ELSE {})
             \cup (IF m.temperature /\ m.surfaceWater THEN {"t_surf", "t_fu_old", "t_fv_old"} ELSE {})
             \cup (IF m.temperature /\ m.groundwater THEN {"t_dzz_top", "t_subs"} ELSE {})
<1> DEFINE both  == coupledRun(m)
           head  == <<"group", "t", "step">>
           p     == If(both, <<"scalar_dt_surface">>)
           q     == If(m.groundwater, <<"scalar_dtg">>)
           r     == If(both, <<"scalar_tgw_lag">>)
           names == <<"scalar_names">>
           a     == If(m.surfaceWater, <<"eta", "etan", "uu", "vv", "cflx", "cfly">>)
           b     == If(both, <<"seep_accum", "qss">>)
           c     == scalarFields2(m.transport, m, <<"s_surf", "s_fu_old", "s_fv_old", "s_dzz_top">>)
           d     == scalarFields2(m.temperature, m, <<"t_surf", "t_fu_old", "t_fv_old", "t_dzz_top">>)
           e     == <<"h", "wc">>
           f     == If(m.transport, <<"s_subs">>)
           g     == If(m.temperature, <<"t_subs">>)
           soil  == If(m.groundwater, e \o f \o g)
<1>1. /\ IsList(head) /\ Elements(head) = {"group", "t", "step"}
      /\ IsList(e) /\ Elements(e) = {"h", "wc"}
  BY DEF IsList, Elements
<1>2. IsList(names) /\ Elements(names) = {"scalar_names"}
  BY OneOf
<1>3. /\ IsList(p) /\ Elements(p) = (IF both THEN {"scalar_dt_surface"} ELSE {})
      /\ IsList(q) /\ Elements(q) = (IF m.groundwater THEN {"scalar_dtg"} ELSE {})
      /\ IsList(r) /\ Elements(r) = (IF both THEN {"scalar_tgw_lag"} ELSE {})
      /\ IsList(f) /\ Elements(f) = (IF m.transport THEN {"s_subs"} ELSE {})
      /\ IsList(g) /\ Elements(g) = (IF m.temperature THEN {"t_subs"} ELSE {})
  <2>1. \A element : IsList(<<element>>) /\ Elements(<<element>>) = {element}
    BY OneOf
  <2>2. \A condition, element :
           /\ IsList(If(condition, <<element>>))
           /\ Elements(If(condition, <<element>>)) = IF condition THEN {element} ELSE {}
    BY <2>1, ChosenIsList, ChosenOf
  <2> QED  BY <2>2
<1>4. IsList(a) /\ Elements(a) = (IF m.surfaceWater THEN SurfaceParts ELSE {})
  <2>1. IsList(<<"eta", "etan", "uu", "vv", "cflx", "cfly">>)
        /\ Elements(<<"eta", "etan", "uu", "vv", "cflx", "cfly">>) = SurfaceParts
    BY SixOf DEF SurfaceParts
  <2> QED  BY <2>1, ChosenIsList, ChosenOf
<1>5. IsList(b) /\ Elements(b) = (IF both THEN {"seep_accum", "qss"} ELSE {})
  <2>1. IsList(<<"seep_accum", "qss">>) /\ Elements(<<"seep_accum", "qss">>) = {"seep_accum", "qss"}
    BY DEF IsList, Elements
  <2> QED  BY <2>1, ChosenIsList, ChosenOf
<1>6. /\ IsList(c)
      /\ Elements(c) = (IF m.transport /\ m.surfaceWater THEN {"s_surf", "s_fu_old", "s_fv_old"}
                                                           ELSE {})
                       \cup (IF m.transport /\ m.groundwater THEN {"s_dzz_top"} ELSE {})
  BY ScalarFieldsOf
<1>7. /\ IsList(d)
      /\ Elements(d) = (IF m.temperature /\ m.surfaceWater THEN {"t_surf", "t_fu_old", "t_fv_old"}
                                                             ELSE {})
                       \cup (IF m.temperature /\ m.groundwater THEN {"t_dzz_top"} ELSE {})
  BY ScalarFieldsOf
<1>8. checkpointParts(m) = head \o (p \o q \o r) \o names \o (a \o b \o c \o d) \o soil
  BY DEF checkpointParts, checkpointScalars, checkpointFields2, checkpointFields3
<1> HIDE DEF head, p, q, r, names, a, b, c, d, e, f, g
<1>9. /\ IsList(p \o q \o r)
      /\ Elements(p \o q \o r) = Elements(p) \cup Elements(q) \cup Elements(r)
  BY <1>3, AllOf, Together
<1>10. /\ IsList(a \o b \o c \o d)
       /\ Elements(a \o b \o c \o d) = Elements(a) \cup Elements(b) \cup Elements(c) \cup Elements(d)
  BY <1>4, <1>5, <1>6, <1>7, AllOf, Together
<1>11. /\ IsList(e \o f \o g)
       /\ Elements(e \o f \o g) = Elements(e) \cup Elements(f) \cup Elements(g)
  BY <1>1, <1>3, AllOf, Together
<1>12. IsList(soil) /\ Elements(soil) = IF m.groundwater THEN Elements(e \o f \o g) ELSE {}
  BY <1>11, ChosenIsList, ChosenOf
<1> DEFINE ps == p \o q \o r
           fs == a \o b \o c \o d
<1>13. checkpointParts(m) = head \o ps \o names \o fs \o soil
  BY <1>8
<1> HIDE DEF soil, ps, fs
<1>14. Elements(checkpointParts(m))
         = Elements(head) \cup Elements(ps) \cup Elements(names) \cup Elements(fs) \cup Elements(soil)
  BY <1>1, <1>2, <1>9, <1>10, <1>12, <1>13, AllOf, Together DEF ps, fs
<1>15. Parts(m) = Elements(checkpointParts(m))
  BY DEF Parts, Elements
<1>16. Elements(ps) = Elements(p) \cup Elements(q) \cup Elements(r)
       /\ Elements(fs) = Elements(a) \cup Elements(b) \cup Elements(c) \cup Elements(d)
  BY <1>9, <1>10 DEF ps, fs
<1> QED
  BY <1>1, <1>2, <1>3, <1>4, <1>5, <1>6, <1>7, <1>11, <1>12, <1>14, <1>15, <1>16
  DEF Header

\* A checkpoint that is read whole has every part of the state.
LEMMA PrognosticIsRead ==
    /\ prognostic \subseteq Parts(mods)
    /\ "t" \in Parts(mods)
    /\ mods.groundwater => "scalar_dtg" \in Parts(mods)
<1>1. coupledRun(mods) = (mods.surfaceWater /\ mods.groundwater)
  BY DEF coupledRun
<1> DEFINE carried(surf, subs) == (IF mods.surfaceWater THEN surf ELSE {})
                                  \cup (IF mods.groundwater THEN subs ELSE {})
<1>2. prognostic =
        {"t"}
        \cup (IF mods.surfaceWater THEN SurfaceParts ELSE {})
        \cup (IF mods.groundwater THEN {"h", "wc", "scalar_dtg"} ELSE {})
        \cup (IF coupledRun(mods)
                THEN {"seep_accum", "qss", "scalar_tgw_lag", "scalar_dt_surface"} ELSE {})
        \cup (IF mods.transport THEN carried({"s_surf", "s_fu_old", "s_fv_old"},
                                              {"s_subs", "s_dzz_top"}) ELSE {})
        \cup (IF mods.temperature THEN carried({"t_surf", "t_fu_old", "t_fv_old"},
                                                {"t_subs", "t_dzz_top"}) ELSE {})
  BY DEF prognostic, SurfaceParts
<1> HIDE DEF SurfaceParts
<1>3. \A part \in prognostic : part \in Parts(mods)
  BY <1>1, <1>2, PartsAre DEF Header
<1>4. "t" \in Parts(mods) /\ (mods.groundwater => "scalar_dtg" \in Parts(mods))
  BY PartsAre DEF Header
<1> QED  BY <1>3, <1>4

\* The length of the adaptive step is only written with a soil.
LEMMA StepLengthIsOfSoil ==
    ASSUME NEW m, ~m.groundwater
    PROVE  "scalar_dtg" \notin Parts(m)
<1>1. coupledRun(m) = (m.surfaceWater /\ m.groundwater)
  BY DEF coupledRun
<1> QED  BY <1>1, PartsAre DEF Header, SurfaceParts

-----------------------------------------------------------------------------
\* Times and their labels.
LEMMA QuotientBounds ==
    ASSUME NEW x \in Nat, NEW y \in Nat \ {0}
    PROVE  /\ x \div y \in Nat
           /\ (x \div y) * y <= x /\ x < (x \div y) * y + y
           /\ (x \div y + 1) * y = (x \div y) * y + y
           /\ (x \div y) * y \in Nat
<1> DEFINE q == x \div y
<1>1. q \in Nat
  BY Quotient
<1>2. x % y \in 0..y - 1 /\ x = y * q + (x % y)
  OBVIOUS
<1> DEFINE r == x % y
<1> HIDE DEF q, r
<1>3. r \in 0..y - 1 /\ x = y * q + r
  BY <1>2 DEF q, r
<1>4. q * y = y * q /\ (q + 1) * y = q * y + y /\ q * y \in Nat
  BY <1>1
<1> QED  BY <1>1, <1>3, <1>4 DEF q

LEMMA GrowingProduct ==
    ASSUME NEW m \in Nat, NEW n \in Nat, NEW y \in Nat \ {0}, m * y < n * y
    PROVE  m * y + y <= n * y
<1>1. m < n
  <2>1. CASE n <= m
    <3>1. PICK k \in Nat : m = n + k
      BY <2>1
    <3>2. m * y = n * y + k * y /\ k * y \in Nat /\ n * y \in Nat
      BY <3>1
    <3> QED  BY <3>2
  <2> QED  BY <2>1
<1>2. PICK k \in Nat : n = m + 1 + k
  BY <1>1
<1>3. n * y = m * y + y + k * y /\ k * y \in Nat /\ m * y \in Nat
  BY <1>2
<1> QED  BY <1>3

\* The nearest second is no farther than half a second, rounded down, and no
\* time of it is rounded elsewhere.
LEMMA NearestIsNear ==
    ASSUME NEW t \in Nat
    PROVE  /\ NearestSecond(t) \in Nat /\ timeKeyed(NearestSecond(t))
           /\ 2 * (NearestSecond(t) - t) <= Second
           /\ 2 * (t - NearestSecond(t)) < Second
<1> DEFINE half == Second \div 2
           q    == (t + half) \div Second
<1>1. Second \in Nat \ {0} /\ half \in Nat /\ (2 * half = Second \/ 2 * half + 1 = Second)
  BY SecondAssumption, Quotient
<1> HIDE DEF half
<1>2. t + half \in Nat
  BY <1>1
<1>3. q \in Nat /\ q * Second \in Nat /\ q * Second <= t + half /\ t + half < q * Second + Second
  BY <1>1, <1>2, QuotientBounds
<1> HIDE DEF q
<1>4. NearestSecond(t) = q * Second
  BY DEF NearestSecond, q, half
<1>5. (q * Second) % Second = 0
  <2>1. (q * Second) % Second = (Second * q + 0) % Second
    BY <1>1, <1>3
  <2> QED  BY <1>1, <1>3
<1>6. timeKeyed(q * Second)
  BY <1>5 DEF timeKeyed
<1> DEFINE l == q * Second
<1>7. l \in Nat /\ l <= t + half /\ t + half < l + Second
  BY <1>3
<1> HIDE DEF l
<1>8. 2 * (l - t) <= Second /\ 2 * (t - l) < Second
  BY <1>1, <1>7
<1> QED  BY <1>4, <1>6, <1>7, <1>8 DEF l

\* A time less than half a second past a whole second is rounded to it.
LEMMA NearestIsTold ==
    ASSUME NEW t \in Nat, NEW label \in Int, timeKeyed(label), label <= t, 2 * (t - label) < Second
    PROVE  NearestSecond(t) = label
<1> DEFINE near == NearestSecond(t)
<1>1. near \in Nat /\ timeKeyed(near) /\ 2 * (near - t) <= Second /\ 2 * (t - near) < Second
  BY NearestIsNear
<1>2. Second \in Nat \ {0}
  BY SecondAssumption
<1> HIDE DEF near
<1>3. near - label < Second /\ label - near < Second
  BY <1>1, <1>2
<1>4. PICK m \in Int : near = m * Second
  <2>1. near = Second * (near \div Second) + (near % Second) /\ near \div Second \in Int
    BY <1>1, <1>2
  <2> QED  BY <1>1, <1>2, <2>1 DEF timeKeyed
<1>5. PICK n \in Int : label = n * Second
  <2>1. label = Second * (label \div Second) + (label % Second) /\ label \div Second \in Int
    BY <1>2
  <2> QED  BY <1>2, <2>1 DEF timeKeyed
<1>6. CASE m = n
  BY <1>4, <1>5, <1>6 DEF near
<1>7. CASE m > n
  <2>1. PICK k \in Nat : m = n + 1 + k
    BY <1>7
  <2>2. m * Second = n * Second + Second + k * Second /\ k * Second \in Nat
    BY <1>2, <2>1
  <2> QED  BY <1>2, <1>3, <1>4, <1>5, <2>2
<1>8. CASE m < n
  <2>1. PICK k \in Nat : n = m + 1 + k
    BY <1>8
  <2>2. n * Second = m * Second + Second + k * Second /\ k * Second \in Nat
    BY <1>2, <2>1
  <2> QED  BY <1>2, <1>3, <1>4, <1>5, <2>2
<1> QED  BY <1>6, <1>7, <1>8

\* The label of what is due: the boundary crossed in the step, or the nearest
\* multiple of the interval if it is less than half a step away.
DueAt(list, do, before, t, interval) ==
    \/ list = <<>>
    \/ /\ interval # 0
       /\ \E label, n \in Nat :
             /\ list = task(do, label)
             /\ label = n * interval
             /\ surfaceLoop => 2 * (t - label) < plan.dt /\ 2 * (label - t) < plan.dt
             /\ ~surfaceLoop => before < label /\ label <= t

LEMMA DueLabel ==
    ASSUME ControlInv, pc \in Looping, NEW do, NEW before \in Nat, NEW t \in Nat,
           NEW interval \in Nat, start \in Nat
    PROVE  DueAt(due(do, before, t, interval), do, before, t, interval)
<1> SUFFICES
      \/ due(do, before, t, interval) = <<>>
      \/ /\ interval # 0
         /\ \E label, n \in Nat :
               /\ due(do, before, t, interval) = task(do, label)
               /\ label = n * interval
               /\ surfaceLoop => 2 * (t - label) < plan.dt /\ 2 * (label - t) < plan.dt
               /\ ~surfaceLoop => before < label /\ label <= t
  BY Zenon DEF DueAt
<1>0. CASE interval = 0
  BY <1>0 DEF due
<1>1. CASE interval # 0
  <2> DEFINE index   == nearest(t, interval)
             crossed == before \div interval
             passed  == t \div interval
             away    == t - index * interval
  <2>1. index \in Nat
    <3>1. 2 * t + interval \in Nat /\ 2 * interval \in Nat \ {0}
      BY <1>1
    <3> QED  BY <3>1, Quotient DEF nearest
  <2>2. /\ crossed \in Nat /\ before < crossed * interval + interval
        /\ (crossed + 1) * interval = crossed * interval + interval
        /\ crossed * interval \in Nat
    BY <1>1, QuotientBounds
  <2>3. passed \in Nat /\ passed * interval <= t /\ passed * interval \in Nat
    BY <1>1, QuotientBounds
  <2>4. index * interval \in Nat
    <3> HIDE DEF index
    <3> QED  BY <2>1, Product
  <2> HIDE DEF index, crossed, passed
  <2>5. CASE surfaceLoop
    <3>1. \/ due(do, before, t, interval) = <<>>
          \/ /\ due(do, before, t, interval) = task(do, index * interval)
             /\ 2 * away < plan.dt /\ -(2 * away) < plan.dt
      BY <1>1, <2>5, Zenon DEF due, If, index
    <3>2. plan.dt \in Nat
      BY DEF ControlInv, PlanSound, Planned, Open
    <3> DEFINE label == index * interval
    <3>3. label \in Nat /\ away = t - label
      BY <2>4
    <3> HIDE DEF label
    <3>4. 2 * away < plan.dt /\ -(2 * away) < plan.dt
             => 2 * (t - label) < plan.dt /\ 2 * (label - t) < plan.dt
      BY <3>2, <3>3
    <3>5. label = index * interval
      BY DEF label
    <3> HIDE DEF away
    <3> QED  BY <1>1, <2>1, <2>5, <3>1, <3>3, <3>4, <3>5
  <2>6. CASE ~surfaceLoop
    <3>1. \/ due(do, before, t, interval) = <<>>
          \/ /\ due(do, before, t, interval) = task(do, (crossed + 1) * interval)
             /\ passed > crossed
      BY <1>1, <2>6, Zenon DEF due, If, crossed, passed
    <3>2. CASE passed > crossed
      <4>1. (crossed + 1) * interval <= t
        <5>1. PICK k \in Nat : passed = crossed + 1 + k
          BY <2>2, <2>3, <3>2
        <5>2. passed * interval = (crossed + 1) * interval + k * interval /\ k * interval \in Nat
          BY <1>1, <2>2, <5>1
        <5> QED  BY <2>2, <2>3, <5>2
      <4> DEFINE label == (crossed + 1) * interval
                 n     == crossed + 1
      <4>2. label \in Nat /\ before < label /\ label <= t /\ n \in Nat /\ label = n * interval
        BY <2>2, <4>1
      <4>3. \/ due(do, before, t, interval) = <<>>
            \/ due(do, before, t, interval) = task(do, label)
        BY <3>1
      <4> HIDE DEF label, n
      <4> QED  BY <1>1, <2>6, <4>2, <4>3
    <3>3. CASE ~(passed > crossed)
      BY <3>1, <3>3
    <3> QED  BY <3>2, <3>3
  <2> QED  BY <2>5, <2>6
<1> QED  BY <1>0, <1>1

-----------------------------------------------------------------------------
(***************************************************************************)
(* The invariant.  step is the step of every run of the chain.             *)
(***************************************************************************)
\* The live state is one tag, near the time it stands for.
LiveInv(step) ==
    LET tag == state["t"] IN
    /\ start <= clock
    /\ \A part \in DOMAIN state : state[part] = tag
    /\ tag.t = clock
    /\ mods.groundwater => tag.at = clock
    /\ start < clock => tag.at = clock /\ clock < plan.tEnd + step
    /\ start = clock /\ ~plan.restart.enabled => tag.at = clock /\ clock < plan.tEnd
    /\ start = clock /\ plan.restart.enabled =>
          /\ tag.run < run
          /\ Near(tag.at, plan.restart.time, step)
          /\ Near(tag.at, clock, step)
          /\ 2 * step < Second => /\ timeKeyed(plan.restart.time)
                                  /\ clock - plan.restart.time \in 0..step - 1

\* Every label in the file is at or before the last checkpoint, which is a
\* step ago or just now.
SavedInv(step) ==
    /\ saved = Never \/ saved \in Nat
    /\ start = clock => saved = Never
    /\ saved # Never =>
          IF mods.groundwater THEN saved = clock \/ saved + step <= clock
          ELSE /\ \E n \in Nat : saved = n * plan.checkpointInterval
               /\ 2 * saved < 2 * clock + step
    /\ \A o \in Saves(file) :
          /\ saved # Never
          /\ IF mods.groundwater THEN o.label <= saved
             ELSE o.label = saved \/ o.label + plan.checkpointInterval <= saved

\* A label due in this step is later than all that were saved.
DueInv(label, step) ==
    /\ start < clock /\ plan.checkpointInterval > 0
    /\ IF mods.groundwater
         THEN /\ clock - step < label /\ label <= clock
              /\ saved = Never \/ saved + step <= clock
         ELSE /\ \E n \in Nat : label = n * plan.checkpointInterval
              /\ saved = Never \/ saved + plan.checkpointInterval <= label
              /\ 2 * label < 2 * clock + step /\ 2 * clock < 2 * label + step

\* No checkpoint of the file has this label, and the state is near it.
Writable(label, step) ==
    /\ \A o \in Saves(file) : o.label # label
    /\ Near(state["t"].at, label, step)
    /\ mods.groundwater /\ 2 * step < Second /\ timeKeyed(label) => clock - label \in 0..step - 1

Labels(list) == {list[n].label : n \in {k \in DOMAIN list : list[k].do = "checkpoint"}}

Once(list) == \A m, n \in DOMAIN list : list[m].do = "checkpoint" /\ list[n].do = "checkpoint" => m = n

PendingInv(step) ==
    /\ Once(agenda)
    /\ pc = "completed" => Labels(agenda) = {}
    /\ \A label \in Labels(agenda) :
          /\ Writable(label, step)
          /\ pc = "running" => DueInv(label, step)

FilesTimed(step) == \A name \in OnDisk : FileTimed(files[name], step)

PlansTimed(step) ==
    /\ \A document \in Elements(chain) : DocumentTimed(document, step)
    /\ pc \in Planned => PlanTimed(plan, step)

LoopTimed(step) ==
    /\ pc \in Looping => LiveInv(step) /\ PendingInv(step)
    /\ pc = "running" => SavedInv(step)

TimedInv(step) ==
    /\ PlansTimed(step)
    /\ FilesTimed(step)
    /\ pc = "opened" => Saves(file) = {}
    /\ LoopTimed(step)

-----------------------------------------------------------------------------
LEMMA NoLabels ==
    ASSUME NEW list, Avoids(list, "checkpoint")
    PROVE  Labels(list) = {} /\ Once(list)
BY DEF Avoids, Labels, Once

LEMMA TheLabel ==
    ASSUME NEW label \in Nat
    PROVE  Labels(task("checkpoint", label)) = {label} /\ Once(task("checkpoint", label))
<1> DEFINE a   == [do |-> "checkpoint", label |-> label]
           one == task("checkpoint", label)
<1>1. one = <<a>> /\ a.do = "checkpoint" /\ a.label = label
  BY DEF task
<1> HIDE DEF one, a
<1>2. DOMAIN one = {1} /\ one[1] = a
  BY <1>1
<1> QED  BY <1>1, <1>2 DEF Labels, Once, one

\* The checkpoints to write in a list of which one part has none.
LEMMA LabelsTogether ==
    ASSUME NEW a \in Seq(Tasks), NEW b \in Seq(Tasks)
    PROVE  /\ Avoids(a, "checkpoint") /\ Once(b) => Labels(a \o b) = Labels(b) /\ Once(a \o b)
           /\ Avoids(b, "checkpoint") /\ Once(a) => Labels(a \o b) = Labels(a) /\ Once(a \o b)
<1> DEFINE list == a \o b
<1>1. /\ list \in Seq(Tasks) /\ Len(list) = Len(a) + Len(b)
      /\ \A n \in 1..Len(a) : list[n] = a[n]
      /\ \A n \in 1..Len(b) : list[n + Len(a)] = b[n]
  BY Joined
<1>2. DOMAIN a = 1..Len(a) /\ DOMAIN b = 1..Len(b) /\ Len(a) \in Nat /\ Len(b) \in Nat
      /\ DOMAIN list = 1..(Len(a) + Len(b))
  BY <1>1
<1> HIDE DEF list
<1>3. ASSUME Avoids(a, "checkpoint"), Once(b)
      PROVE  Labels(list) = Labels(b) /\ Once(list)
  <2>1. \A n \in DOMAIN list : list[n].do = "checkpoint" =>
           n - Len(a) \in DOMAIN b /\ list[n] = b[n - Len(a)]
    <3> SUFFICES ASSUME NEW n \in DOMAIN list, list[n].do = "checkpoint"
                 PROVE  n - Len(a) \in DOMAIN b /\ list[n] = b[n - Len(a)]
      OBVIOUS
    <3>1. ~(n <= Len(a))
      BY <1>1, <1>2, <1>3 DEF Avoids
    <3>2. n - Len(a) \in 1..Len(b) /\ (n - Len(a)) + Len(a) = n
      BY <1>2, <3>1
    <3> QED  BY <1>1, <1>2, <3>2
  <2>2. \A n \in DOMAIN b : n + Len(a) \in DOMAIN list /\ list[n + Len(a)] = b[n]
    BY <1>1, <1>2
  <2>3. Labels(list) = Labels(b)
    BY <2>1, <2>2 DEF Labels
  <2>4. Once(list)
    <3> SUFFICES ASSUME NEW m \in DOMAIN list, NEW n \in DOMAIN list,
                        list[m].do = "checkpoint", list[n].do = "checkpoint"
                 PROVE  m = n
      BY DEF Once
    <3>1. m - Len(a) = n - Len(a)
      BY <1>3, <2>1 DEF Once
    <3> QED  BY <1>2, <3>1
  <2> QED  BY <2>3, <2>4
<1>4. ASSUME Avoids(b, "checkpoint"), Once(a)
      PROVE  Labels(list) = Labels(a) /\ Once(list)
  <2>1. \A n \in DOMAIN list : list[n].do = "checkpoint" => n \in DOMAIN a /\ list[n] = a[n]
    <3> SUFFICES ASSUME NEW n \in DOMAIN list, list[n].do = "checkpoint"
                 PROVE  n \in DOMAIN a /\ list[n] = a[n]
      OBVIOUS
    <3>1. n <= Len(a)
      <4>1. SUFFICES ASSUME ~(n <= Len(a)) PROVE FALSE
        OBVIOUS
      <4>2. n - Len(a) \in 1..Len(b) /\ (n - Len(a)) + Len(a) = n
        BY <1>2, <4>1
      <4> QED  BY <1>1, <1>2, <1>4, <4>2 DEF Avoids
    <3> QED  BY <1>1, <1>2, <3>1
  <2>2. \A n \in DOMAIN a : n \in DOMAIN list /\ list[n] = a[n]
    BY <1>1, <1>2
  <2>3. Labels(list) = Labels(a)
    BY <2>1, <2>2 DEF Labels
  <2>4. Once(list)
    BY <1>4, <2>1 DEF Once
  <2> QED  BY <2>3, <2>4
<1> QED  BY <1>3, <1>4 DEF list

\* The list without its first task, and with another one in front.
LEMMA LabelsOfTail ==
    ASSUME NEW list \in Seq(Tasks), list # <<>>, Once(list)
    PROVE  /\ Labels(Tail(list)) \subseteq Labels(list) /\ Once(Tail(list))
           /\ Head(list).do = "checkpoint" =>
                 Labels(Tail(list)) = {} /\ Head(list).label \in Labels(list)
<1> DEFINE rest == Tail(list)
<1>1. /\ Len(list) \in Nat /\ DOMAIN list = 1..Len(list) /\ 1 \in DOMAIN list
      /\ Head(list) = list[1]
      /\ DOMAIN rest = 1..(Len(list) - 1)
      /\ \A n \in DOMAIN rest : rest[n] = list[n + 1] /\ n + 1 \in DOMAIN list /\ n + 1 # 1
  OBVIOUS
<1> HIDE DEF rest
<1>2. Labels(rest) \subseteq Labels(list)
  BY <1>1 DEF Labels
<1>3. Once(rest)
  <2> SUFFICES ASSUME NEW m \in DOMAIN rest, NEW n \in DOMAIN rest,
                      rest[m].do = "checkpoint", rest[n].do = "checkpoint"
               PROVE  m = n
    BY DEF Once
  <2>1. m + 1 = n + 1
    BY <1>1 DEF Once
  <2> QED  BY <1>1, <2>1
<1>4. ASSUME Head(list).do = "checkpoint"
      PROVE  Labels(rest) = {} /\ Head(list).label \in Labels(list)
  <2>1. \A n \in DOMAIN rest : rest[n].do # "checkpoint"
    BY <1>1, <1>4 DEF Once
  <2> QED  BY <1>1, <1>4, <2>1 DEF Labels
<1> QED  BY <1>2, <1>3, <1>4 DEF rest

(***************************************************************************)
(* The checkpoints in the files: only WriteCheckpoint adds to them.        *)
(***************************************************************************)
LEMMA SavesWritten ==
    ASSUME NEW f, FileSound(f), NEW new, IsList(new), \A o \in Elements(new) : o.from \in Tags(f.owner)
    PROVE  Saves(written(f, new)) \subseteq Saves(f) \cup {o \in Elements(new) : o.group = "checkpoint"}
<1> DEFINE g == written(f, new)
<1>1. PICK n \in 0..Len(new) : g.objects = f.objects \o SubSeq(new, 1, n)
  BY WrittenGrows
<1> DEFINE added == SubSeq(new, 1, n)
<1>2. /\ new \in Seq(Elements(new)) /\ Len(new) \in Nat /\ DOMAIN new = 1..Len(new)
      /\ n \in Nat /\ n <= Len(new) /\ IsList(f.objects)
  BY DEF IsList, FileSound
<1>3. /\ added \in Seq(Elements(new)) /\ DOMAIN added = 1..n
      /\ \A k \in 1..n : added[k] = new[k]
  BY <1>2
<1>4. g.objects = f.objects \o added
  BY <1>1
<1> HIDE DEF added, g
<1>5. IsList(added) /\ Elements(added) \subseteq Elements(new)
  BY <1>2, <1>3, ListOf DEF Elements
<1>6. Elements(g.objects) = Elements(f.objects) \cup Elements(added)
  BY <1>2, <1>4, <1>5, AllOf
<1>7. Objects(g) = Elements(g.objects) /\ Objects(f) = Elements(f.objects)
  BY DEF Objects, Elements
<1> QED  BY <1>5, <1>6, <1>7 DEF Saves, g

LEMMA SavesFlushed ==
    ASSUME NEW f, FileSound(f)
    PROVE  Saves(flushed(f)) = Saves(f)
<1>1. flushed(f).objects = f.objects
  BY FlushedGrows
<1> QED  BY <1>1 DEF Saves, Objects

LEMMA SavesLeft ==
    ASSUME NEW f, FileSound(f), NEW g \in leftovers(f)
    PROVE  Saves(g) \subseteq Saves(f)
<1>1. Objects(g) \subseteq Objects(f)
  BY LeftoverGrows
<1> QED  BY <1>1 DEF Saves

\* What every other action does to the output file of an open run.
SavesKept == files' = files \/ \E new : Put(new) /\ Saves(new) \subseteq Saves(file)

LEMMA FatalKeepsSaves ==
    ASSUME NEW why, NEW left, Fatal(why, left), FileSound(left), Saves(left) \subseteq Saves(file)
    PROVE  SavesKept
<1>1. Put(flushed(left)) /\ Saves(flushed(left)) = Saves(left)
  BY SavesFlushed DEF Fatal
<1> QED  BY <1>1 DEF SavesKept

LEMMA KilledKeepsSaves ==
    ASSUME NEW why, Killed(why), FileSound(file)
    PROVE  SavesKept
<1>1. PICK left \in leftovers(file) : Put(left)
  BY DEF Killed
<1>2. Saves(left) \subseteq Saves(file)
  BY SavesLeft
<1> QED  BY <1>1, <1>2 DEF SavesKept

LEMMA WriteKeepsSaves ==
    ASSUME ControlInv, DiskInv, pc \in Open, NEW objects, NEW label, NEW last,
           IsList(objects), \A o \in Elements(objects) : o.from \in Tags(run) /\ o.group # "checkpoint",
           Write(objects, label, last)
    PROVE  SavesKept
<1> DEFINE left == written(file, objects)
<1>1. FileSound(file) /\ file.owner = run
  BY FileOpen
<1>2. FileSound(left) /\ Saves(left) \subseteq Saves(file)
  <2>1. FileSound(left)
    BY <1>1, WrittenGrows DEF Grown
  <2>2. Saves(left) \subseteq Saves(file) \cup {o \in Elements(objects) : o.group = "checkpoint"}
    BY <1>1, SavesWritten
  <2> HIDE DEF left
  <2> QED  BY <2>1, <2>2
<1>3. \/ Put(left)
      \/ Fatal("dataset-exists", left)
      \/ Fatal("time-key", file)
  BY Zenon DEF Write
<1> HIDE DEF left
<1>4. CASE Put(left)
  BY <1>2, <1>4 DEF SavesKept
<1>5. CASE Fatal("dataset-exists", left)
  BY <1>2, <1>5, FatalKeepsSaves
<1>6. CASE Fatal("time-key", file)
  BY <1>1, <1>6, FatalKeepsSaves
<1> QED  BY <1>3, <1>4, <1>5, <1>6

LEMMA SavesStep ==
    ASSUME ControlInv, WorkInv, DiskInv, pc \in Open, Next, ~WriteCheckpoint
    PROVE  SavesKept
<1> USE DEF Looping, Open, Over
<1>0. /\ FileSound(file) /\ file.owner = run /\ Saves(file) \subseteq Saves(file)
      /\ pc \in Looping => plan.monitoring \in {"recorded", "unavailable", "unallocated"}
  BY FileOpen DEF ControlInv, PlanSound, Planned
<1>1. CASE Read \/ Report \/ Build \/ CreateOutput \/ Rerun
  BY <1>1 DEF Read, Report, Build, CreateOutput, Rerun
<1>2. CASE Begin
  <2>1. \/ files' = files
        \/ Fatal("no-checkpoint", file)
    BY <1>2, Zenon DEF Begin
  <2> QED  BY <1>0, <2>1, FatalKeepsSaves DEF SavesKept
<1>3. CASE Step \/ EndLoop \/ WriteRecord \/ RenameRecord \/ Finalize
  BY <1>3 DEF Step, EndLoop, WriteRecord, RenameRecord, Finalize, SavesKept, disk
<1>4. ASSUME NEW name \in Names, Solve(name) PROVE SavesKept
  <2>1. \/ files' = files
        \/ \E why : Fatal(why, file)
    BY <1>4, Zenon DEF Solve
  <2> QED  BY <1>0, <2>1, FatalKeepsSaves DEF SavesKept
<1>5. CASE RecordMonitors
  <2>1. pc \in Looping
    BY <1>5 DEF RecordMonitors, Doing
  <2>2. CASE plan.monitoring = "recorded"
    BY <1>5, <2>2 DEF RecordMonitors, SavesKept
  <2>3. CASE plan.monitoring = "unavailable"
    <3>1. Fatal("unavailable", file)
      BY <1>5, <2>3 DEF RecordMonitors
    <3> QED  BY <1>0, <3>1, FatalKeepsSaves
  <2>4. CASE plan.monitoring = "unallocated"
    <3>1. Killed("unallocated")
      BY <1>5, <2>4 DEF RecordMonitors
    <3> QED  BY <1>0, <3>1, KilledKeepsSaves
  <2> QED  BY <1>0, <2>1, <2>2, <2>3, <2>4
<1>6. CASE WriteOutputs
  <2> DEFINE label == Head(agenda).label
             objects == [n \in DOMAIN plan.variables |->
                           object(plan.variables[n][1], label, plan.variables[n][2], from)]
  <2>1. pc \in Looping /\ Write(objects, label, saved)
    BY <1>6 DEF WriteOutputs, Doing
  <2>2. IsList(objects) /\ \A o \in Elements(objects) : o.from \in Tags(run)
    BY <2>1, OutputsAreTagged
  <2>3. \A n \in DOMAIN plan.variables : plan.variables[n][1] # "checkpoint"
    BY <2>1 DEF ControlInv, PlanSound, Planned, Listing, Groups
  <2>4. \A n \in DOMAIN objects : objects[n].group # "checkpoint"
    BY <2>3 DEF object
  <2>5. \A o \in Elements(objects) : o.group # "checkpoint"
    <3> HIDE DEF objects
    <3> QED  BY <2>4 DEF Elements
  <2> HIDE DEF objects, label
  <2> QED  BY <2>1, <2>2, <2>5, WriteKeepsSaves
<1>7. CASE FlushTables
  <2>1. pc \in Looping /\ Put(written(file, NewRows))
    BY <1>7 DEF FlushTables, Doing, NewRows
  <2>2. IsList(NewRows) /\ \A o \in Elements(NewRows) : o.from \in Tags(run) /\ o.group = "rows"
    BY <2>1, RowsAreTagged
  <2>3. Saves(written(file, NewRows))
          \subseteq Saves(file) \cup {o \in Elements(NewRows) : o.group = "checkpoint"}
    BY <1>0, <2>2, SavesWritten
  <2> QED  BY <2>1, <2>2, <2>3 DEF SavesKept
<1>8. CASE FlushFile \/ Exit
  <2>1. Put(flushed(file)) /\ Saves(flushed(file)) = Saves(file)
    BY <1>0, <1>8, SavesFlushed DEF FlushFile, Exit
  <2> QED  BY <2>1 DEF SavesKept
<1>9. CASE Kill
  BY <1>0, <1>9, KilledKeepsSaves DEF Kill
<1> HIDE DEF Looping, Open, Over
<1> QED
  BY <1>1, <1>2, <1>3, <1>4, <1>5, <1>6, <1>7, <1>8, <1>9, Zenon DEF Next, Names

LEMMA NoFileGainsSaves ==
    ASSUME SavesKept, plan.filename \in OnDisk
    PROVE  /\ OnDisk' = OnDisk
           /\ \A name \in OnDisk : Saves(files'[name]) \subseteq Saves(files[name])
<1>1. CASE files' = files
  BY <1>1 DEF OnDisk
<1>2. CASE \E new : Put(new) /\ Saves(new) \subseteq Saves(file)
  <2>1. PICK new : Put(new) /\ Saves(new) \subseteq Saves(file)
    BY <1>2
  <2>2. /\ DOMAIN files' = OnDisk \cup {plan.filename}
        /\ files'[plan.filename] = new
        /\ \A name \in OnDisk : name # plan.filename => files'[name] = files[name]
    BY <2>1, PutFile
  <2>3. OnDisk' = OnDisk
    BY <2>2 DEF OnDisk
  <2>4. Saves(files'[plan.filename]) \subseteq Saves(files[plan.filename])
    BY <2>1, <2>2 DEF file
  <2>5. ASSUME NEW name \in OnDisk PROVE Saves(files'[name]) \subseteq Saves(files[name])
    <3>1. CASE name = plan.filename
      BY <2>4, <3>1
    <3>2. CASE name # plan.filename
      <4>1. files'[name] = files[name]
        BY <2>2, <3>2
      <4> QED  BY <4>1
    <3> QED  BY <3>1, <3>2
  <2> QED  BY <2>3, <2>5
<1> QED  BY <1>1, <1>2 DEF SavesKept

\* A file with fewer checkpoints is as sound.
LEMMA FewerAreTimed ==
    ASSUME NEW f, NEW g, NEW step, Saves(g) \subseteq Saves(f), FileTimed(f, step)
    PROVE  FileTimed(g, step)
BY DEF FileTimed

LEMMA CreatedSavesNothing ==
    ASSUME ControlInv, CreateOutput
    PROVE  \E left : Put(left) /\ Saves(left) = {}
<1> DEFINE tables  == [n \in DOMAIN plan.tables |-> object("table", 0, plan.tables[n], from)]
           objects == gridMeta \o tables
           left    == written(created(run), objects)
<1>1. pc = "built" /\ run \in Nat
  BY DEF CreateOutput, ControlInv
<1>2. IsList(objects) /\ \A o \in Elements(objects) : o.from \in Tags(run) /\ o.group # "checkpoint"
  BY <1>1, CreatedObjects
<1> HIDE DEF objects
<1>3. FileSound(created(run)) /\ created(run).owner = run /\ Saves(created(run)) = {}
  BY <1>1, CreatedIsSound DEF created, Saves, Objects
<1>4. FileSound(left) /\ Saves(left) = {}
  <2>1. FileSound(left)
    BY <1>2, <1>3, WrittenGrows DEF Grown
  <2>2. Saves(left) \subseteq Saves(created(run)) \cup {o \in Elements(objects) : o.group = "checkpoint"}
    BY <1>2, <1>3, SavesWritten
  <2> HIDE DEF left
  <2> QED  BY <1>2, <1>3, <2>1, <2>2
<1>5. \/ Put(left)
      \/ Put(flushed(left))
  BY Zenon DEF CreateOutput, Fatal, objects
<1> HIDE DEF left
<1>6. Saves(flushed(left)) = {}
  BY <1>4, SavesFlushed
<1> QED  BY <1>4, <1>5, <1>6

\* The objects of a checkpoint written from one tag.
LEMMA CheckpointIsOfOneTag ==
    ASSUME ControlInv, WorkInv, pc \in Looping, NEW step, LiveInv(step), NEW label, NEW header \in Nat
    PROVE  LET headed  == [part \in DOMAIN state |-> [state[part] EXCEPT !.t = header]]
               objects == checkpointOf(mods, headed, label)
           IN /\ IsList(objects) /\ \A o \in Elements(objects) : o.from \in Tags(run)
              /\ \A o \in Elements(objects) :
                    /\ o.group = "checkpoint" /\ o.label = label /\ o.part \in Parts(mods)
                    /\ o.from = [state["t"] EXCEPT !.t = header]
<1> DEFINE headed  == [part \in DOMAIN state |-> [state[part] EXCEPT !.t = header]]
           parts   == checkpointParts(mods)
           new     == [state["t"] EXCEPT !.t = header]
           tag(part) == headed[IF part \in DOMAIN headed THEN part ELSE "t"]
           objects == [n \in DOMAIN parts |-> object("checkpoint", label, parts[n], tag(parts[n]))]
<1>1. IsList(checkpointOf(mods, headed, label))
      /\ \A o \in Elements(checkpointOf(mods, headed, label)) : o.from \in Tags(run)
  BY CheckpointIsTagged
<1>2. "t" \in DOMAIN state /\ \A part \in DOMAIN state : state[part] = state["t"]
  BY DEF WorkInv, prognostic, LiveInv
<1>3. \A part \in DOMAIN headed : headed[part] = new
  BY <1>2
<1>4. DOMAIN headed = DOMAIN state
  OBVIOUS
<1>5. checkpointOf(mods, headed, label) = objects
  BY DEF checkpointOf
<1> HIDE DEF headed, new
<1>6. \A part : tag(part) = new
  BY <1>2, <1>3, <1>4
<1> HIDE DEF tag
<1>7. \A n \in DOMAIN objects : /\ objects[n].group = "checkpoint" /\ objects[n].label = label
                                /\ objects[n].part = parts[n] /\ objects[n].from = new
  BY <1>6 DEF object
<1>8. DOMAIN objects = DOMAIN parts
  OBVIOUS
<1>9. \A n \in DOMAIN parts : parts[n] \in Parts(mods)
  BY DEF Parts
<1> HIDE DEF objects, parts
<1>10. \A o \in Elements(objects) :
          /\ o.group = "checkpoint" /\ o.label = label /\ o.part \in Parts(mods) /\ o.from = new
  <2> SUFFICES ASSUME NEW o \in Elements(objects)
               PROVE  o.group = "checkpoint" /\ o.label = label /\ o.part \in Parts(mods) /\ o.from = new
    OBVIOUS
  <2>1. PICK n \in DOMAIN objects : o = objects[n]
    BY DEF Elements
  <2> QED  BY <1>7, <1>8, <1>9, <2>1
<1> QED  BY <1>1, <1>5, <1>10 DEF headed, new

\* A checkpoint stands where it should, and apart from those of other labels.
LEMMA WrittenIsPlaced ==
    ASSUME ControlInv, WorkInv, pc \in Looping, NEW step \in Nat \ {0}, LiveInv(step),
           NEW label \in Nat, Writable(label, step), timeKeyed(label), NEW header,
           header = IF surfaceLoop THEN label ELSE clock,
           NEW o, o.label = label, o.part \in Parts(mods), o.from = [state["t"] EXCEPT !.t = header]
    PROVE  Placed(o, step)
<1> DEFINE tag == state["t"]
<1>1. tag \in Tags(run) /\ clock \in Nat /\ mods.groundwater \in BOOLEAN
  <2>1. "t" \in DOMAIN state
    BY DEF WorkInv, prognostic
  <2>2. plan.mods["groundwater"] \in BOOLEAN
    BY DEF ControlInv, PlanSound, Planned, Open
  <2> QED  BY <2>1, <2>2 DEF WorkInv, mods
<1>2. o.from.at = tag.at /\ o.from.t = header /\ tag.at \in Nat
  BY <1>1 DEF Tags
<1>3. /\ Near(tag.at, label, step)
      /\ mods.groundwater /\ 2 * step < Second => clock - label \in 0..step - 1
      /\ mods.groundwater => tag.at = clock
  BY DEF Writable, LiveInv
<1> HIDE DEF tag
<1>4. CASE mods.groundwater
  <2>1. header = clock
    BY <1>4 DEF surfaceLoop
  <2>2. Near(tag.at, clock, step)
    BY <1>1, <1>3, <1>4 DEF Near
  <2> QED  BY <1>2, <1>3, <1>4, <2>1, <2>2 DEF Placed
<1>5. CASE ~mods.groundwater
  <2>1. header = label
    BY <1>5 DEF surfaceLoop
  <2>2. o.part # "scalar_dtg"
    BY <1>5, StepLengthIsOfSoil
  <2>3. label - label \in 0..step - 1
    OBVIOUS
  <2> QED  BY <1>2, <1>3, <2>1, <2>2, <2>3 DEF Placed
<1> QED  BY <1>1, <1>4, <1>5

LEMMA CheckpointTimed ==
    ASSUME ControlInv, WorkInv, DiskInv, NEW step \in Nat \ {0}, TimedInv(step), WriteCheckpoint
    PROVE  LET label == Head(agenda).label
           IN /\ label \in Nat /\ label \in Labels(agenda)
              /\ \E new : /\ Put(new) /\ FileTimed(new, step)
                          /\ \A o \in Saves(new) : o \in Saves(file) \/ o.label = label
<1> DEFINE label   == Head(agenda).label
           header  == IF surfaceLoop THEN label ELSE clock
           headed  == [part \in DOMAIN state |-> [state[part] EXCEPT !.t = header]]
           tag     == [state["t"] EXCEPT !.t = header]
           objects == checkpointOf(mods, headed, label)
           left    == written(file, objects)
<1>1. pc \in Looping /\ agenda # <<>> /\ Head(agenda).do = "checkpoint" /\ Write(objects, label, header)
  BY DEF WriteCheckpoint, Doing, Looping
<1>2. /\ agenda \in Seq(Tasks) /\ clock \in Nat /\ LiveInv(step) /\ PendingInv(step)
  BY <1>1 DEF WorkInv, TimedInv, LoopTimed
<1>3. label \in Nat /\ label \in Labels(agenda)
  <2>1. Head(agenda) \in Tasks
    BY <1>1, <1>2
  <2> QED  BY <1>1, <1>2, <2>1, LabelsOfTail DEF Tasks, PendingInv
<1>4. Writable(label, step)
  BY <1>2, <1>3 DEF PendingInv
<1>5. FileSound(file) /\ file.owner = run /\ plan.filename \in OnDisk /\ pc \in Open
  BY <1>1, FileOpen DEF Open
<1>6. FileTimed(file, step)
  BY <1>5 DEF TimedInv, FilesTimed, file
<1> HIDE DEF label
<1>7. header \in Nat
  BY <1>2, <1>3
<1>8. header = IF surfaceLoop THEN label ELSE clock
  OBVIOUS
<1> HIDE DEF header
<1>9. /\ IsList(objects) /\ \A o \in Elements(objects) : o.from \in Tags(run)
      /\ \A o \in Elements(objects) :
            /\ o.group = "checkpoint" /\ o.label = label /\ o.part \in Parts(mods)
            /\ o.from = tag
  BY <1>1, <1>2, <1>7, CheckpointIsOfOneTag
<1>10. Saves(left) \subseteq Saves(file) \cup Elements(objects) /\ FileSound(left)
  <2> HIDE DEF objects
  <2>1. Saves(left) \subseteq Saves(file) \cup {o \in Elements(objects) : o.group = "checkpoint"}
    BY <1>5, <1>9, SavesWritten
  <2>2. FileSound(left)
    BY <1>5, <1>9, WrittenGrows DEF Grown
  <2> HIDE DEF left
  <2> QED  BY <2>1, <2>2
<1>11. CASE timeKeyed(label)
  <2> HIDE DEF objects, left
  <2>1. \A o \in Saves(left) : o \in Saves(file) \/ (o.label = label /\ o.from = tag)
    BY <1>9, <1>10
  <2>2. \A o \in Saves(file) : o.label # label
    BY <1>4 DEF Writable
  <2>3. \A o \in Elements(objects) : Placed(o, step)
    BY <1>1, <1>2, <1>3, <1>4, <1>8, <1>9, <1>11, WrittenIsPlaced
  <2>4. \A o \in Saves(left) : Placed(o, step)
    BY <1>6, <1>10, <2>3 DEF FileTimed
  <2>5. ASSUME NEW o1 \in Saves(left), NEW o2 \in Saves(left), o1.label = o2.label
        PROVE  o1.from = o2.from
    <3>1. CASE o1 \in Saves(file) /\ o2 \in Saves(file)
      BY <1>6, <2>5, <3>1 DEF FileTimed
    <3>2. CASE o1 \notin Saves(file) \/ o2 \notin Saves(file)
      BY <2>1, <2>2, <2>5, <3>2
    <3> QED  BY <3>1, <3>2
  <2>6. FileTimed(left, step)
    BY <2>4, <2>5 DEF FileTimed
  <2>7. \/ Put(left)
        \/ Put(flushed(left))
    <3>1. \/ Put(left)
          \/ Fatal("dataset-exists", left)
      BY <1>1, <1>11, Zenon DEF Write, left
    <3> QED  BY <3>1 DEF Fatal
  <2>8. Saves(flushed(left)) = Saves(left)
    BY <1>10, SavesFlushed
  <2>9. FileTimed(flushed(left), step)
    BY <2>6, <2>8 DEF FileTimed
  <2>10. \A o \in Saves(left) : o \in Saves(file) \/ o.label = label
    BY <2>1
  <2>11. \A o \in Saves(flushed(left)) : o \in Saves(file) \/ o.label = label
    BY <2>8, <2>10
  <2>12. CASE Put(left)
    BY <1>3, <2>6, <2>10, <2>12 DEF label
  <2>13. CASE Put(flushed(left))
    BY <1>3, <2>9, <2>11, <2>13 DEF label
  <2> QED  BY <2>7, <2>12, <2>13
<1>12. CASE ~timeKeyed(label)
  <2>0. objects # <<>>
    <3>1. DOMAIN objects = DOMAIN checkpointParts(mods)
      BY DEF checkpointOf
    <3>2. \E n \in DOMAIN checkpointParts(mods) : checkpointParts(mods)[n] = "t"
      BY PrognosticIsRead DEF Parts
    <3> HIDE DEF objects
    <3> QED  BY <3>1, <3>2
  <2> HIDE DEF objects, left
  <2>1. Fatal("time-key", file)
    BY <1>1, <1>12, <2>0, Zenon DEF Write
  <2>2. Saves(flushed(file)) = Saves(file)
    BY <1>5, SavesFlushed
  <2>3. FileTimed(flushed(file), step)
    BY <1>6, <2>2 DEF FileTimed
  <2>4. Put(flushed(file))
    BY <2>1 DEF Fatal
  <2> QED  BY <1>3, <2>2, <2>3, <2>4 DEF label
<1> QED  BY <1>11, <1>12

LEMMA FewerDocuments ==
    ASSUME ControlInv, chain # <<>>
    PROVE  doc \in Elements(chain) /\ Elements(Tail(chain)) \subseteq Elements(chain)
<1>1. /\ chain \in Seq(AllDocuments) /\ Len(chain) \in Nat /\ DOMAIN chain = 1..Len(chain)
      /\ 1 \in DOMAIN chain /\ doc = chain[1]
  BY DEF ControlInv, doc
<1>2. /\ DOMAIN Tail(chain) = 1..(Len(chain) - 1)
      /\ \A n \in DOMAIN Tail(chain) : Tail(chain)[n] = chain[n + 1] /\ n + 1 \in DOMAIN chain
  BY <1>1
<1> QED  BY <1>1, <1>2 DEF Elements

LEMMA PlansStep ==
    ASSUME ControlInv, WorkInv, DiskInv, NEW step, PlansTimed(step), [Next]_vars
    PROVE  PlansTimed(step)'
<1> USE DEF Early, Open, Over, Looping, Planned
<1>1. CASE Read \/ Report
  <2>1. /\ chain' = chain \/ (chain # <<>> /\ chain' = Tail(chain))
        /\ pc' \notin Planned
    BY <1>1 DEF Read, Report, ControlInv
  <2> QED  BY <2>1, FewerDocuments DEF PlansTimed, Elements
<1>2. CASE Build
  <2>1. chain # <<>> /\ chain' = Tail(chain) /\ validateRoot(doc, DataFiles \cup OnDisk)
    BY <1>2 DEF Build, ControlInv
  <2>2. \A document \in Elements(chain') : DocumentTimed(document, step)
    BY <2>1, FewerDocuments DEF PlansTimed
  <2>3. \/ plan' = planOf(loadConfig(doc), Len(chain) > 1)
        \/ pc' \notin Planned
    BY <1>2, Zenon DEF Build
  <2>4. PlanTimed(planOf(loadConfig(doc), TRUE), step)
    BY <2>1, FewerDocuments DEF PlansTimed, DocumentTimed
  <2>5. ASSUME NEW cfg, NEW live, PlanTimed(planOf(cfg, TRUE), step)
        PROVE  PlanTimed(planOf(cfg, live), step)
    <3> DEFINE p == planOf(cfg, TRUE)
               q == planOf(cfg, live)
    <3>1. /\ q.dt = p.dt /\ q.tEnd = p.tEnd /\ q.mods = p.mods /\ q.restart = p.restart
          /\ q.checkpointInterval = p.checkpointInterval
      BY DEF planOf
    <3>2. PlanTimed(p, step)
      BY <2>5
    <3> HIDE DEF p, q
    <3> QED  BY <3>1, <3>2 DEF PlanTimed, q
  <2>6. (PlanTimed(plan, step))' = PlanTimed(plan', step)
    BY DEF PlanTimed, timeKeyed
  <2> QED  BY <2>2, <2>3, <2>4, <2>5, <2>6 DEF PlansTimed
<1>3. CASE CreateOutput
  <2>1. pc = "built" /\ chain' = chain /\ (plan' = plan \/ pc' \notin Planned)
    BY <1>3, CreateOutputEffect DEF CreateOutput
  <2> QED  BY <2>1 DEF PlansTimed, PlanTimed, timeKeyed
<1>4. CASE Rerun
  BY <1>4 DEF Rerun, PlansTimed
<1>5. CASE pc \in Open
  <2>1. pc' \in Open \cup Over /\ (pc' \in Open => plan' = plan)
    BY <1>5, WorkFiles
  <2>2. chain' = chain
    BY <1>5, Zenon DEF Next, Read, Report, Build, CreateOutput, Begin, Step, EndLoop, Solve,
       RecordMonitors, WriteOutputs, WriteCheckpoint, FlushTables, FlushFile, WriteRecord,
       RenameRecord, Finalize, Exit, Kill, Rerun, vars
  <2>3. pc' \in Planned => pc' \in Open
    BY <2>1
  <2> QED  BY <1>5, <2>1, <2>2, <2>3 DEF PlansTimed, PlanTimed, timeKeyed
<1>6. CASE UNCHANGED vars
  BY <1>6 DEF vars, PlansTimed, PlanTimed, timeKeyed
<1>7. CASE pc \notin Open /\ ~(Read \/ Report \/ Build \/ CreateOutput \/ Rerun) /\ Next
  BY <1>7 DEF Next, Begin, Step, EndLoop, Solve, RecordMonitors, WriteOutputs, WriteCheckpoint,
       FlushTables, FlushFile, WriteRecord, RenameRecord, Finalize, Exit, Kill, Doing
<1> QED  BY <1>1, <1>2, <1>3, <1>4, <1>5, <1>6, <1>7

LEMMA NothingToPlace ==
    ASSUME NEW f, Saves(f) = {}, NEW step PROVE FileTimed(f, step)
BY DEF FileTimed

\* A file of an open run's name is replaced by one that is as sound.
LEMMA OneFileTimed ==
    ASSUME NEW new, Put(new), NEW step, FilesTimed(step), FileTimed(new, step)
    PROVE  FilesTimed(step)'
<1>1. /\ DOMAIN files' = OnDisk \cup {plan.filename}
      /\ files'[plan.filename] = new
      /\ \A name \in OnDisk : name # plan.filename => files'[name] = files[name]
  BY PutFile
<1>2. ASSUME NEW name \in DOMAIN files' PROVE FileTimed(files'[name], step)
  <2>1. CASE name = plan.filename
    BY <1>1, <2>1
  <2>2. CASE name # plan.filename
    BY <1>1, <2>2 DEF FilesTimed
  <2> QED  BY <2>1, <2>2
<1> QED  BY <1>2 DEF FilesTimed, OnDisk, FileTimed, Saves, Objects, Placed, timeKeyed, Near

LEMMA SameFilesTimed ==
    ASSUME NEW step, FilesTimed(step), files' = files PROVE FilesTimed(step)'
BY DEF FilesTimed, OnDisk, FileTimed, Saves, Objects, Placed, timeKeyed, Near

LEMMA FilesTimedStep ==
    ASSUME ControlInv, WorkInv, DiskInv, NEW step \in Nat \ {0}, TimedInv(step), [Next]_vars
    PROVE  FilesTimed(step)' /\ (pc = "opened" => Saves(file) = {})'
<1>0. FilesTimed(step) /\ (pc = "opened" => Saves(file) = {})
  BY DEF TimedInv
<1>1. CASE WriteCheckpoint
  <2>1. \E new : Put(new) /\ FileTimed(new, step)
    BY <1>1, CheckpointTimed, Zenon
  <2>2. pc \in Looping
    BY <1>1 DEF WriteCheckpoint, Doing, Looping
  <2>3. pc' # "opened"
    BY <1>1, <2>2, Zenon DEF WriteCheckpoint, Write, Fatal, Ended, Looping
  <2> QED  BY <1>0, <2>1, <2>3, OneFileTimed
<1>2. CASE CreateOutput
  <2>1. PICK new : Put(new) /\ Saves(new) = {}
    BY <1>2, CreatedSavesNothing
  <2>2. FilesTimed(step)'
    BY <1>0, <2>1, NothingToPlace, OneFileTimed
  <2>3. pc' = "opened" => plan' = plan
    BY <1>2, CreateOutputEffect
  <2>4. files'[plan.filename] = new
    BY <2>1, PutFile
  <2> QED  BY <2>1, <2>2, <2>3, <2>4 DEF file, Saves, Objects
<1>3. CASE pc \in Open /\ Next /\ ~WriteCheckpoint
  <2>1. SavesKept /\ plan.filename \in OnDisk
    BY <1>3, SavesStep, FileOpen
  <2>2. /\ OnDisk' = OnDisk
        /\ \A name \in OnDisk : Saves(files'[name]) \subseteq Saves(files[name])
    BY <2>1, NoFileGainsSaves
  <2>3. \A name \in DOMAIN files' : FileTimed(files'[name], step)
    BY <1>0, <2>2, FewerAreTimed DEF FilesTimed, OnDisk
  <2>4. FilesTimed(step)'
    BY <2>3 DEF FilesTimed, OnDisk, FileTimed, Saves, Objects, Placed, timeKeyed, Near
  <2>5. pc' # "opened"
    <3>1. CASE Begin \/ Step \/ EndLoop \/ Finalize \/ Exit \/ Kill
      BY <3>1, Zenon DEF Begin, Step, EndLoop, Finalize, Exit, Kill, Fatal, Killed, Ended
    <3>2. CASE Solve("surface") \/ Solve("groundwater")
      BY <3>2, Zenon DEF Solve, Doing, Fatal, Ended
    <3>3. CASE RecordMonitors
      <4>1. pc \in Looping /\ plan.monitoring \in {"recorded", "unavailable", "unallocated"}
        BY <3>3 DEF RecordMonitors, Doing, Looping, ControlInv, PlanSound, Planned, Open
      <4> QED  BY <3>3, <4>1 DEF RecordMonitors, Looping, Fatal, Killed, Ended
    <3>4. CASE WriteOutputs
      BY <3>4, Zenon DEF WriteOutputs, Doing, Write, Fatal, Ended
    <3>5. CASE FlushTables \/ FlushFile \/ WriteRecord \/ RenameRecord
      BY <3>5 DEF FlushTables, FlushFile, WriteRecord, RenameRecord, Doing
    <3>6. CASE Read \/ Report \/ Build \/ CreateOutput \/ Rerun
      BY <1>3, <3>6 DEF Read, Report, Build, CreateOutput, Rerun, Open, Looping
    <3> QED  BY <1>3, <3>1, <3>2, <3>3, <3>4, <3>5, <3>6, Zenon DEF Next
  <2> QED  BY <2>4, <2>5
<1>4. CASE Read \/ Report \/ Build \/ Rerun
  <2>1. files' = files
    BY <1>4 DEF Read, Report, Build, Rerun, disk
  <2>2. pc' # "opened"
    BY <1>4, Zenon DEF Read, Report, Build, Rerun
  <2> QED  BY <1>0, <2>1, <2>2, SameFilesTimed
<1>5. CASE UNCHANGED vars
  <2>1. UNCHANGED <<files, pc, plan>>
    BY <1>5 DEF vars
  <2> QED  BY <1>0, <2>1, SameFilesTimed DEF file, Saves, Objects
<1>6. CASE pc \notin Open /\ ~(Read \/ Report \/ Build \/ CreateOutput \/ Rerun) /\ Next
  BY <1>6 DEF Next, Begin, Step, EndLoop, Solve, RecordMonitors, WriteOutputs, WriteCheckpoint,
       FlushTables, FlushFile, WriteRecord, RenameRecord, Finalize, Exit, Kill, Doing, Open, Looping
<1> QED  BY <1>1, <1>2, <1>3, <1>4, <1>5, <1>6

\* Operators that read no variable, of the next state.
LEMMA InTheNextState ==
    /\ Labels(agenda)' = Labels(agenda') /\ (Once(agenda))' = Once(agenda')
    /\ Saves(file)' = Saves(file')
    /\ \A x, y, step : (Near(x, y, step))' = Near(x, y, step)
BY DEF Labels, Once, Saves, Objects, Near

\* What the loop's numbers are.
LEMMA LoopNumbers ==
    ASSUME ControlInv, WorkInv, pc \in Looping
    PROVE  /\ clock \in Nat /\ start \in Nat /\ run \in Nat
           /\ state["t"] \in Tags(run) /\ state["t"].at \in Nat /\ "t" \in DOMAIN state
           /\ mods.groundwater \in BOOLEAN /\ plan.restart.enabled \in BOOLEAN
           /\ plan.tStart \in Nat /\ plan.tEnd \in Nat /\ plan.tStart < plan.tEnd
           /\ plan.checkpointInterval \in Nat /\ plan.restart.time \in Int
           /\ agenda \in Seq(Tasks)
<1>1. "t" \in DOMAIN state
  BY DEF WorkInv, prognostic
<1>2. plan.mods["groundwater"] \in BOOLEAN
  BY DEF ControlInv, PlanSound, Planned, Open
<1>3. state["t"] \in Tags(run)
  BY <1>1 DEF WorkInv
<1>4. state["t"].at \in Nat
  BY <1>3 DEF Tags
<1> QED
  BY <1>1, <1>2, <1>3, <1>4 DEF WorkInv, ControlInv, PlanSound, Planned, Open, mods, Seconds

\* A pass that neither moves the clock nor saves.
LEMMA LoopGoesOn ==
    ASSUME ControlInv, WorkInv, pc \in Looping, NEW step \in Nat \ {0}, LoopTimed(step),
           UNCHANGED <<pc, run, plan, clock, start, saved, state>>,
           Saves(file') \subseteq Saves(file), Labels(agenda') \subseteq Labels(agenda), Once(agenda')
    PROVE  LoopTimed(step)'
<1>1. LiveInv(step)'
  BY DEF LoopTimed, LiveInv, mods, Near, timeKeyed
<1>2. mods' = mods
  BY DEF mods
<1>3. \A label \in Labels(agenda) : Writable(label, step) => (Writable(label, step))'
  BY <1>2, InTheNextState DEF Writable, timeKeyed, Near
<1>4. \A label \in Labels(agenda) : DueInv(label, step) => (DueInv(label, step))'
  BY <1>2 DEF DueInv
<1>5. PendingInv(step)'
  BY <1>3, <1>4, InTheNextState DEF LoopTimed, PendingInv
<1>6. pc = "running" => SavedInv(step)'
  <2> SUFFICES ASSUME pc = "running" PROVE SavedInv(step)'
    OBVIOUS
  <2>1. SavedInv(step)
    BY DEF LoopTimed
  <2> QED  BY <1>2, <2>1, InTheNextState DEF SavedInv
<1> QED  BY <1>1, <1>5, <1>6 DEF LoopTimed

\* One pass: the state is new, and what is due is later than all that is saved.
LEMMA StepTimed ==
    ASSUME ControlInv, WorkInv, NEW step \in Nat \ {0}, PlanTimed(plan, step), LoopTimed(step), Step
    PROVE  LoopTimed(step)'
<1> DEFINE t    == clock + step
           tag  == [run |-> run, at |-> t, t |-> t]
           every == plan.checkpointInterval
<1>1. /\ pc = "running" /\ pc' = pc /\ pc \in Looping
      /\ UNCHANGED <<run, plan, files, start, saved>> /\ clock < plan.tEnd
      /\ clock' = t /\ state' = tagged(t)
  BY DEF Step, Looping, disk, PlanTimed
<1>2. /\ clock \in Nat /\ start \in Nat /\ plan.tEnd \in Nat /\ every \in Nat
      /\ mods.groundwater \in BOOLEAN
  BY <1>1, LoopNumbers
<1>3. /\ start <= clock /\ SavedInv(step)
  BY <1>1 DEF LoopTimed, LiveInv
<1>4. /\ mods' = mods /\ Saves(file)' = Saves(file)
  BY <1>1 DEF mods, Saves, Objects, file
<1>5. LiveInv(step)'
  <2>1. "t" \in prognostic
    BY DEF prognostic
  <2>2. state' = [part \in prognostic |-> tag]
    BY <1>1 DEF tagged
  <2>3. state'["t"] = tag /\ \A part \in DOMAIN state' : state'[part] = tag
    BY <2>1, <2>2
  <2>4. start < t /\ t < plan.tEnd + step /\ ~(start = t) /\ start <= t
    BY <1>1, <1>2, <1>3
  <2>5. tag.at = t /\ tag.t = t
    OBVIOUS
  <2> HIDE DEF tag, t
  <2> QED  BY <1>1, <1>4, <2>3, <2>4, <2>5 DEF LiveInv
<1>6. SavedInv(step)'
  <2>1. ~(start = t)
    BY <1>2, <1>3
  <2>2. saved # Never /\ mods.groundwater => saved + step <= t
    <3>1. saved # Never /\ mods.groundwater => saved \in Nat /\ (saved = clock \/ saved + step <= clock)
      BY <1>3 DEF SavedInv
    <3> QED  BY <1>2, <3>1
  <2>3. saved # Never /\ ~mods.groundwater => 2 * saved < 2 * t + step
    <3>1. saved # Never /\ ~mods.groundwater => saved \in Nat /\ 2 * saved < 2 * clock + step
      BY <1>3 DEF SavedInv
    <3> QED  BY <1>2, <3>1
  <2> HIDE DEF t
  <2> QED  BY <1>1, <1>3, <1>4, <2>1, <2>2, <2>3 DEF SavedInv
<1>7. ASSUME NEW label \in Nat, every # 0,
             surfaceLoop => 2 * (t - label) < step /\ 2 * (label - t) < step,
             ~surfaceLoop => clock < label /\ label <= t,
             NEW n \in Nat, label = n * every
      PROVE  (Writable(label, step))' /\ (DueInv(label, step))'
  <2>1. state'["t"] = tag
    BY <1>1 DEF tagged, prognostic
  <2>2. Near(t, label, step)
    <3>1. CASE surfaceLoop
      BY <1>2, <1>7, <3>1 DEF Near
    <3>2. CASE ~surfaceLoop
      BY <1>2, <1>7, <3>2 DEF Near
    <3> QED  BY <3>1, <3>2
  <2>3. mods.groundwater => t - label \in 0..step - 1
    BY <1>2, <1>7 DEF surfaceLoop
  <2>4. CASE mods.groundwater
    <3>0. clock < label /\ label <= t /\ t - step < label /\ start < t
      BY <1>2, <1>3, <1>7, <2>4 DEF surfaceLoop
    <3>1. saved = Never \/ (saved \in Nat /\ saved + step <= t /\ saved <= clock)
      <4>1. saved = Never \/ (saved \in Nat /\ (saved = clock \/ saved + step <= clock))
        BY <1>3, <2>4 DEF SavedInv
      <4> QED  BY <1>2, <4>1
    <3>2. \A o \in Saves(file) : saved # Never /\ o.label <= saved
      BY <1>3, <2>4 DEF SavedInv
    <3>3. \A o \in Saves(file) : o.label # label
      BY <1>2, <3>0, <3>1, <3>2
    <3>4. (Writable(label, step))'
      <4> HIDE DEF t
      <4> QED  BY <1>1, <1>4, <2>1, <2>2, <2>3, <3>3 DEF Writable, Near
    <3>5. (DueInv(label, step))'
      <4>1. every > 0
        BY <1>2, <1>7
      <4> HIDE DEF t
      <4> QED  BY <1>1, <1>4, <2>4, <3>0, <3>1, <4>1 DEF DueInv
    <3> QED  BY <3>4, <3>5
  <2>5. CASE ~mods.groundwater
    <3>0. 2 * (t - label) < step /\ 2 * (label - t) < step /\ start < t
      BY <1>2, <1>3, <1>7, <2>5 DEF surfaceLoop
    <3>1. saved = Never \/ (saved \in Nat /\ saved + every <= label)
      <4>1. ASSUME saved # Never PROVE saved \in Nat /\ saved + every <= label
        <5>1. saved \in Nat /\ 2 * saved < 2 * clock + step
          BY <1>3, <2>5, <4>1 DEF SavedInv
        <5>2. PICK m \in Nat : saved = m * every
          BY <1>3, <2>5, <4>1 DEF SavedInv
        <5>3. saved < label
          BY <1>2, <3>0, <5>1
        <5>4. m * every < n * every /\ every \in Nat \ {0}
          BY <1>2, <1>7, <5>2, <5>3
        <5>5. m * every + every <= n * every
          BY <5>4, GrowingProduct
        <5> QED  BY <1>7, <5>1, <5>2, <5>5
      <4> QED  BY <4>1
    <3>2. \A o \in Saves(file) : saved # Never /\ (o.label = saved \/ o.label + every <= saved)
      BY <1>3, <2>5 DEF SavedInv
    <3>3. \A o \in Saves(file) : o.label # label
      <4>1. ASSUME NEW o \in Saves(file), o.label = label PROVE FALSE
        BY <1>2, <1>7, <3>1, <3>2, <4>1
      <4> QED  BY <4>1
    <3>4. (Writable(label, step))'
      <4> HIDE DEF t
      <4> QED  BY <1>1, <1>4, <2>1, <2>2, <2>3, <3>3 DEF Writable, Near
    <3>5. (DueInv(label, step))'
      <4>1. every > 0 /\ 2 * label < 2 * t + step /\ 2 * t < 2 * label + step
        BY <1>2, <1>7, <3>0
      <4> HIDE DEF t
      <4> QED  BY <1>1, <1>4, <1>7, <2>5, <3>0, <3>1, <4>1 DEF DueInv
    <3> QED  BY <3>4, <3>5
  <2> QED  BY <1>2, <2>4, <2>5
<1>8. Once(agenda') /\ \A label \in Labels(agenda') : (Writable(label, step))' /\ (DueInv(label, step))'
  <2>1. PICK solved, outputs, saves \in Seq(Tasks) :
           /\ \A n \in DOMAIN solved : solved[n].do \in {"surface", "groundwater", "monitors"}
           /\ \A n \in DOMAIN outputs : outputs[n].do = "outputs"
           /\ \A n \in DOMAIN saves : saves[n].do \in {"checkpoint", "flush"}
           /\ saves = SavesDue
           /\ \/ agenda' = solved \o saves
              \/ agenda' = solved \o (outputs \o flushing) \o saves
    BY StepAgenda, Zenon
  <2> DEFINE front == IF agenda' = solved \o saves THEN solved ELSE solved \o (outputs \o flushing)
             svs   == due("checkpoint", clock, t, every)
  <2>2. front \in Seq(Tasks) /\ Avoids(front, "checkpoint") /\ agenda' = front \o saves
    <3>1. Avoids(solved, "checkpoint") /\ Avoids(outputs, "checkpoint")
      BY <2>1 DEF Avoids
    <3>2. flushing \in Seq(Tasks) /\ Avoids(flushing, "checkpoint")
      BY FlushingIsListed, FlushingIsOrderly
    <3>3. outputs \o flushing \in Seq(Tasks) /\ Avoids(outputs \o flushing, "checkpoint")
      BY <3>1, <3>2, Joined, AvoidsTogether
    <3>4. solved \o (outputs \o flushing) \in Seq(Tasks)
          /\ Avoids(solved \o (outputs \o flushing), "checkpoint")
      BY <3>1, <3>3, Joined, AvoidsTogether
    <3> QED  BY <2>1, <3>1, <3>4
  <2> HIDE DEF front
  <2>3. saves = If(svs # <<>>, svs \o task("flush", 0))
    BY <1>1, <2>1 DEF SavesDue, PlanTimed
  <2>4. \/ svs = <<>>
        \/ /\ every # 0
           /\ \E label, n \in Nat :
                 /\ svs = task("checkpoint", label) /\ label = n * every
                 /\ surfaceLoop => 2 * (t - label) < step /\ 2 * (label - t) < step
                 /\ ~surfaceLoop => clock < label /\ label <= t
    <3>1. t \in Nat /\ plan.dt = step
      BY <1>2 DEF PlanTimed
    <3>4. pc \in Looping /\ clock \in Nat /\ start \in Nat /\ every \in Nat
      BY <1>1, <1>2
    <3> DEFINE what == "checkpoint"
    <3> HIDE DEF t, every, what
    <3>2. DueAt(due(what, clock, t, every), what, clock, t, every)
      BY <3>1, <3>4, DueLabel
    <3>3. DueAt(svs, "checkpoint", clock, t, every)
      BY <3>2 DEF what
    <3> HIDE DEF svs
    <3> QED  BY <3>1, <3>3, Zenon DEF DueAt
  <2>5. CASE svs = <<>>
    <3>1. saves = <<>>
      BY <2>3, <2>5, Zenon DEF If
    <3>2. Avoids(saves, "checkpoint")
      BY <3>1 DEF Avoids
    <3>3. Avoids(front \o saves, "checkpoint")
      BY <2>1, <2>2, <3>2, AvoidsTogether
    <3> QED  BY <2>2, <3>3, NoLabels
  <2>6. CASE svs # <<>>
    <3>1. PICK label, n \in Nat :
             /\ svs = task("checkpoint", label) /\ label = n * every
             /\ surfaceLoop => 2 * (t - label) < step /\ 2 * (label - t) < step
             /\ ~surfaceLoop => clock < label /\ label <= t
      BY <2>4, <2>6
    <3>2. every # 0
      BY <2>4, <2>6
    <3> DEFINE one == task("checkpoint", label)
               then == task("flush", 0)
    <3>3. saves = one \o then
      BY <2>3, <2>6, <3>1, Zenon DEF If
    <3>4. one \in Seq(Tasks) /\ then \in Seq(Tasks) /\ Avoids(then, "checkpoint")
      <4>1. "checkpoint" \in Doings /\ "flush" \in Doings /\ 0 \in Nat
        BY DEF Doings
      <4>2. one \in Seq(Tasks) /\ then \in Seq(Tasks)
        BY <4>1, OneTask
      <4>3. DOMAIN then = {1} /\ then[1].do = "flush"
        BY DEF task
      <4> HIDE DEF one, then
      <4> QED  BY <4>2, <4>3 DEF Avoids
    <3>5. Labels(one) = {label} /\ Once(one)
      BY TheLabel
    <3> HIDE DEF one, then
    <3>6. Labels(saves) = {label} /\ Once(saves)
      BY <3>3, <3>4, <3>5, LabelsTogether
    <3>7. Labels(front \o saves) = {label} /\ Once(front \o saves)
      BY <2>1, <2>2, <3>6, LabelsTogether
    <3>8. (Writable(label, step))' /\ (DueInv(label, step))'
      BY <1>7, <3>1, <3>2
    <3> QED  BY <2>2, <3>7, <3>8
  <2> QED  BY <2>5, <2>6
<1>9. PendingInv(step)'
  BY <1>1, <1>8, InTheNextState DEF PendingInv
<1> QED  BY <1>1, <1>5, <1>6, <1>9 DEF LoopTimed

\* The label of the last checkpoint of an adaptive loop: within a step of the
\* state, and after the last checkpoint but one.
LEMMA LastAdaptiveIsWritable ==
    ASSUME ControlInv, WorkInv, NEW step \in Nat \ {0}, PlanTimed(plan, step), pc = "running",
           LiveInv(step), SavedInv(step), mods.groundwater, clock >= plan.tEnd, saved # clock
    PROVE  Writable(NearestSecond(clock), step)
<1> DEFINE label == NearestSecond(clock)
           asked == plan.restart.time
           at    == state["t"].at
<1>1. /\ clock \in Nat /\ start \in Nat /\ plan.tEnd \in Nat /\ asked \in Int
      /\ plan.restart.enabled \in BOOLEAN /\ Second \in Nat \ {0}
  BY LoopNumbers, SecondAssumption DEF Looping
<1>2. label \in Nat /\ 2 * (label - clock) <= Second /\ 2 * (clock - label) < Second
  BY <1>1, NearestIsNear
<1>3. at = clock /\ start <= clock
  BY DEF LiveInv
<1>4. 2 * step < Second => clock - label \in 0..step - 1
  <2> SUFFICES ASSUME 2 * step < Second PROVE clock - label \in 0..step - 1
    OBVIOUS
  <2>1. ASSUME NEW whole \in Int, timeKeyed(whole), clock - whole \in 0..step - 1
        PROVE  clock - label \in 0..step - 1
    <3>1. whole <= clock /\ 2 * (clock - whole) < Second
      BY <1>1, <2>1
    <3>2. label = whole
      BY <1>1, <2>1, <3>1, NearestIsTold
    <3> HIDE DEF label
    <3> QED  BY <2>1, <3>2
  <2> HIDE DEF label
  <2>2. CASE start < clock
    <3>1. timeKeyed(plan.tEnd)
      BY <1>1 DEF PlanTimed
    <3>2. clock < plan.tEnd + step
      BY <2>2 DEF LiveInv
    <3>3. clock - plan.tEnd \in 0..step - 1
      BY <1>1, <3>2
    <3> QED  BY <1>1, <2>1, <3>1, <3>3
  <2>3. CASE start = clock
    <3>1. plan.restart.enabled
      BY <1>1, <2>3 DEF LiveInv
    <3>2. timeKeyed(asked) /\ clock - asked \in 0..step - 1
      BY <2>3, <3>1 DEF LiveInv
    <3> HIDE DEF asked
    <3> QED  BY <1>1, <2>1, <3>2
  <2> QED  BY <1>1, <1>3, <2>2, <2>3
<1> HIDE DEF label, at
<1>5. clock - label < step /\ label - clock <= step
  <2>1. CASE 2 * step < Second
    BY <1>1, <1>2, <1>4, <2>1
  <2>2. CASE ~(2 * step < Second)
    BY <1>1, <1>2, <2>2
  <2> QED  BY <2>1, <2>2
<1>6. Near(at, label, step)
  BY <1>1, <1>2, <1>3, <1>5 DEF Near
<1>7. \A o \in Saves(file) : o.label # label
  <2> SUFFICES ASSUME NEW o \in Saves(file), o.label = label PROVE FALSE
    OBVIOUS
  <2>1. saved # Never /\ label <= saved
    BY DEF SavedInv
  <2>2. saved \in Nat /\ saved + step <= clock
    BY <2>1 DEF SavedInv
  <2> QED  BY <1>1, <1>2, <1>5, <2>1, <2>2
<1> QED  BY <1>4, <1>6, <1>7 DEF Writable, label, at

\* That of a surface run: the end of the run, which the interval has not saved.
LEMMA LastSurfaceIsWritable ==
    ASSUME ControlInv, WorkInv, NEW step \in Nat \ {0}, PlanTimed(plan, step), pc = "running",
           LiveInv(step), SavedInv(step), ~mods.groundwater, clock >= plan.tEnd,
           saved # plan.tEnd, plan.checkpointInterval > 0
    PROVE  Writable(plan.tEnd, step)
<1> DEFINE label == plan.tEnd
           asked == plan.restart.time
           at    == state["t"].at
           every == plan.checkpointInterval
<1>1. /\ clock \in Nat /\ start \in Nat /\ label \in Nat /\ asked \in Int /\ at \in Nat
      /\ plan.restart.enabled \in BOOLEAN /\ every \in Nat /\ start <= clock /\ clock >= label
      /\ every > 0
  BY LoopNumbers DEF Looping, LiveInv
<1>2. 2 * step <= every /\ (plan.restart.enabled => asked <= label)
  <2>1. every # 0
    BY <1>1
  <2>2. every = 0 \/ 2 * step <= every
    BY DEF PlanTimed, mods
  <2>3. plan.restart.enabled => asked <= label
    BY DEF PlanTimed, mods
  <2> QED  BY <2>1, <2>2, <2>3
<1>3. Near(at, label, step)
  <2>1. CASE start < clock
    <3>1. at = clock /\ clock < label + step
      BY <2>1 DEF LiveInv
    <3> HIDE DEF label, at
    <3> QED  BY <1>1, <3>1 DEF Near
  <2>2. CASE start = clock
    <3>1. plan.restart.enabled
      BY <1>1, <2>2 DEF LiveInv
    <3>2. Near(at, asked, step) /\ Near(at, clock, step)
      BY <2>2, <3>1 DEF LiveInv
    <3> HIDE DEF label, at, asked
    <3> QED  BY <1>1, <1>2, <3>1, <3>2 DEF Near
  <2> QED  BY <1>1, <2>1, <2>2
<1>4. \A o \in Saves(file) : o.label # label
  <2> SUFFICES ASSUME NEW o \in Saves(file), o.label = label PROVE FALSE
    OBVIOUS
  <2>1. saved # Never /\ (label = saved \/ label + every <= saved)
    BY DEF SavedInv
  <2>2. saved \in Nat /\ 2 * saved < 2 * clock + step /\ ~(start = clock)
    BY <2>1 DEF SavedInv
  <2>3. clock < label + step
    BY <1>1, <2>2 DEF LiveInv
  <2>4. label # saved
    OBVIOUS
  <2> HIDE DEF label, every
  <2> QED  BY <1>1, <1>2, <2>1, <2>2, <2>3, <2>4
<1> QED  BY <1>3, <1>4 DEF Writable

\* The loop ends: what it adds to the list is one checkpoint at most.
LEMMA EndLoopTimed ==
    ASSUME ControlInv, WorkInv, NEW step \in Nat \ {0}, PlanTimed(plan, step), LoopTimed(step), EndLoop
    PROVE  LoopTimed(step)'
<1> DEFINE final == IF surfaceLoop THEN plan.tEnd ELSE clock
           label == IF surfaceLoop THEN plan.tEnd ELSE NearestSecond(clock)
           last  == plan.checkpointInterval > 0 /\ saved # final
           saves == If(last, task("checkpoint", label) \o task("flush", 0))
<1>1. /\ pc = "running" /\ pc' = "ending" /\ clock >= plan.tEnd /\ pc \in Looping
      /\ UNCHANGED <<run, plan, files, clock, start, saved, state>>
      /\ agenda' = saves \o flushing
  BY DEF EndLoop, Looping, disk
<1>2. LiveInv(step) /\ SavedInv(step) /\ clock \in Nat /\ plan.tEnd \in Nat /\ mods.groundwater \in BOOLEAN
  BY <1>1, LoopNumbers DEF LoopTimed
<1>3. mods' = mods /\ Saves(file)' = Saves(file)
  BY <1>1 DEF mods, Saves, Objects, file
<1>4. LiveInv(step)'
  BY <1>1, <1>2, <1>3 DEF LiveInv, Near, timeKeyed
<1>5. label \in Nat
  BY <1>2, NearestIsNear
<1>6. last => Writable(label, step)
  <2>1. CASE mods.groundwater
    <3>1. final = clock /\ label = NearestSecond(clock)
      BY <2>1 DEF surfaceLoop
    <3> QED  BY <1>1, <1>2, <2>1, <3>1, LastAdaptiveIsWritable
  <2>2. CASE ~mods.groundwater
    <3>1. final = plan.tEnd /\ label = plan.tEnd
      BY <2>2 DEF surfaceLoop
    <3> QED  BY <1>1, <1>2, <2>2, <3>1, LastSurfaceIsWritable
  <2> QED  BY <1>2, <2>1, <2>2
<1> HIDE DEF label, last
<1>7. \A l : Writable(l, step) => (Writable(l, step))'
  BY <1>1, <1>3, InTheNextState DEF Writable, timeKeyed
<1>8. flushing \in Seq(Tasks) /\ Avoids(flushing, "checkpoint")
  BY FlushingIsListed, FlushingIsOrderly
<1>9. /\ saves \in Seq(Tasks) /\ Once(saves)
      /\ Labels(saves) = IF last THEN {label} ELSE {}
  <2>1. CASE ~last
    <3>1. saves = <<>>
      BY <2>1, Zenon DEF If
    <3> HIDE DEF saves
    <3>2. Avoids(saves, "checkpoint") /\ saves \in Seq(Tasks)
      BY <3>1, NoTask DEF Avoids
    <3> QED  BY <2>1, <3>2, NoLabels
  <2>2. CASE last
    <3> DEFINE one  == task("checkpoint", label)
               then == task("flush", 0)
    <3>1. saves = one \o then
      BY <2>2, Zenon DEF If
    <3>2. one \in Seq(Tasks) /\ then \in Seq(Tasks) /\ Avoids(then, "checkpoint")
      <4>1. "checkpoint" \in Doings /\ "flush" \in Doings /\ 0 \in Nat
        BY DEF Doings
      <4>2. one \in Seq(Tasks) /\ then \in Seq(Tasks)
        BY <1>5, <4>1, OneTask
      <4>3. DOMAIN then = {1} /\ then[1].do = "flush"
        BY DEF task
      <4> HIDE DEF one, then
      <4> QED  BY <4>2, <4>3 DEF Avoids
    <3>3. Labels(one) = {label} /\ Once(one)
      BY <1>5, TheLabel
    <3> HIDE DEF one, then, saves
    <3>4. Labels(one \o then) = Labels(one) /\ Once(one \o then) /\ one \o then \in Seq(Tasks)
      BY <3>2, <3>3, LabelsTogether, Joined
    <3> QED  BY <2>2, <3>1, <3>3, <3>4
  <2> QED  BY <2>1, <2>2
<1> HIDE DEF saves
<1>10. Labels(saves \o flushing) = Labels(saves) /\ Once(saves \o flushing)
  BY <1>8, <1>9, LabelsTogether
<1>11. Once(agenda') /\ \A l \in Labels(agenda') : (Writable(l, step))'
  <2>1. \A l \in Labels(agenda') : last /\ l = label
    BY <1>1, <1>9, <1>10
  <2>2. Once(agenda')
    BY <1>1, <1>10
  <2>3. \A l \in Labels(agenda') : Writable(l, step)
    BY <1>6, <2>1
  <2> QED  BY <1>7, <2>2, <2>3
<1>12. PendingInv(step)'
  BY <1>1, <1>11, InTheNextState DEF PendingInv
<1> QED  BY <1>1, <1>4, <1>12 DEF LoopTimed

\* The next task of the list is done.
LEMMA DoneTimed ==
    ASSUME ControlInv, WorkInv, pc \in Looping, NEW step \in Nat \ {0}, LoopTimed(step),
           UNCHANGED <<pc, run, plan, clock, start, saved, state>>,
           Saves(file') \subseteq Saves(file),
           agenda # <<>>, agenda' = Tail(agenda)
    PROVE  LoopTimed(step)'
<1>1. agenda \in Seq(Tasks) /\ Once(agenda)
  BY DEF WorkInv, LoopTimed, PendingInv
<1>2. Labels(agenda') \subseteq Labels(agenda) /\ Once(agenda')
  BY <1>1, LabelsOfTail
<1> QED  BY <1>2, LoopGoesOn

LEMMA RecordTimed ==
    ASSUME ControlInv, WorkInv, NEW step \in Nat \ {0}, LoopTimed(step), WriteRecord
    PROVE  LoopTimed(step)'
<1>1. /\ pc \in Looping /\ agenda # <<>> /\ agenda' = task("rename", 0) \o Tail(agenda)
      /\ UNCHANGED <<pc, run, plan, files, clock, start, saved, state>>
  BY DEF WriteRecord, Doing, Looping
<1>2. agenda \in Seq(Tasks) /\ Once(agenda)
  BY <1>1 DEF WorkInv, LoopTimed, PendingInv
<1> DEFINE renaming == task("rename", 0)
           rest     == Tail(agenda)
<1>3. renaming \in Seq(Tasks) /\ Avoids(renaming, "checkpoint")
  <2>1. "rename" \in Doings /\ 0 \in Nat
    BY DEF Doings
  <2>2. renaming \in Seq(Tasks) /\ DOMAIN renaming = {1} /\ renaming[1].do = "rename"
    BY <2>1, OneTask
  <2> HIDE DEF renaming
  <2> QED  BY <2>2 DEF Avoids
<1>4. rest \in Seq(Tasks) /\ Labels(rest) \subseteq Labels(agenda) /\ Once(rest)
  BY <1>1, <1>2, LabelsOfTail
<1>5. agenda' = renaming \o rest
  BY <1>1
<1> HIDE DEF renaming, rest
<1>6. Labels(renaming \o rest) = Labels(rest) /\ Once(renaming \o rest)
  BY <1>3, <1>4, LabelsTogether
<1>7. Labels(agenda') \subseteq Labels(agenda) /\ Once(agenda')
  BY <1>4, <1>5, <1>6
<1>8. Saves(file') \subseteq Saves(file)
  BY <1>1 DEF file
<1> QED  BY <1>1, <1>7, <1>8, LoopGoesOn

LEMMA FinalizeTimed ==
    ASSUME ControlInv, WorkInv, NEW step \in Nat \ {0}, LoopTimed(step), Finalize
    PROVE  LoopTimed(step)'
<1>1. /\ pc = "ending" /\ pc' = "completed" /\ pc \in Looping /\ agenda' = task("record", 0)
      /\ UNCHANGED <<run, plan, clock, start, saved, state>>
  BY DEF Finalize, Looping
<1>2. LiveInv(step)'
  BY <1>1 DEF LoopTimed, LiveInv, mods, Near, timeKeyed
<1> DEFINE list == task("record", 0)
<1>3. Avoids(list, "checkpoint")
  <2>1. "record" \in Doings /\ 0 \in Nat
    BY DEF Doings
  <2>2. DOMAIN list = {1} /\ list[1].do = "record"
    BY <2>1, OneTask
  <2> HIDE DEF list
  <2> QED  BY <2>2 DEF Avoids
<1>4. agenda' = list
  BY <1>1
<1> HIDE DEF list
<1>5. Labels(agenda') = {} /\ Once(agenda')
  BY <1>3, <1>4, NoLabels
<1>6. PendingInv(step)'
  BY <1>5, InTheNextState DEF PendingInv
<1> QED  BY <1>1, <1>2, <1>6 DEF LoopTimed

\* A checkpoint is the last that was saved.
LEMMA SavedJustNow ==
    ASSUME ControlInv, WorkInv, pc = "running", NEW step \in Nat \ {0}, FileTimed(file, step),
           LiveInv(step), SavedInv(step), NEW label \in Nat, DueInv(label, step),
           UNCHANGED <<plan, clock, start>>,
           saved' = IF surfaceLoop THEN label ELSE clock,
           \A o \in Saves(file') : o \in Saves(file) \/ o.label = label
    PROVE  SavedInv(step)'
<1> DEFINE every == plan.checkpointInterval
<1>1. /\ clock \in Nat /\ every \in Nat /\ mods' = mods /\ mods.groundwater \in BOOLEAN
      /\ start < clock /\ Saves(file)' = Saves(file') /\ ~(start = clock) /\ start \in Nat
  BY LoopNumbers, InTheNextState DEF Looping, mods, DueInv
<1>2. \A o \in Saves(file) : o.label \in Nat /\ saved # Never /\ saved \in Nat
  BY DEF FileTimed, Placed, SavedInv
<1>3. CASE mods.groundwater
  <2>1. saved' = clock /\ label <= clock /\ (saved = Never \/ saved + step <= clock)
    BY <1>3 DEF DueInv, surfaceLoop
  <2>2. \A o \in Saves(file) : o.label <= saved
    BY <1>3 DEF SavedInv
  <2>3. \A o \in Saves(file) : o.label <= clock
    BY <1>1, <1>2, <2>1, <2>2
  <2>4. \A o \in Saves(file') : o.label <= clock
    BY <2>1, <2>3
  <2>5. clock # Never
    BY <1>1 DEF Never
  <2> QED  BY <1>1, <1>3, <2>1, <2>4, <2>5 DEF SavedInv
<1>4. CASE ~mods.groundwater
  <2>1. /\ saved' = label /\ (saved = Never \/ saved + every <= label)
        /\ \E n \in Nat : label = n * every
        /\ 2 * label < 2 * clock + step
    BY <1>4 DEF DueInv, surfaceLoop
  <2>2. \A o \in Saves(file) : o.label = saved \/ o.label + every <= saved
    BY <1>4 DEF SavedInv
  <2>3. \A o \in Saves(file) : o.label + every <= label
    BY <1>1, <1>2, <2>1, <2>2
  <2>4. \A o \in Saves(file') : o.label = label \/ o.label + every <= label
    BY <2>1, <2>3
  <2>5. label # Never
    BY DEF Never
  <2> QED  BY <1>1, <1>4, <2>1, <2>4, <2>5 DEF SavedInv
<1> QED  BY <1>1, <1>3, <1>4

LEMMA SaveTimed ==
    ASSUME ControlInv, WorkInv, DiskInv, NEW step \in Nat \ {0}, TimedInv(step), WriteCheckpoint
    PROVE  LoopTimed(step)'
<1> DEFINE label   == Head(agenda).label
           header  == IF surfaceLoop THEN label ELSE clock
           headed  == [part \in DOMAIN state |-> [state[part] EXCEPT !.t = header]]
           objects == checkpointOf(mods, headed, label)
<1>1. pc \in Looping /\ agenda # <<>> /\ Head(agenda).do = "checkpoint" /\ Write(objects, label, header)
      /\ run' = run
  BY DEF WriteCheckpoint, Doing, Looping
<1>2. /\ agenda \in Seq(Tasks) /\ LiveInv(step) /\ PendingInv(step) /\ Once(agenda)
      /\ pc = "running" => SavedInv(step)
  BY <1>1 DEF WorkInv, TimedInv, LoopTimed, PendingInv
<1>3. /\ label \in Nat /\ label \in Labels(agenda)
      /\ \E new : Put(new) /\ FileTimed(new, step)
                  /\ \A o \in Saves(new) : o \in Saves(file) \/ o.label = label
  BY CheckpointTimed
<1>4. \/ /\ Done /\ saved' = header
         /\ UNCHANGED <<pc, failure, plan, clock, start, state, rows, solvers>>
      \/ \E why, left : Fatal(why, left)
  BY <1>1, Zenon DEF Write
<1> HIDE DEF objects
<1>5. CASE \E why, left : Fatal(why, left)
  BY <1>5 DEF Fatal, Ended, LoopTimed, Looping
<1>6. CASE /\ Done /\ saved' = header
           /\ UNCHANGED <<pc, failure, plan, clock, start, state, rows, solvers>>
  <2>1. Labels(agenda') = {} /\ Once(agenda')
    <3>1. agenda' = Tail(agenda)
      BY <1>6 DEF Done
    <3> QED  BY <1>1, <1>2, <3>1, LabelsOfTail
  <2>2. LiveInv(step)'
    BY <1>1, <1>2, <1>6 DEF LiveInv, mods, Near, timeKeyed
  <2>3. PendingInv(step)'
    BY <2>1, InTheNextState DEF PendingInv
  <2>4. \A o \in Saves(file') : o \in Saves(file) \/ o.label = label
    <3>1. PICK new : Put(new) /\ \A o \in Saves(new) : o \in Saves(file) \/ o.label = label
      BY <1>3
    <3>2. file' = new
      BY <1>6, <3>1, PutFile DEF file
    <3> QED  BY <3>1, <3>2
  <2>5. CASE pc = "running"
    <3>1. DueInv(label, step)
      BY <1>2, <1>3, <2>5 DEF PendingInv
    <3>2. FileTimed(file, step)
      BY <1>1, FileOpen DEF TimedInv, FilesTimed, file, Open
    <3>3. UNCHANGED <<plan, clock, start>> /\ saved' = IF surfaceLoop THEN label ELSE clock
      BY <1>6
    <3> HIDE DEF label, header
    <3>4. SavedInv(step)'
      BY <1>2, <1>3, <2>4, <2>5, <3>1, <3>2, <3>3, SavedJustNow
    <3> QED  BY <2>2, <2>3, <3>4 DEF LoopTimed
  <2>6. CASE pc # "running"
    BY <1>6, <2>2, <2>3, <2>6 DEF LoopTimed
  <2> QED  BY <2>5, <2>6
<1> QED  BY <1>4, <1>5, <1>6

\* A checkpoint that is read whole is one tag, of the run that wrote the file
\* or of one before it.
LEMMA ReadIsOneTag ==
    ASSUME NEW f, FileSound(f), NEW step \in Nat \ {0}, FileTimed(f, step),
           NEW label, readable(f, label, mods)
    PROVE  \E tag \in Tags(f.owner) :
              /\ \A part \in prognostic : read(f, label, part) = tag
              /\ label \in Nat /\ timeKeyed(label)
              /\ Near(tag.at, label, step) /\ Near(tag.at, tag.t, step)
              /\ 2 * step < Second => tag.t - label \in 0..step - 1
              /\ mods.groundwater => tag.at = tag.t
              /\ Saves(f) # {}
<1>1. Parts(mods) \subseteq {o.part : o \in Saved(f, label)}
  BY DEF readable
<1>2. PICK whole \in Saved(f, label) : whole.part = "t"
  BY <1>1, PrognosticIsRead
<1>3. \A o \in Saved(f, label) : o \in Saves(f) /\ o.label = label /\ o \in Objects(f)
  BY DEF Saved, Saves
<1> DEFINE tag == whole.from
<1>4. \A o \in Saved(f, label) : o.from = tag
  BY <1>2, <1>3 DEF FileTimed
<1>5. ASSUME NEW part \in prognostic PROVE read(f, label, part) = tag
  <2>1. part \in {o.part : o \in Saved(f, label)}
    BY <1>1, PrognosticIsRead
  <2>2. PICK n \in DOMAIN f.objects : /\ f.objects[n] \in Saved(f, label) /\ f.objects[n].part = part
                                      /\ read(f, label, part) = f.objects[n].from
    BY <2>1, ReadIsWritten
  <2> QED  BY <1>4, <2>2
<1>6. mods.groundwater => tag.at = tag.t
  <2> SUFFICES ASSUME mods.groundwater PROVE tag.at = tag.t
    OBVIOUS
  <2>1. PICK o \in Saved(f, label) : o.part = "scalar_dtg"
    BY <1>1, PrognosticIsRead
  <2>2. Placed(o, step) /\ o.from = tag
    BY <1>3, <1>4 DEF FileTimed
  <2> QED  BY <2>1, <2>2 DEF Placed
<1>7. Placed(whole, step) /\ whole.label = label /\ tag \in Tags(f.owner) /\ Saves(f) # {}
  BY <1>2, <1>3 DEF FileTimed, FileSound
<1>8. /\ label \in Nat /\ timeKeyed(label)
      /\ Near(tag.at, label, step) /\ Near(tag.at, tag.t, step)
      /\ 2 * step < Second => tag.t - label \in 0..step - 1
  BY <1>7 DEF Placed
<1> HIDE DEF tag
<1> QED  BY <1>5, <1>6, <1>7, <1>8

LEMMA ResumedIsLive ==
    ASSUME ControlInv, DiskInv, pc = "opened", Saves(file) = {}, NEW step \in Nat \ {0},
           FilesTimed(step), plan.restart.enabled, plan.restart.file \in OnDisk,
           readable(files[plan.restart.file], plan.restart.time, mods),
           state' = restored(files[plan.restart.file], plan.restart.time, mods, tagged(plan.tStart)),
           clock' = state'["t"].t, start' = state'["t"].t,
           UNCHANGED <<plan, run>>
    PROVE  LiveInv(step)'
<1> DEFINE name   == plan.restart.file
           asked  == plan.restart.time
           source == files[name]
           new    == restored(source, asked, mods, tagged(plan.tStart))
<1>1. FileSound(source) /\ FileTimed(source, step) /\ run \in Nat
  BY DEF DiskInv, FilesTimed, ControlInv
<1>2. PICK tag \in Tags(source.owner) :
              /\ \A part \in prognostic : read(source, asked, part) = tag
              /\ asked \in Nat /\ timeKeyed(asked)
              /\ Near(tag.at, asked, step) /\ Near(tag.at, tag.t, step)
              /\ 2 * step < Second => tag.t - asked \in 0..step - 1
              /\ mods.groundwater => tag.at = tag.t
              /\ Saves(source) # {}
  <2> HIDE DEF source, asked
  <2>1. readable(source, asked, mods)
    BY DEF source, asked
  <2> QED  BY <1>1, <2>1, ReadIsOneTag
<1>3. tag.run < run
  <2>1. name # plan.filename
    BY <1>2 DEF file
  <2>2. source.owner < run /\ source.owner \in Nat
    BY <1>1, <2>1 DEF DiskInv, Open, FileSound
  <2>3. tag.run \in 0..source.owner
    BY <1>2 DEF Tags
  <2> HIDE DEF source
  <2> QED  BY <1>1, <2>2, <2>3
<1>4. \A part \in prognostic : new[part] = tag
  <2>1. DOMAIN tagged(plan.tStart) = prognostic
    BY DEF tagged
  <2>2. prognostic \subseteq Parts(mods) \cap {o.part : o \in Saved(source, asked)}
    BY PrognosticIsRead DEF readable
  <2>3. \A part \in prognostic : new[part] = read(source, asked, part)
    <3> HIDE DEF source, asked
    <3> QED  BY <2>1, <2>2 DEF restored
  <2> HIDE DEF new, source, asked
  <2> QED  BY <1>2, <2>3
<1>5. DOMAIN new = prognostic /\ "t" \in prognostic
  BY DEF restored, tagged, prognostic
<1>6. state' = new
  OBVIOUS
<1> HIDE DEF new, source
<1>7. /\ state'["t"] = tag /\ \A part \in DOMAIN state' : state'[part] = tag
      /\ clock' = tag.t /\ start' = tag.t
  BY <1>4, <1>5, <1>6
<1>8. tag.t \in Nat /\ mods' = mods
  BY <1>2 DEF Tags, mods
<1>9. ~(tag.t < tag.t) /\ tag.t <= tag.t
  BY <1>8
<1> QED  BY <1>2, <1>3, <1>7, <1>8, <1>9 DEF LiveInv, Near, timeKeyed

LEMMA BeginTimed ==
    ASSUME ControlInv, DiskInv, NEW step \in Nat \ {0}, TimedInv(step), Begin
    PROVE  LoopTimed(step)'
<1> DEFINE initial == tagged(plan.tStart)
           source  == files[plan.restart.file]
           new     == restored(source, plan.restart.time, mods, initial)
<1>1. /\ pc = "opened" /\ UNCHANGED run /\ Saves(file) = {} /\ FilesTimed(step)
      /\ saved = Never /\ agenda = <<>>
  BY DEF Begin, TimedInv, ControlInv, Looping, NotStarted
<1>2. \/ /\ ~plan.restart.enabled
         /\ state' = initial /\ clock' = plan.tStart /\ start' = plan.tStart
         /\ agenda' = task("outputs", plan.tStart) \o task("monitors", 0)
         /\ pc' = "running" /\ UNCHANGED <<files, plan, saved>>
      \/ /\ plan.restart.enabled
         /\ plan.restart.file \in OnDisk /\ readable(source, plan.restart.time, mods)
         /\ state' = new /\ clock' = state'["t"].t /\ start' = state'["t"].t
         /\ pc' = "running" /\ UNCHANGED <<files, plan, saved, agenda>>
      \/ Fatal("no-checkpoint", file)
  BY Zenon DEF Begin
<1>3. ASSUME LiveInv(step)', pc' = "running", UNCHANGED <<files, plan, saved>>,
             Avoids(agenda', "checkpoint")
      PROVE  LoopTimed(step)'
  <2>1. Labels(agenda') = {} /\ Once(agenda')
    BY <1>3, NoLabels
  <2>2. PendingInv(step)'
    BY <1>3, <2>1, InTheNextState DEF PendingInv
  <2>3. Saves(file)' = {} /\ saved' = Never
    BY <1>1, <1>3, InTheNextState DEF file
  <2>4. SavedInv(step)'
    BY <2>3 DEF SavedInv
  <2> QED  BY <1>3, <2>2, <2>4 DEF LoopTimed
<1>4. CASE /\ ~plan.restart.enabled
           /\ state' = initial /\ clock' = plan.tStart /\ start' = plan.tStart
           /\ agenda' = task("outputs", plan.tStart) \o task("monitors", 0)
           /\ pc' = "running" /\ UNCHANGED <<files, plan, saved>>
  <2> DEFINE tag == [run |-> run, at |-> plan.tStart, t |-> plan.tStart]
  <2>1. plan.tStart \in Nat /\ plan.tStart < plan.tEnd /\ plan.tEnd \in Nat
    BY <1>1 DEF ControlInv, PlanSound, Planned, Open, Seconds
  <2>2. "t" \in prognostic /\ initial = [part \in prognostic |-> tag]
    BY DEF prognostic, tagged
  <2>3. state'["t"] = tag /\ \A part \in DOMAIN state' : state'[part] = tag
    BY <1>4, <2>2
  <2>4. tag.at = plan.tStart /\ tag.t = plan.tStart
    OBVIOUS
  <2> HIDE DEF tag, initial
  <2>5. ~(plan.tStart < plan.tStart) /\ plan.tStart <= plan.tStart
    BY <2>1
  <2>6. LiveInv(step)'
    BY <1>4, <2>1, <2>3, <2>4, <2>5 DEF LiveInv
  <2>7. Avoids(agenda', "checkpoint")
    <3> DEFINE a == task("outputs", plan.tStart)
               b == task("monitors", 0)
    <3>1. "outputs" \in Doings /\ "monitors" \in Doings /\ 0 \in Nat
      BY DEF Doings
    <3>2. /\ a \in Seq(Tasks) /\ DOMAIN a = {1} /\ a[1].do = "outputs"
          /\ b \in Seq(Tasks) /\ DOMAIN b = {1} /\ b[1].do = "monitors"
      BY <2>1, <3>1, OneTask
    <3>3. agenda' = a \o b
      BY <1>4
    <3> HIDE DEF a, b
    <3>4. Avoids(a, "checkpoint") /\ Avoids(b, "checkpoint")
      BY <3>2 DEF Avoids
    <3>5. Avoids(a \o b, "checkpoint")
      BY <3>2, <3>4, AvoidsTogether
    <3> QED  BY <3>3, <3>5
  <2> QED  BY <1>3, <1>4, <2>6, <2>7
<1>5. CASE /\ plan.restart.enabled
           /\ plan.restart.file \in OnDisk /\ readable(source, plan.restart.time, mods)
           /\ state' = new /\ clock' = state'["t"].t /\ start' = state'["t"].t
           /\ pc' = "running" /\ UNCHANGED <<files, plan, saved, agenda>>
  <2>1. LiveInv(step)'
    BY <1>1, <1>5, ResumedIsLive
  <2>2. Avoids(agenda', "checkpoint")
    BY <1>1, <1>5 DEF Avoids
  <2> QED  BY <1>3, <1>5, <2>1, <2>2
<1>6. CASE Fatal("no-checkpoint", file)
  BY <1>6 DEF Fatal, Ended, LoopTimed, Looping
<1> QED  BY <1>2, <1>4, <1>5, <1>6

LEMMA OverTimed ==
    ASSUME NEW where \in {"failed", "killed", "done"}, NEW why, Ended(where, why), NEW step
    PROVE  LoopTimed(step)'
BY DEF Ended, LoopTimed, Looping

\* Every other step of the loop does a task that saves nothing.
LEMMA TaskTimed ==
    ASSUME ControlInv, WorkInv, DiskInv, NEW step \in Nat \ {0}, LoopTimed(step), Next,
           ~WriteCheckpoint, pc \in Looping, agenda # <<>>, Done,
           UNCHANGED <<pc, run, plan, clock, start, saved, state>>
    PROVE  LoopTimed(step)'
<1>1. SavesKept /\ plan.filename \in OnDisk
  BY SavesStep, FileOpen DEF Open
<1>2. Saves(file') \subseteq Saves(file)
  BY <1>1, NoFileGainsSaves DEF file
<1>3. agenda' = Tail(agenda)
  BY DEF Done
<1> QED  BY <1>2, <1>3, DoneTimed

LEMMA LoopTimedStep ==
    ASSUME ControlInv, WorkInv, DiskInv, NEW step \in Nat \ {0}, TimedInv(step), [Next]_vars
    PROVE  LoopTimed(step)'
<1>0. /\ LoopTimed(step)
      /\ pc \in Looping => PlanTimed(plan, step)
      /\ pc \in Looping => plan.monitoring \in {"recorded", "unavailable", "unallocated"}
  BY DEF TimedInv, PlansTimed, Planned, Open, ControlInv, PlanSound
<1>1. CASE Read \/ Report \/ Build \/ CreateOutput \/ Rerun
  <2>1. pc' \in {"rejected", "failed", "loaded", "reported", "built", "opened", "reading"}
    BY <1>1, Zenon DEF Read, Report, Build, CreateOutput, Rerun, Fatal, Ended
  <2> QED  BY <2>1 DEF LoopTimed, Looping
<1>2. CASE Begin
  BY <1>2, BeginTimed
<1>3. CASE Step
  BY <1>0, <1>3, StepTimed DEF Step, Looping
<1>4. CASE EndLoop
  BY <1>0, <1>4, EndLoopTimed DEF EndLoop, Looping
<1>5. CASE WriteCheckpoint
  BY <1>5, SaveTimed
<1>6. CASE WriteRecord
  BY <1>0, <1>6, RecordTimed
<1>7. CASE Finalize
  BY <1>0, <1>7, FinalizeTimed
<1>8. CASE Exit \/ Kill
  <2>1. \E where \in {"done", "killed"} : Ended(where, "none")
    BY <1>8, Zenon DEF Exit, Kill, Killed
  <2> QED  BY <2>1, OverTimed
<1>9. ASSUME NEW name \in Names, Solve(name), ~WriteCheckpoint, Next PROVE LoopTimed(step)'
  <2>1. pc \in Looping /\ agenda # <<>> /\ run' = run
    BY <1>9 DEF Solve, Doing, Looping
  <2>2. \/ Done /\ UNCHANGED <<pc, plan, clock, start, saved, state>>
        \/ \E why : Ended("failed", why)
    BY <1>9, Zenon DEF Solve, Fatal
  <2> QED  BY <1>0, <1>9, <2>1, <2>2, TaskTimed, OverTimed
<1>10. ASSUME RecordMonitors, ~WriteCheckpoint, Next PROVE LoopTimed(step)'
  <2>1. pc \in Looping /\ agenda # <<>> /\ run' = run
    BY <1>10 DEF RecordMonitors, Doing, Looping
  <2>2. CASE plan.monitoring = "recorded"
    <3>1. Done /\ UNCHANGED <<pc, plan, clock, start, saved, state>>
      BY <1>10, <2>2 DEF RecordMonitors
    <3> QED  BY <1>0, <1>10, <2>1, <3>1, TaskTimed
  <2>3. CASE plan.monitoring = "unavailable"
    BY <1>10, <2>3, OverTimed DEF RecordMonitors, Fatal
  <2>4. CASE plan.monitoring = "unallocated"
    BY <1>10, <2>4, OverTimed DEF RecordMonitors, Killed
  <2> QED  BY <1>0, <2>1, <2>2, <2>3, <2>4
<1>11. ASSUME WriteOutputs, ~WriteCheckpoint, Next PROVE LoopTimed(step)'
  <2>1. pc \in Looping /\ agenda # <<>> /\ run' = run
    BY <1>11 DEF WriteOutputs, Doing, Looping
  <2>2. \/ Done /\ UNCHANGED <<pc, plan, clock, start, saved, state>>
        \/ \E why : Ended("failed", why)
    BY <1>11, Zenon DEF WriteOutputs, Write, Fatal
  <2> QED  BY <1>0, <1>11, <2>1, <2>2, TaskTimed, OverTimed
<1>12. ASSUME FlushTables \/ FlushFile \/ RenameRecord, ~WriteCheckpoint, Next
       PROVE  LoopTimed(step)'
  <2>1. /\ pc \in Looping /\ agenda # <<>> /\ Done
        /\ UNCHANGED <<pc, run, plan, clock, start, saved, state>>
    BY <1>12 DEF FlushTables, FlushFile, RenameRecord, Doing, Looping
  <2> QED  BY <1>0, <1>12, <2>1, TaskTimed
<1>13. CASE UNCHANGED vars
  <2>1. /\ UNCHANGED <<pc, run, plan, clock, start, saved, state, agenda>>
        /\ Saves(file') \subseteq Saves(file)
    BY <1>13 DEF vars, file
  <2>2. CASE pc \in Looping
    BY <1>0, <2>1, <2>2, LoopGoesOn DEF LoopTimed, PendingInv
  <2>3. CASE pc \notin Looping
    BY <2>1, <2>3 DEF LoopTimed, Looping
  <2> QED  BY <2>2, <2>3
<1> QED
  BY <1>1, <1>2, <1>3, <1>4, <1>5, <1>6, <1>7, <1>8, <1>9, <1>10, <1>11, <1>12, <1>13, Zenon
  DEF Next, Names

LEMMA TimedStep ==
    ASSUME ControlInv, WorkInv, DiskInv, NEW step \in Nat \ {0}, TimedInv(step), [Next]_vars
    PROVE  TimedInv(step)'
<1>1. PlansTimed(step)'
  BY PlansStep DEF TimedInv
<1>2. FilesTimed(step)' /\ (pc = "opened" => Saves(file) = {})'
  BY FilesTimedStep
<1>3. LoopTimed(step)'
  BY LoopTimedStep
<1> QED  BY <1>1, <1>2, <1>3 DEF TimedInv

\* The steps of the runs are the same for the whole chain.
Timed == \E step \in Nat \ {0} : TimedInv(step)

LEMMA TimedInit ==
    ASSUME WellTimedChains, Init PROVE Timed
<1>1. chain \in Chains /\ pc = "reading" /\ files = Empty
  BY DEF Init
<1>2. PICK step \in Nat \ {0} : \A document \in Elements(chain) : DocumentTimed(document, step)
  BY <1>1 DEF WellTimedChains
<1>3. PlansTimed(step) /\ LoopTimed(step)
  BY <1>1, <1>2 DEF PlansTimed, LoopTimed, Planned, Open, Looping
<1>4. FilesTimed(step)
  BY <1>1 DEF FilesTimed, OnDisk, Empty
<1>5. TimedInv(step)
  BY <1>1, <1>3, <1>4 DEF TimedInv
<1> QED  BY <1>5 DEF Timed

LEMMA TimedRestoresWhole ==
    ASSUME ControlInv, WorkInv, Timed PROVE RestoredWhole
<1> SUFFICES ASSUME pc = "running", plan.restart.enabled, clock = start
             PROVE  \E tag \in {state[part] : part \in DOMAIN state} :
                       /\ \A part \in DOMAIN state : state[part] = tag
                       /\ tag.run < run
                       /\ tag.t = clock
                       /\ tag.at - plan.restart.time \in -plan.dt..plan.dt
  BY DEF RestoredWhole
<1>1. PICK step \in Nat \ {0} : TimedInv(step)
  BY DEF Timed
<1>2. LiveInv(step) /\ plan.dt = step
  BY <1>1 DEF TimedInv, LoopTimed, PlansTimed, PlanTimed, Planned, Open, Looping
<1>3. "t" \in DOMAIN state
  BY DEF WorkInv, prognostic, Looping
<1> DEFINE tag == state["t"]
<1>4. /\ tag \in {state[part] : part \in DOMAIN state}
      /\ \A part \in DOMAIN state : state[part] = tag
      /\ tag.run < run /\ tag.t = clock /\ Near(tag.at, plan.restart.time, step)
  BY <1>2, <1>3 DEF LiveInv
<1> HIDE DEF tag
<1> QED  BY <1>2, <1>4 DEF Near

\* A resumed run begins from one state of one earlier run, whole, computed
\* within a step of the time its document asks for: of any documents that are
\* run after each other with one step, whose adaptive runs end at a whole
\* second or step by half a second or more, and whose surface runs save at
\* intervals of two steps or more and do not resume past their end.  Without
\* that, the last checkpoint may be written over another and leave one of two
\* states.
THEOREM RestartIsWhole ==
    ASSUME WellTimedChains
    PROVE  Spec => []RestoredWhole
<1>1. Init => ControlInv /\ WorkInv /\ DiskInv /\ Timed
  BY ControlInit, WorkInit, DiskInit, TimedInit
<1>2. ControlInv /\ WorkInv /\ DiskInv /\ Timed /\ [Next]_vars
        => (ControlInv /\ WorkInv /\ DiskInv /\ Timed)'
  BY ControlStep, WorkStep, DiskStep, TimedStep DEF Timed
<1>3. ControlInv /\ WorkInv /\ DiskInv /\ Timed => RestoredWhole
  BY TimedRestoresWhole
<1> QED  BY <1>1, <1>2, <1>3, PTL DEF Spec
==============================================================================

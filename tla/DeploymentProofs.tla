-------------------------- MODULE DeploymentProofs --------------------------
(***************************************************************************)
(* Proofs about the deployment, for every number of ports and nodes, every *)
(* stream of keys, and all options.                                        *)
(***************************************************************************)
EXTENDS Deployment, FiniteSetTheorems, SequenceTheorems, TLAPS

-----------------------------------------------------------------------------
\* The inductive invariant.

\* Node i's file, and its entry in peers.yaml, as a generation with options o writes them.
LocalPorts(o, i) == PortsOf(o.build, o.port, i)
ConfigOf(o, i) ==
    IF mode = "docker"
    THEN NodeConfigYaml(o, i, o.port, o.metrics, Ok(<<Host(i), o.port>>))
    ELSE NodeConfigYaml(o, i, LocalPorts(o, i).port[1], LocalPorts(o, i).metrics[1], Absent)
EntryOf(o, i) ==
    [key |-> Identities(o.seed, o.nodes)[i + 1],
     address |-> IF mode = "docker" THEN <<Host(i), o.port>>
                 ELSE <<"127.0.0.1", LocalPorts(o, i).port[1]>>]

\* The file as it may be now: an operator may have changed two of its fields.
WithSizes(c, size, blocks) ==
    [key |-> c.key, port |-> c.port, metrics |-> c.metrics, dialable |-> c.dialable,
     role |-> c.role, signing |-> c.signing, public |-> c.public,
     strategy |-> c.strategy, blockSize |-> size, numBlocks |-> blocks]
FileOf(o, i, c) ==
    \E size, blocks :
        /\ c = WithSizes(ConfigOf(o, i), size, blocks)
        /\ ~edited => size = o.blockSize /\ blocks = o.numBlocks

\* The fresh files, and the nodes meant to be one network, are of the generation that wrote
\* peers.yaml; and Docker has no other files.
GeneratedWith(o) ==
    /\ o \in Options
    /\ peersFile = [k \in 1 .. o.nodes |-> EntryOf(o, k - 1)]
    /\ mode = "docker" => o.metrics # o.port /\ DOMAIN files \subseteq fresh
    /\ mode = "local" => \A i \in fresh : LocalPorts(o, i).metrics # Panic
    /\ \A i \in fresh : i \in 0 .. o.nodes - 1 /\ i \in DOMAIN files /\ FileOf(o, i, files[i])
    /\ \A i \in Meant :
          /\ i \in 0 .. o.nodes - 1
          /\ \E c : FileOf(o, i, c) /\ running[i] = NodeOf(i, c, peersFile)

DeployInv ==
    /\ mode \in {"local", "docker"}
    /\ \/ files = <<>> /\ fresh = {} /\ running = <<>>
       \/ \E o \in Options : GeneratedWith(o)

-----------------------------------------------------------------------------
\* Every step keeps it.

\* A file as it was written.
LEMMA FreshFile ==
    ASSUME NEW o \in Options, NEW i, edited' = FALSE, mode' = mode
    PROVE  FileOf(o, i, ConfigOf(o, i))'
<1>1. ConfigOf(o, i)' = WithSizes(ConfigOf(o, i)', o.blockSize, o.numBlocks)
      BY DEF ConfigOf, NodeConfigYaml, WithSizes
<1> QED BY <1>1 DEF FileOf

\* A step in which no file changes and no node starts, and a generation that panics before
\* it writes any.
LEMMA UntouchedStep ==
    ASSUME DeployInv, UNCHANGED <<mode, peersFile, files, edited, fresh>>,
           running' = running \/ running' = <<>>
    PROVE  DeployInv'
<1>1. CASE files = <<>> /\ fresh = {} /\ running = <<>>
      BY <1>1 DEF DeployInv
<1>2. ASSUME NEW o \in Options, GeneratedWith(o) PROVE GeneratedWith(o)'
  <2>1. \A j, c : FileOf(o, j, c)' <=> FileOf(o, j, c)
        BY DEF FileOf, ConfigOf
  <2>2. \A j, c : NodeOf(j, c, peersFile)' = NodeOf(j, c, peersFile)
        BY DEF NodeOf
  <2>3. peersFile' = [k \in 1 .. o.nodes |-> EntryOf(o, k - 1)']
        BY <1>2 DEF GeneratedWith, EntryOf
  <2>4. /\ mode' = "docker" => o.metrics # o.port /\ DOMAIN files' \subseteq fresh'
        /\ mode' = "local" => \A j \in fresh' : LocalPorts(o, j)'.metrics # Panic
        BY <1>2 DEF GeneratedWith, LocalPorts
  <2>5. \A j \in fresh' :
            j \in 0 .. o.nodes - 1 /\ j \in DOMAIN files' /\ FileOf(o, j, files[j])'
        BY <1>2, <2>1 DEF GeneratedWith
  <2>6. \A j \in Meant' :
            /\ j \in 0 .. o.nodes - 1
            /\ \E c : FileOf(o, j, c)' /\ running'[j] = NodeOf(j, c, peersFile)'
    <3>1. CASE running' = running
      <4> SUFFICES ASSUME NEW j \in Meant
                   PROVE  /\ j \in 0 .. o.nodes - 1
                          /\ \E c : FileOf(o, j, c)' /\ running[j] = NodeOf(j, c, peersFile)'
          BY <3>1 DEF Meant
      <4>1. PICK c : FileOf(o, j, c) /\ running[j] = NodeOf(j, c, peersFile)
            BY <1>2 DEF GeneratedWith
      <4>2. j \in 0 .. o.nodes - 1
            BY <1>2 DEF GeneratedWith
      <4> QED BY <2>1, <2>2, <4>1, <4>2
    <3>2. CASE running' = <<>>
          BY <3>2 DEF Meant
    <3> QED BY <3>1, <3>2
  <2> QED BY <2>3, <2>4, <2>5, <2>6 DEF GeneratedWith
<1> QED BY <1>1, <1>2 DEF DeployInv

LEMMA LocalStep ==
    ASSUME DeployInv, NEW o \in Options, mode = "local", running = <<>>,
           UNCHANGED <<mode, running>>, GenerateLocal(o)
    PROVE  DeployInv'
<1> DEFINE ports == [i \in 0 .. o.nodes - 1 |-> PortsOf(o.build, o.port, i)]
           written == {i \in DOMAIN ports : \A j \in 0 .. i : ports[j].metrics # Panic}
           new == [i \in written |->
                      NodeConfigYaml(o, i, ports[i].port[1], ports[i].metrics[1], Absent)]
<1>1. CASE UNCHANGED <<peersFile, files, edited, fresh>>
      BY <1>1, UntouchedStep
<1>2. CASE ~UNCHANGED <<peersFile, files, edited, fresh>>
  <2>1. /\ peersFile' = [k \in 1 .. o.nodes |->
                           [key |-> Identities(o.seed, o.nodes)[k],
                            address |-> <<"127.0.0.1", ports[k - 1].port[1]>>]]
        /\ files' = Over(new, files)
        /\ edited' = FALSE /\ fresh' = written
        BY <1>2 DEF GenerateLocal
  <2>2. \A k \in 1 .. o.nodes :
            [key |-> Identities(o.seed, o.nodes)[k],
             address |-> <<"127.0.0.1", ports[k - 1].port[1]>>] = EntryOf(o, k - 1)'
    <3> SUFFICES ASSUME NEW k \in 1 .. o.nodes
                 PROVE  [key |-> Identities(o.seed, o.nodes)[k],
                         address |-> <<"127.0.0.1", ports[k - 1].port[1]>>] = EntryOf(o, k - 1)'
        OBVIOUS
    <3>1. o.nodes \in Nat
          BY DeploymentAssumption DEF Options
    <3>2. k - 1 \in 0 .. o.nodes - 1 /\ (k - 1) + 1 = k
          BY <3>1
    <3> QED BY <3>2 DEF EntryOf, LocalPorts
  <2>3. peersFile' = [k \in 1 .. o.nodes |-> EntryOf(o, k - 1)']
        BY <2>1, <2>2
  <2>4. ASSUME NEW i \in fresh'
        PROVE  /\ LocalPorts(o, i).metrics # Panic /\ files'[i] = ConfigOf(o, i)'
               /\ i \in DOMAIN files' /\ i \in 0 .. o.nodes - 1
    <3>1. i \in written /\ i \in 0 .. o.nodes - 1 /\ o.nodes \in Nat
          BY <2>1, DeploymentAssumption DEF Options
    <3>2. i \in 0 .. i
          BY <3>1
    <3>3. ports[i].metrics # Panic /\ ports[i] = LocalPorts(o, i)
          BY <3>1, <3>2 DEF LocalPorts
    <3>4. files'[i] = new[i] /\ i \in DOMAIN files'
      <4> HIDE DEF new
      <4>1. i \in DOMAIN new
            BY <3>1 DEF new
      <4> QED BY <2>1, <4>1 DEF Over
    <3>5. new[i] = ConfigOf(o, i)'
          BY <3>1, <3>3 DEF ConfigOf
    <3> QED BY <3>1, <3>3, <3>4, <3>5
  <2>5. ASSUME NEW i \in fresh'
        PROVE  i \in 0 .. o.nodes - 1 /\ i \in DOMAIN files' /\ FileOf(o, i, files[i])'
    <3>1. FileOf(o, i, ConfigOf(o, i))'
          BY <2>1, FreshFile
    <3> QED BY <2>4, <3>1
  <2>6. GeneratedWith(o)'
    <3>1. Meant' = {} /\ mode' = "local"
          BY DEF Meant
    <3>2. \A i \in fresh' : LocalPorts(o, i)'.metrics # Panic
          BY <2>4 DEF LocalPorts
    <3> QED BY <2>3, <2>5, <3>1, <3>2 DEF GeneratedWith
  <2> QED BY <2>6 DEF DeployInv
<1> QED BY <1>1, <1>2

LEMMA DockerStep ==
    ASSUME DeployInv, NEW o \in Options, mode = "docker", running = <<>>,
           o.metrics # o.port, UNCHANGED <<mode, running>>, GenerateDocker(o)
    PROVE  DeployInv'
<1> DEFINE nodes == 0 .. o.nodes - 1
           new == [i \in nodes |->
                      NodeConfigYaml(o, i, o.port, o.metrics, Ok(<<Host(i), o.port>>))]
<1>1. /\ peersFile' = [k \in 1 .. o.nodes |->
                         [key |-> Identities(o.seed, o.nodes)[k],
                          address |-> <<Host(k - 1), o.port>>]]
      /\ files' = Over(new, Kept(files))
      /\ edited' = FALSE /\ fresh' = nodes
      BY DEF GenerateDocker
<1>2. peersFile' = [k \in 1 .. o.nodes |-> EntryOf(o, k - 1)']
  <2> SUFFICES ASSUME NEW k \in 1 .. o.nodes
               PROVE  [key |-> Identities(o.seed, o.nodes)[k],
                       address |-> <<Host(k - 1), o.port>>] = EntryOf(o, k - 1)'
      BY <1>1
  <2>1. o.nodes \in Nat
        BY DeploymentAssumption DEF Options
  <2>2. (k - 1) + 1 = k
        BY <2>1
  <2> QED BY <2>2 DEF EntryOf
<1>3. DOMAIN files' = nodes /\ \A i \in nodes : files'[i] = ConfigOf(o, i)'
  <2>1. DOMAIN Kept(files) = {}
        BY DEF Kept
  <2>2. DOMAIN new = nodes /\ \A i \in nodes : new[i] = ConfigOf(o, i)'
        BY DEF ConfigOf
  <2> HIDE DEF new
  <2> QED BY <1>1, <2>1, <2>2 DEF Over
<1>4. ASSUME NEW i \in nodes PROVE FileOf(o, i, files[i])'
  <2>1. FileOf(o, i, ConfigOf(o, i))'
        BY <1>1, FreshFile
  <2> QED BY <1>3, <2>1
<1>5. GeneratedWith(o)'
  <2>1. Meant' = {} /\ mode' = "docker"
        BY DEF Meant
  <2> QED BY <1>1, <1>2, <1>3, <1>4, <2>1 DEF GeneratedWith
<1> QED BY <1>5 DEF DeployInv

\* A node that starts is what its file says.
LEMMA StartStep ==
    ASSUME DeployInv, NEW i, Start(i)
    PROVE  DeployInv'
<1>1. /\ i \in DOMAIN files
      /\ running' = Over([j \in {i} |-> NodeOf(j, files[j], peersFile)], running)
      /\ UNCHANGED <<mode, peersFile, files, services, edited, fresh>>
      BY DEF Start
<1>2. PICK o \in Options : GeneratedWith(o)
      BY <1>1 DEF DeployInv
<1>3. i \in fresh => i \in 0 .. o.nodes - 1 /\ FileOf(o, i, files[i])
      BY <1>2 DEF GeneratedWith
<1>4. \A j \in Meant' :
          \/ j = i /\ i \in fresh /\ running'[j] = NodeOf(i, files[i], peersFile)
          \/ j \in Meant /\ running'[j] = running[j]
  <2>1. \A j \in DOMAIN running' :
            \/ j = i /\ running'[j] = NodeOf(i, files[i], peersFile)
            \/ j \in DOMAIN running /\ running'[j] = running[j]
        BY <1>1 DEF Over
  <2>2. mode = "docker" => i \in fresh
        BY <1>1, <1>2 DEF GeneratedWith
  <2> QED BY <1>1, <2>1, <2>2 DEF Meant
<1>5. \A j, c : FileOf(o, j, c)' <=> FileOf(o, j, c)
      BY <1>1 DEF FileOf, ConfigOf
<1>6. \A j, c : NodeOf(j, c, peersFile)' = NodeOf(j, c, peersFile)
      BY <1>1 DEF NodeOf
<1>7. ASSUME NEW j \in Meant'
      PROVE  /\ j \in 0 .. o.nodes - 1
             /\ \E c : FileOf(o, j, c)' /\ running'[j] = NodeOf(j, c, peersFile)'
  <2>1. CASE j = i /\ i \in fresh /\ running'[j] = NodeOf(i, files[i], peersFile)
        BY <1>3, <1>5, <1>6, <2>1
  <2>2. CASE j \in Meant /\ running'[j] = running[j]
    <3>1. PICK c : FileOf(o, j, c) /\ running[j] = NodeOf(j, c, peersFile)
          BY <1>2, <2>2 DEF GeneratedWith
    <3>2. j \in 0 .. o.nodes - 1
          BY <1>2, <2>2 DEF GeneratedWith
    <3> QED BY <1>5, <1>6, <2>2, <3>1, <3>2
  <2> QED BY <1>4, <2>1, <2>2
<1>8. peersFile' = [k \in 1 .. o.nodes |-> EntryOf(o, k - 1)']
      BY <1>1, <1>2 DEF GeneratedWith, EntryOf
<1>9. \A j \in fresh' :
          j \in 0 .. o.nodes - 1 /\ j \in DOMAIN files' /\ FileOf(o, j, files[j])'
      BY <1>1, <1>2, <1>5 DEF GeneratedWith
<1>10. /\ mode' = "docker" => o.metrics # o.port /\ DOMAIN files' \subseteq fresh'
       /\ mode' = "local" => \A j \in fresh' : LocalPorts(o, j)'.metrics # Panic
       BY <1>1, <1>2 DEF GeneratedWith, LocalPorts
<1>11. GeneratedWith(o)'
       BY <1>7, <1>8, <1>9, <1>10 DEF GeneratedWith
<1> QED BY <1>1, <1>11 DEF DeployInv

\* One field of a file after the other.
Resize(c, size, blocks) == [[c EXCEPT !.blockSize = size] EXCEPT !.numBlocks = blocks]
LEMMA Resized ==
    ASSUME NEW c, NEW size, NEW blocks, NEW s, NEW b
    PROVE  Resize(WithSizes(c, size, blocks), s, b) = WithSizes(c, s, b)
<1> DEFINE k == c.key
           p == c.port
           m == c.metrics
           d == c.dialable
           r == c.role
           g == c.signing
           u == c.public
           t == c.strategy
           File(x, y) == [key |-> k, port |-> p, metrics |-> m, dialable |-> d, role |-> r,
                          signing |-> g, public |-> u, strategy |-> t, blockSize |-> x,
                          numBlocks |-> y]
<1>1. \A x, y : WithSizes(c, x, y) = File(x, y)
      BY DEF WithSizes
<1> HIDE DEF k, p, m, d, r, g, u, t
<1>2. [File(size, blocks) EXCEPT !.blockSize = s] = File(s, blocks)
      BY SMTT(30)
<1>3. [File(s, blocks) EXCEPT !.numBlocks = b] = File(s, b)
      BY SMTT(30)
<1> QED BY <1>1, <1>2, <1>3 DEF Resize

\* The fields taken out of a file are the two that FileOf leaves open.
LEMMA OmitStep ==
    ASSUME DeployInv, NEW i, Omit(i)
    PROVE  DeployInv'
<1>1. /\ i \in DOMAIN files /\ edited' = TRUE
      /\ files' = [files EXCEPT ![i].blockSize = DefaultBlockSize,
                                ![i].numBlocks = DefaultNumBlocks]
      /\ UNCHANGED <<mode, peersFile, services, running, fresh>>
      BY DEF Omit
<1>2. PICK o \in Options : GeneratedWith(o)
      BY <1>1 DEF DeployInv
<1>3. ASSUME NEW j, NEW c, FileOf(o, j, c) PROVE FileOf(o, j, c)'
  <2>1. PICK size, blocks : c = WithSizes(ConfigOf(o, j), size, blocks)
        BY <1>3 DEF FileOf
  <2>2. ConfigOf(o, j)' = ConfigOf(o, j)
        BY <1>1 DEF ConfigOf
  <2> QED BY <1>1, <2>1, <2>2 DEF FileOf
<1>4. \A j \in fresh' :
          j \in 0 .. o.nodes - 1 /\ j \in DOMAIN files' /\ FileOf(o, j, files[j])'
  <2> SUFFICES ASSUME NEW j \in fresh
               PROVE  j \in 0 .. o.nodes - 1 /\ j \in DOMAIN files /\ FileOf(o, j, files[j])'
      BY <1>1
  <2>1. j \in 0 .. o.nodes - 1 /\ j \in DOMAIN files /\ FileOf(o, j, files[j])
        BY <1>2 DEF GeneratedWith
  <2>2. CASE j # i
        BY <1>1, <1>3, <2>1, <2>2
  <2>3. CASE j = i
    <3>1. PICK size, blocks : files[i] = WithSizes(ConfigOf(o, i), size, blocks)
          BY <2>1, <2>3 DEF FileOf
    <3>2. files'[i] = WithSizes(ConfigOf(o, i), DefaultBlockSize, DefaultNumBlocks)
      <4>1. files'[i] = Resize(files[i], DefaultBlockSize, DefaultNumBlocks)
            BY <1>1 DEF Resize
      <4> QED BY <3>1, <4>1, Resized
    <3>3. ConfigOf(o, i)' = ConfigOf(o, i)
          BY <1>1 DEF ConfigOf
    <3> QED BY <1>1, <2>1, <2>3, <3>2, <3>3 DEF FileOf
  <2> QED BY <2>2, <2>3
<1>5. \A j, c : NodeOf(j, c, peersFile)' = NodeOf(j, c, peersFile)
      BY <1>1 DEF NodeOf
<1>6. ASSUME NEW j \in Meant'
      PROVE  /\ j \in 0 .. o.nodes - 1
             /\ \E c : FileOf(o, j, c)' /\ running'[j] = NodeOf(j, c, peersFile)'
  <2>1. /\ j \in 0 .. o.nodes - 1
        /\ \E c : FileOf(o, j, c) /\ running[j] = NodeOf(j, c, peersFile)
        BY <1>1, <1>2 DEF GeneratedWith, Meant
  <2> QED BY <1>1, <1>3, <1>5, <2>1
<1>7. peersFile' = [k \in 1 .. o.nodes |-> EntryOf(o, k - 1)']
      BY <1>1, <1>2 DEF GeneratedWith, EntryOf
<1>8. /\ mode' = "docker" => o.metrics # o.port /\ DOMAIN files' \subseteq fresh'
      /\ mode' = "local" => \A j \in fresh' : LocalPorts(o, j)'.metrics # Panic
      BY <1>1, <1>2 DEF GeneratedWith, LocalPorts
<1>9. GeneratedWith(o)'
      BY <1>4, <1>6, <1>7, <1>8 DEF GeneratedWith
<1> QED BY <1>1, <1>9 DEF DeployInv

LEMMA DeployNext == DeployInv /\ [Next]_deployVars => DeployInv'
<1> SUFFICES ASSUME DeployInv, [Next]_deployVars PROVE DeployInv'
    OBVIOUS
<1>1. CASE Generate
  <2>1. PICK o \in Options :
            \/ mode = "local" /\ GenerateLocal(o)
            \/ mode = "docker" /\ o.metrics # o.port /\ GenerateDocker(o)
        BY <1>1 DEF Generate
  <2>2. running = <<>> /\ UNCHANGED <<mode, running>>
        BY <1>1 DEF Generate
  <2> QED BY <2>1, <2>2, LocalStep, DockerStep
<1>2. CASE Stop
      BY <1>2, UntouchedStep DEF Stop
<1>3. ASSUME NEW i \in DOMAIN files, Start(i) PROVE DeployInv'
      BY <1>3, StartStep
<1>4. ASSUME NEW i \in DOMAIN files, Omit(i) PROVE DeployInv'
      BY <1>4, OmitStep
<1>5. CASE UNCHANGED deployVars
      BY <1>5, UntouchedStep DEF deployVars
<1> QED BY <1>1, <1>2, <1>3, <1>4, <1>5 DEF Next

\* The fresh files and the nodes meant to be one network are of one generation, whatever was
\* generated, edited, started and stopped before it.
THEOREM OneGeneration == Spec => []DeployInv
<1>1. Init => DeployInv
      BY DEF Init, DeployInv
<1> QED BY <1>1, DeployNext, PTL DEF Spec

-----------------------------------------------------------------------------
\* Sorting.

\* Each of n natural numbers has its place among them.
IsAt(S, x, i) == Cardinality({y \in S : y < x}) = i - 1
LEMMA Places ==
    ASSUME NEW n \in Nat, NEW S, S \subseteq Nat, IsFiniteSet(S), Cardinality(S) = n,
           NEW i \in 1 .. n
    PROVE  \E x \in S : IsAt(S, x, i)
<1> DEFINE Before(x) == {y \in S : y < x}
           place == [x \in S |-> Cardinality(Before(x)) + 1]
<1>1. ASSUME NEW x \in S
      PROVE  /\ IsFiniteSet(Before(x)) /\ Cardinality(Before(x)) \in Nat
             /\ place[x] = Cardinality(Before(x)) + 1 /\ place[x] \in 1 .. n
  <2>1. Before(x) \subseteq S /\ Before(x) # S
        OBVIOUS
  <2>2. /\ IsFiniteSet(Before(x)) /\ Cardinality(Before(x)) \in Nat
        /\ Cardinality(Before(x)) <= n /\ Cardinality(Before(x)) # n
        BY <2>1, FS_Subset, FS_CardinalityType
  <2> QED BY <2>2
<1>2. ASSUME NEW x \in S, NEW z \in S, x < z PROVE place[x] < place[z]
  <2>1. Before(x) \subseteq Before(z) /\ Before(x) # Before(z)
    <3>1. x \in Before(z) /\ x \notin Before(x)
          BY <1>2
    <3>2. ASSUME NEW y \in Before(x) PROVE y \in Before(z)
      <4>1. y \in Nat /\ x \in Nat /\ z \in Nat /\ y < x /\ y \in S
            OBVIOUS
      <4> QED BY <1>2, <4>1
    <3> QED BY <3>1, <3>2
  <2>2. /\ Cardinality(Before(x)) <= Cardinality(Before(z))
        /\ Cardinality(Before(x)) # Cardinality(Before(z))
        BY <1>1, <2>1, FS_Subset
  <2>3. place[x] = Cardinality(Before(x)) + 1 /\ place[z] = Cardinality(Before(z)) + 1
        BY <1>1
  <2> HIDE DEF Before, place
  <2> QED BY <1>1, <2>2, <2>3
<1>3. place \in Injection(S, 1 .. n)
  <2>1. place \in [S -> 1 .. n]
        BY <1>1
  <2>2. ASSUME NEW x \in S, NEW z \in S, place[x] = place[z] PROVE x = z
    <3>1. place[x] \in 1 .. n /\ place[z] \in 1 .. n /\ x \in Nat /\ z \in Nat
          BY <1>1
    <3>2. x < z => place[x] < place[z]
          BY <1>2
    <3>3. z < x => place[z] < place[x]
          BY <1>2
    <3> HIDE DEF place
    <3> QED BY <2>2, <3>1, <3>2, <3>3
  <2> HIDE DEF place
  <2> QED BY <2>1, <2>2 DEF Injection, IsInjective
<1>4. PICK x \in S : place[x] = i
  <2> HIDE DEF place
  <2>1. IsFiniteSet(1 .. n) /\ Cardinality(1 .. n) = n
        BY FS_Interval
  <2>2. place \in Surjection(S, 1 .. n)
        BY <1>3, <2>1, FS_Injection
  <2> QED BY <2>2 DEF Surjection
<1>5. Cardinality(Before(x)) = i - 1
      BY <1>1, <1>4
<1> QED BY <1>5 DEF IsAt

\* A generation has as many identities as nodes, all different.
LEMMA IdentitiesDiffer ==
    ASSUME NEW seed \in DOMAIN Keys, NEW n \in NodeCounts
    PROVE  /\ n \in Nat \ {0}
           /\ \A i, j \in 1 .. n : Identities(seed, n)[i] = Identities(seed, n)[j] => i = j
<1>1. /\ n \in Nat \ {0} /\ Keys[seed] \in Seq(Nat) /\ n <= Len(Keys[seed])
      /\ IsInjective(Keys[seed])
      BY DeploymentAssumption
<1> DEFINE S == {Keys[seed][k] : k \in 1 .. n}
           f == [k \in 1 .. n |-> Keys[seed][k]]
<1>2. \A k \in 1 .. n : k \in DOMAIN Keys[seed] /\ Keys[seed][k] \in Nat
      BY <1>1
<1>3. f \in Bijection(1 .. n, S)
  <2>1. f \in [1 .. n -> S] /\ \A x \in S : \E k \in 1 .. n : f[k] = x
        OBVIOUS
  <2>2. \A j, k \in 1 .. n : f[j] = f[k] => j = k
        BY <1>1, <1>2 DEF IsInjective
  <2> HIDE DEF f, S
  <2> QED BY <2>1, <2>2 DEF Bijection, Injection, Surjection, IsInjective
<1>4. S \subseteq Nat
      BY <1>2
<1>5. IsFiniteSet(S) /\ Cardinality(S) = n
  <2> HIDE DEF f, S
  <2>1. ExistsBijection(1 .. n, S)
        BY <1>3 DEF ExistsBijection
  <2>2. IsFiniteSet(1 .. n) /\ Cardinality(1 .. n) = n
        BY <1>1, FS_Interval
  <2> QED BY <2>1, <2>2, FS_Bijection
<1> DEFINE id == [i \in 1 .. n |-> CHOOSE x \in S : IsAt(S, x, i)]
<1>6. \A i \in 1 .. n : IsAt(S, id[i], i)
  <2> SUFFICES ASSUME NEW i \in 1 .. n PROVE IsAt(S, id[i], i)
      OBVIOUS
  <2> HIDE DEF S
  <2>1. \E x \in S : IsAt(S, x, i)
    <3>1. n \in Nat /\ S \subseteq Nat /\ IsFiniteSet(S) /\ Cardinality(S) = n
          BY <1>1, <1>4, <1>5
    <3> QED BY <3>1, Places
  <2> QED BY <2>1
<1>7. ASSUME NEW i \in 1 .. n, NEW j \in 1 .. n, id[i] = id[j] PROVE i = j
  <2>1. IsAt(S, id[i], i) /\ IsAt(S, id[i], j)
        BY <1>6, <1>7
  <2> HIDE DEF id, S
  <2>2. i - 1 = j - 1
        BY <2>1 DEF IsAt
  <2> QED BY <1>1, <2>2
<1>8. Identities(seed, n) = id
      BY DEF Identities, IsAt
<1> HIDE DEF id
<1> QED BY <1>1, <1>7, <1>8

-----------------------------------------------------------------------------
\* What the invariant says of the nodes that run.

\* The keys of a generation.
KeysOf(o) == {Identities(o.seed, o.nodes)[k] : k \in 1 .. o.nodes}
LEMMA PeersKeys ==
    ASSUME NEW o, GeneratedWith(o)
    PROVE  /\ o.nodes \in Nat \ {0} /\ Len(peersFile) = o.nodes
           /\ Tracked(peersFile) = Ok(KeysOf(o))
<1> DEFINE n == o.nodes
           id == Identities(o.seed, n)
           S == {id[k] : k \in 1 .. n}
           f == [k \in 1 .. n |-> id[k]]
<1>1. /\ o.seed \in DOMAIN Keys /\ n \in NodeCounts
      /\ peersFile = [k \in 1 .. n |-> EntryOf(o, k - 1)]
      BY DEF GeneratedWith, Options
<1>2. n \in Nat \ {0} /\ \A i, j \in 1 .. n : id[i] = id[j] => i = j
      BY <1>1, IdentitiesDiffer
<1>3. \A k \in 1 .. n : peersFile[k].key = id[k]
  <2> SUFFICES ASSUME NEW k \in 1 .. n PROVE EntryOf(o, k - 1).key = id[k]
      BY <1>1
  <2>1. (k - 1) + 1 = k
        BY <1>2
  <2> QED BY <2>1 DEF EntryOf
<1>4. Len(peersFile) = n /\ DOMAIN peersFile = 1 .. n
  <2> DEFINE T == {EntryOf(o, k - 1) : k \in 1 .. n}
  <2>1. peersFile \in [1 .. n -> T] /\ DOMAIN peersFile = 1 .. n
        BY <1>1
  <2> HIDE DEF T
  <2>2. peersFile \in Seq(T)
        BY <1>2, <2>1, SeqDef
  <2> QED BY <1>2, <2>1, <2>2, LenProperties
<1>5. {p.key : p \in Range(peersFile)} = S
      BY <1>3, <1>4 DEF Range
<1>6. Cardinality(S) = n
  <2>1. f \in [1 .. n -> S] /\ \A x \in S : \E k \in 1 .. n : f[k] = x
        OBVIOUS
  <2>2. \A j, k \in 1 .. n : f[j] = f[k] => j = k
        BY <1>2
  <2> HIDE DEF f, S
  <2>3. f \in Bijection(1 .. n, S)
        BY <2>1, <2>2 DEF Bijection, Injection, Surjection, IsInjective
  <2>4. ExistsBijection(1 .. n, S)
        BY <2>3 DEF ExistsBijection
  <2>5. IsFiniteSet(1 .. n) /\ Cardinality(1 .. n) = n
        BY <1>2, FS_Interval
  <2> QED BY <2>4, <2>5, FS_Bijection
<1>7. Tracked(peersFile) = Ok(S)
      BY <1>4, <1>5, <1>6 DEF Tracked
<1> QED BY <1>2, <1>4, <1>7 DEF KeysOf

\* A node of the network, in terms of the options it was generated with.
LEMMA NodeIs ==
    ASSUME NEW o, GeneratedWith(o), NEW i \in Meant
    PROVE  LET a == running[i]
               c == ConfigOf(o, i)
           IN  /\ i \in 0 .. o.nodes - 1
               /\ a.key = c.key /\ a.port = c.port /\ a.metrics = c.metrics
               /\ a.host = (IF mode = "docker" THEN Host(i) ELSE "127.0.0.1")
               /\ a.dialable = (IF c.dialable = Absent THEN <<"127.0.0.1", c.port>>
                                ELSE c.dialable[1])
               /\ a.role = ParsedRole(c) /\ a.protocol = ProtocolOf(c)
               /\ a.peers = Bootstrappers(c, peersFile)
               /\ a.tracked = Tracked(peersFile)[1]
               /\ ~edited => a.blockSize = o.blockSize /\ a.numBlocks = o.numBlocks
<1>1. PICK c : FileOf(o, i, c) /\ running[i] = NodeOf(i, c, peersFile)
      BY DEF GeneratedWith
<1>2. PICK size, blocks :
          /\ c = WithSizes(ConfigOf(o, i), size, blocks)
          /\ ~edited => size = o.blockSize /\ blocks = o.numBlocks
      BY <1>1 DEF FileOf
<1> DEFINE d == ConfigOf(o, i)
<1> HIDE DEF d
<1>3. /\ c.key = d.key /\ c.port = d.port /\ c.metrics = d.metrics
      /\ c.dialable = d.dialable /\ c.role = d.role /\ c.signing = d.signing
      /\ c.public = d.public /\ c.strategy = d.strategy
      /\ c.blockSize = size /\ c.numBlocks = blocks
      BY <1>2 DEF WithSizes, d
<1>4. ParsedRole(c) = ParsedRole(d)
      BY <1>3 DEF ParsedRole
<1>5. ProtocolOf(c) = ProtocolOf(d)
      BY <1>3 DEF ProtocolOf, SignerOf
<1>6. Dialable(c) = IF d.dialable = Absent THEN <<"127.0.0.1", d.port>> ELSE d.dialable[1]
      BY <1>3 DEF Dialable
<1>7. Bootstrappers(c, peersFile) = Bootstrappers(d, peersFile)
      BY <1>3 DEF Bootstrappers
<1>8. i \in 0 .. o.nodes - 1
      BY DEF GeneratedWith
<1>9. /\ running[i].key = d.key /\ running[i].port = d.port /\ running[i].metrics = d.metrics
      /\ running[i].host = (IF mode = "docker" THEN Host(i) ELSE "127.0.0.1")
      /\ running[i].dialable = Dialable(c)
      /\ running[i].role = ParsedRole(c) /\ running[i].protocol = ProtocolOf(c)
      /\ running[i].peers = Bootstrappers(c, peersFile)
      /\ running[i].tracked = Tracked(peersFile)[1]
      /\ running[i].blockSize = size /\ running[i].numBlocks = blocks
      BY <1>1, <1>3 DEF NodeOf
<1> QED BY <1>2, <1>4, <1>5, <1>6, <1>7, <1>8, <1>9 DEF d

-----------------------------------------------------------------------------
\* The theorems.

\* No node that can be started finds a key twice in peers.yaml, and panics: the keys of a
\* generation differ, and peers.yaml lists one generation's, also after a panic halfway.
THEOREM KeysListedOnce == Spec => [](files # <<>> => Tracked(peersFile) # Panic)
<1>1. DeployInv => (files # <<>> => Tracked(peersFile) # Panic)
  <2> SUFFICES ASSUME DeployInv, files # <<>> PROVE Tracked(peersFile) # Panic
      OBVIOUS
  <2>1. PICK o \in Options : GeneratedWith(o)
        BY DEF DeployInv
  <2>2. Tracked(peersFile) = Ok(KeysOf(o))
        BY <2>1, PeersKeys
  <2> QED BY <2>2 DEF Ok, Panic
<1> QED BY <1>1, OneGeneration, PTL

\* The nodes of a network know each other, by different keys, whatever was in the directory
\* before, and also after a panic halfway.
THEOREM AllKnowEachOther == Spec => []KnownToEachOther
<1>1. DeployInv => KnownToEachOther
  <2> SUFFICES ASSUME DeployInv, NEW i \in Meant, NEW j \in Meant
               PROVE  /\ running[i].key \in running[j].tracked
                      /\ i # j => /\ running[i].key # running[j].key
                                  /\ \E p \in running[j].peers : p.key = running[i].key
      BY DEF KnownToEachOther
  <2>1. PICK o \in Options : GeneratedWith(o)
        BY DEF DeployInv, Meant
  <2> DEFINE n == o.nodes
             id == Identities(o.seed, n)
  <2>2. n \in Nat \ {0} /\ Tracked(peersFile)[1] = {id[k] : k \in 1 .. n}
        BY <2>1, PeersKeys DEF Ok, KeysOf
  <2>3. \A k, l \in 1 .. n : id[k] = id[l] => k = l
        BY <2>1, IdentitiesDiffer DEF Options
  <2>4. ASSUME NEW k \in Meant
        PROVE  /\ k \in 0 .. n - 1 /\ k + 1 \in 1 .. n /\ running[k].key = id[k + 1]
               /\ running[k].tracked = {id[l] : l \in 1 .. n}
               /\ running[k].peers = {p \in Range(peersFile) : p.key # id[k + 1]}
    <3>1. /\ k \in 0 .. n - 1 /\ running[k].key = ConfigOf(o, k).key
          /\ running[k].tracked = Tracked(peersFile)[1]
          /\ running[k].peers = Bootstrappers(ConfigOf(o, k), peersFile)
          BY <2>1, NodeIs
    <3>2. ConfigOf(o, k).key = id[k + 1]
          BY DEF ConfigOf, NodeConfigYaml
    <3> QED BY <2>2, <3>1, <3>2 DEF Bootstrappers
  <2>5. ASSUME i # j PROVE \E p \in running[j].peers : p.key = running[i].key
    <3>1. peersFile = [k \in 1 .. n |-> EntryOf(o, k - 1)]
          BY <2>1 DEF GeneratedWith
    <3>2. i + 1 \in 1 .. n /\ (i + 1) - 1 = i
          BY <2>4
    <3>3. peersFile[i + 1] = EntryOf(o, i) /\ peersFile[i + 1] \in Range(peersFile)
          BY <3>1, <3>2 DEF Range
    <3>4. EntryOf(o, i).key = id[i + 1]
          BY DEF EntryOf
    <3>5. id[i + 1] # id[j + 1]
          BY <2>3, <2>4, <2>5
    <3> QED BY <2>4, <3>3, <3>4, <3>5
  <2>6. i # j => running[i].key # running[j].key
        BY <2>3, <2>4
  <2>7. running[i].key \in running[j].tracked
        BY <2>4
  <2> QED BY <2>5, <2>6, <2>7
<1> QED BY <1>1, OneGeneration, PTL

\* They are one network: one proposer at most, whose signatures the others
\* verify, one strategy, and, unless somebody edited a file, one block size and one number
\* of blocks.
THEOREM AlwaysOneNetwork == Spec => []OneNetwork
<1>1. DeployInv => OneNetwork
  <2> SUFFICES ASSUME DeployInv PROVE OneNetwork
      OBVIOUS
  <2>1. CASE running = <<>>
        BY <2>1 DEF OneNetwork, SameProtocol, Meant
  <2>2. ASSUME NEW o \in Options, GeneratedWith(o) PROVE OneNetwork
    <3> DEFINE key == DrawnFrom(ProposerSeed(o.seed))
    <3>1. ASSUME NEW i \in Meant
          PROVE  LET q == running[i].protocol
                 IN  /\ running[i].role = (IF i = 0 THEN "proposer" ELSE "receiver")
                     /\ q.strategy = o.strategy
                     /\ IF o.strategy = "baseline" THEN q.signer = Absent
                        ELSE /\ q.signer = (IF i = 0 THEN Ok(key) ELSE Absent)
                             /\ q.verifies = Ok(key)
                     /\ ~edited => /\ running[i].blockSize = o.blockSize
                                   /\ running[i].numBlocks = o.numBlocks
      <4>1. /\ running[i].role = ParsedRole(ConfigOf(o, i))
            /\ running[i].protocol = ProtocolOf(ConfigOf(o, i))
            /\ ~edited => /\ running[i].blockSize = o.blockSize
                          /\ running[i].numBlocks = o.numBlocks
            BY <2>2, NodeIs
      <4>2. /\ ConfigOf(o, i).role = RoleOf(i) /\ ConfigOf(o, i).strategy = o.strategy
            /\ ConfigOf(o, i).public = key
            /\ ConfigOf(o, i).signing = (IF i = 0 THEN Ok(ProposerSeed(o.seed)) ELSE Absent)
            BY DEF ConfigOf, NodeConfigYaml
      <4>3. ParsedRole(ConfigOf(o, i)) = (IF i = 0 THEN "proposer" ELSE "receiver")
            BY <4>2 DEF ParsedRole, RoleOf
      <4>4. SignerOf(ConfigOf(o, i)) = (IF i = 0 THEN Ok(key) ELSE Absent)
            BY <4>2 DEF SignerOf, Ok, Absent
      <4> QED BY <4>1, <4>2, <4>3, <4>4 DEF ProtocolOf
    <3>2. Ok(key) # Absent
          BY DEF Ok, Absent
    <3> HIDE DEF key
    <3> QED BY <3>1, <3>2 DEF OneNetwork, SameProtocol
  <2> QED BY <2>1, <2>2 DEF DeployInv
<1> QED BY <1>1, OneGeneration, PTL

\* The ports of node i of n: those of the sequence from the first, modulo their number.
IsPort(p, start, i) ==
    /\ p \in 0 .. NumPorts - 1
    /\ p = start + 2 * i \/ p = start + 2 * i - NumPorts
IsMetricsPort(m, p) ==
    /\ m \in 0 .. NumPorts - 1
    /\ m = p + 1 \/ m = p + 1 - NumPorts

LEMMA PortNumbers ==
    ASSUME NEW build, NEW start \in Ports, NEW n \in NodeCounts, NEW i \in 0 .. n - 1,
           PortsOf(build, start, i).metrics # Panic
    PROVE  /\ IsPort(PortsOf(build, start, i).port[1], start, i)
           /\ IsMetricsPort(PortsOf(build, start, i).metrics[1], PortsOf(build, start, i).port[1])
<1> DEFINE port == Plus(build, Ok(start), 2 * AsU16(i))
           metrics == Plus(build, port, 1)
<1>1. PortsOf(build, start, i).port = port /\ PortsOf(build, start, i).metrics = metrics
      BY DEF PortsOf
<1>2. /\ NumPorts \in Nat \ {0} /\ start \in 1 .. NumPorts - 1 /\ n \in Nat /\ 2 * n <= NumPorts
      /\ i \in Nat /\ i <= n - 1
      BY DeploymentAssumption, PortsAssumption
<1>3. AsU16(i) = i
      BY <1>2 DEF AsU16
<1>4. Ok(start) # Panic /\ Ok(start)[1] = start
      BY DEF Ok, Panic
<1>5. port # Panic
      BY <1>1 DEF Plus
<1>6. /\ port = Ok(port[1]) /\ port[1] \in 0 .. NumPorts - 1
      /\ port[1] = start + 2 * i \/ port[1] = start + 2 * i - NumPorts
  <2> DEFINE s == start + 2 * i
  <2>1. s \in Nat /\ s < 2 * NumPorts
        BY <1>2
  <2>2. port = IF s < NumPorts THEN Ok(s) ELSE IF build = "debug" THEN Panic ELSE Ok(s % NumPorts)
        BY <1>3, <1>4 DEF Plus
  <2> HIDE DEF port
  <2>3. CASE s < NumPorts
        BY <1>2, <2>1, <2>2, <2>3 DEF Ok
  <2>4. CASE ~(s < NumPorts)
    <3>1. s % NumPorts = s - NumPorts
          BY <1>2, <2>1, <2>4
    <3>2. port = Ok(s - NumPorts)
          BY <1>5, <2>2, <2>4, <3>1
    <3> QED BY <1>2, <2>1, <2>4, <3>2 DEF Ok
  <2> QED BY <2>3, <2>4
<1>7. /\ metrics[1] \in 0 .. NumPorts - 1
      /\ metrics[1] = port[1] + 1 \/ metrics[1] = port[1] + 1 - NumPorts
  <2> HIDE DEF port
  <2> DEFINE s == port[1] + 1
  <2>1. s \in Nat /\ s <= NumPorts
        BY <1>2, <1>6
  <2>2. metrics = IF s < NumPorts THEN Ok(s)
                  ELSE IF build = "debug" THEN Panic ELSE Ok(s % NumPorts)
        BY <1>5 DEF Plus
  <2>3. metrics # Panic
        BY <1>1
  <2> HIDE DEF metrics
  <2>4. CASE s < NumPorts
        BY <1>2, <2>1, <2>2, <2>4 DEF Ok
  <2>5. CASE ~(s < NumPorts)
    <3>1. s = NumPorts /\ s % NumPorts = 0
          BY <1>2, <2>1, <2>5
    <3>2. metrics = Ok(0)
          BY <2>2, <2>3, <2>5, <3>1
    <3>3. metrics[1] = 0
          BY <3>2 DEF Ok
    <3> QED BY <1>2, <1>6, <3>1, <3>3
  <2> QED BY <2>4, <2>5
<1> QED BY <1>1, <1>6, <1>7 DEF IsPort, IsMetricsPort

\* No two of these ports are the same.  P2p ports have the parity of the first, metrics
\* ports the other one; and n nodes do not go round.
LEMMA PortsDiffer ==
    ASSUME NEW n \in NodeCounts, NEW start \in Ports, NEW i \in 0 .. n - 1, NEW j \in 0 .. n - 1,
           NEW p, NEW q, NEW m, NEW k, IsPort(p, start, i), IsPort(q, start, j),
           IsMetricsPort(m, p), IsMetricsPort(k, q)
    PROVE  /\ p # k
           /\ i # j => p # q /\ m # k
<1>1. /\ NumPorts \in Nat \ {0} /\ NumPorts % 2 = 0 /\ n \in Nat /\ 2 * n <= NumPorts
      /\ start \in Nat
      BY DeploymentAssumption, PortsAssumption
<1>2. PICK h \in Nat : NumPorts = 2 * h
  <2>1. NumPorts = 2 * (NumPorts \div 2) + (NumPorts % 2) /\ NumPorts \div 2 \in Nat
        BY <1>1
  <2>2. NumPorts = 2 * (NumPorts \div 2)
        BY <1>1, <2>1
  <2> QED BY <2>1, <2>2
<1>3. /\ p \in 0 .. NumPorts - 1 /\ q \in 0 .. NumPorts - 1
      /\ m \in 0 .. NumPorts - 1 /\ k \in 0 .. NumPorts - 1
      /\ p = start + 2 * i \/ p = start + 2 * i - NumPorts
      /\ q = start + 2 * j \/ q = start + 2 * j - NumPorts
      /\ m = p + 1 \/ m = p + 1 - NumPorts
      /\ k = q + 1 \/ k = q + 1 - NumPorts
      BY DEF IsPort, IsMetricsPort
<1>4. i \in Nat /\ j \in Nat /\ i < n /\ j < n
      BY <1>1
<1>5. p # k
      BY <1>1, <1>2, <1>3, <1>4
<1>6. i # j => p # q
      BY <1>1, <1>3, <1>4
<1>7. p # q => m # k
      BY <1>1, <1>3
<1> QED BY <1>5, <1>6, <1>7

\* They are where they say and where the others look for them, and no two
\* sockets of a machine share a port.
THEOREM AddressesAlwaysTrue == Spec => []AddressesTrue
<1>1. DeployInv => AddressesTrue
  <2> SUFFICES ASSUME DeployInv, NEW i \in Meant, NEW j \in Meant
               PROVE  LET a == running[i]
                          b == running[j]
                      IN  /\ a.dialable = <<a.host, a.port>>
                          /\ \A p \in b.peers : p.key = a.key => p.address = a.dialable
                          /\ a.host = b.host =>
                                /\ a.port # b.metrics
                                /\ i # j => a.port # b.port /\ a.metrics # b.metrics
      BY DEF AddressesTrue
  <2>1. PICK o \in Options : GeneratedWith(o)
        BY DEF DeployInv, Meant
  <2> DEFINE n == o.nodes
             id == Identities(o.seed, n)
             At(k) == IF mode = "docker" THEN <<Host(k), o.port>>
                      ELSE <<"127.0.0.1", LocalPorts(o, k).port[1]>>
  <2>2. /\ n \in Nat \ {0} /\ n \in NodeCounts /\ o.port \in Ports
        /\ mode \in {"local", "docker"}
        BY <2>1, DeploymentAssumption DEF Options, DeployInv
  <2>3. \A k, l \in 1 .. n : id[k] = id[l] => k = l
        BY <2>1, IdentitiesDiffer DEF Options
  <2>4. ASSUME NEW k \in Meant
        PROVE  /\ k \in 0 .. n - 1 /\ running[k].key = id[k + 1]
               /\ running[k].port = ConfigOf(o, k).port
               /\ running[k].metrics = ConfigOf(o, k).metrics
               /\ running[k].host = (IF mode = "docker" THEN Host(k) ELSE "127.0.0.1")
               /\ running[k].dialable = At(k)
               /\ running[k].dialable = <<running[k].host, running[k].port>>
               /\ running[k].peers \subseteq Range(peersFile)
    <3> DEFINE c == ConfigOf(o, k)
    <3>1. /\ k \in 0 .. n - 1 /\ running[k].key = c.key /\ running[k].port = c.port
          /\ running[k].metrics = c.metrics
          /\ running[k].host = (IF mode = "docker" THEN Host(k) ELSE "127.0.0.1")
          /\ running[k].dialable = (IF c.dialable = Absent THEN <<"127.0.0.1", c.port>>
                                    ELSE c.dialable[1])
          /\ running[k].peers = Bootstrappers(c, peersFile)
          BY <2>1, NodeIs
    <3>2. /\ c.key = id[k + 1]
          /\ c.port = (IF mode = "docker" THEN o.port ELSE LocalPorts(o, k).port[1])
          /\ c.dialable = (IF mode = "docker" THEN Ok(<<Host(k), o.port>>) ELSE Absent)
          BY DEF ConfigOf, NodeConfigYaml
    <3>3. (IF c.dialable = Absent THEN <<"127.0.0.1", c.port>> ELSE c.dialable[1]) = At(k)
      <4>1. CASE mode = "docker"
            BY <3>2, <4>1 DEF Ok, Absent
      <4>2. CASE mode # "docker"
            BY <3>2, <4>2
      <4> QED BY <4>1, <4>2
    <3> HIDE DEF c
    <3>4. running[k].dialable = At(k)
          BY <3>1, <3>3
    <3>5. At(k) = <<running[k].host, running[k].port>>
          BY <3>1, <3>2
    <3>6. Bootstrappers(c, peersFile) \subseteq Range(peersFile)
          BY DEF Bootstrappers
    <3> QED BY <3>1, <3>2, <3>4, <3>5, <3>6 DEF c
  <2>5. ASSUME NEW p \in running[j].peers, p.key = running[i].key
        PROVE  p.address = running[i].dialable
    <3>1. peersFile = [k \in 1 .. n |-> EntryOf(o, k - 1)]
          BY <2>1 DEF GeneratedWith
    <3>2. PICK k \in 1 .. n : p = EntryOf(o, k - 1)
          BY <2>4, <3>1 DEF Range
    <3>3. (k - 1) + 1 = k /\ k - 1 \in 0 .. n - 1 /\ i + 1 \in 1 .. n /\ (i + 1) - 1 = i
      <4>1. i \in 0 .. n - 1
            BY <2>4
      <4> HIDE DEF n
      <4> QED BY <2>2, <4>1
    <3>4. p.key = id[k] /\ p.address = At(k - 1)
          BY <3>2, <3>3 DEF EntryOf
    <3>5. k = i + 1
          BY <2>3, <2>4, <2>5, <3>3, <3>4
    <3> QED BY <2>4, <3>3, <3>4, <3>5
  <2>6. ASSUME running[i].host = running[j].host
        PROVE  /\ running[i].port # running[j].metrics
               /\ i # j => /\ running[i].port # running[j].port
                           /\ running[i].metrics # running[j].metrics
    <3>1. CASE mode = "docker"
      <4>1. running[i].host = Host(i) /\ running[j].host = Host(j)
            BY <2>4, <3>1
      <4>2. i = j
            <5>1. <<"node", i>> = <<"node", j>>
              BY <2>6, <4>1 DEF Host
        <5>2. <<"node", i>>[2] = i /\ <<"node", j>>[2] = j
              OBVIOUS
        <5> QED BY <5>1, <5>2
      <4>3. running[i].port = o.port /\ running[j].metrics = o.metrics
        <5>1. ConfigOf(o, i).port = o.port /\ ConfigOf(o, j).metrics = o.metrics
              BY <3>1 DEF ConfigOf, NodeConfigYaml
        <5> QED BY <2>4, <5>1
      <4> QED BY <2>1, <3>1, <4>2, <4>3 DEF GeneratedWith
    <3>2. CASE mode = "local"
      <4>1. ASSUME NEW k \in Meant
            PROVE  /\ k \in 0 .. n - 1 /\ IsPort(running[k].port, o.port, k)
                   /\ IsMetricsPort(running[k].metrics, running[k].port)
        <5>1. k \in 0 .. n - 1
              BY <2>4
        <5>2. LocalPorts(o, k).metrics # Panic
              BY <2>1, <3>2 DEF GeneratedWith, Meant
        <5>3. /\ running[k].port = LocalPorts(o, k).port[1]
              /\ running[k].metrics = LocalPorts(o, k).metrics[1]
          <6>1. /\ ConfigOf(o, k).port = LocalPorts(o, k).port[1]
                /\ ConfigOf(o, k).metrics = LocalPorts(o, k).metrics[1]
                BY <3>2 DEF ConfigOf, NodeConfigYaml
          <6> QED BY <2>4, <6>1
        <5> QED BY <2>2, <5>1, <5>2, <5>3, PortNumbers DEF LocalPorts
      <4> QED BY <2>2, <4>1, PortsDiffer
    <3> QED BY <2>2, <3>1, <3>2
  <2> QED BY <2>4, <2>5, <2>6
<1> QED BY <1>1, OneGeneration, PTL
=============================================================================

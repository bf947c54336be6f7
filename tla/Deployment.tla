---------------------------- MODULE Deployment ----------------------------
(***************************************************************************)
(* The deployment generator (crates/deploy/src/main.rs) and the start-up   *)
(* of a node from what it wrote (crates/node/src/main.rs, config.rs).  An  *)
(* operator generates configurations into one directory again and again,   *)
(* with other options, and starts and stops the nodes in between.  Ports   *)
(* are u16; their arithmetic panics in a debug build and wraps in a        *)
(* release build, and the documentation uses both.                         *)
(***************************************************************************)
EXTENDS Integers, Sequences, FiniteSets, SequencesExt

CONSTANTS NumPorts,          \* 2^16
          NodeCounts,        \* --nodes
          Keys,              \* Keys[seed]: the key pairs drawn with that seed, in turn;
                             \* a key is a number, in the order of the public keys
          Ports,             \* --start-port, --p2p-port, --metrics-port
          BlockSizes,        \* --block-size
          Strategies,        \* --strategy
          DefaultBlockSize, DefaultNumBlocks

ASSUME DeploymentAssumption ==
    /\ NumPorts \in Nat \ {0} /\ Ports \subseteq 1 .. NumPorts - 1
    /\ NodeCounts \subseteq Nat \ {0}
    /\ \A seed \in DOMAIN Keys :
          /\ Keys[seed] \in Seq(Nat) /\ IsInjective(Keys[seed])
          /\ \A n \in NodeCounts : n <= Len(Keys[seed])

\* An even number of ports, and two for each node.  The generator does not look: with
\* more nodes a release build gives two of them the same port.
ASSUME PortsAssumption ==
    NumPorts % 2 = 0 /\ \A n \in NodeCounts : 2 * n <= NumPorts

VARIABLES mode,        \* the generator's mode, "local" or "docker"
          peersFile,   \* peers.yaml
          files,       \* files[i]: node-i.yaml
          services,    \* the nodes of docker-compose.yml
          running,     \* running[i]: the process started with node-i.yaml
          edited,      \* whether an operator has taken fields out of a configuration
          fresh        \* history: the nodes whose file is of the generation peers.yaml is of

deployVars == <<mode, peersFile, files, services, running, edited, fresh>>

Panic == <<>>
Ok(x) == <<x>>
Absent == <<>>

\* What is written replaces what is there.
Over(new, old) ==
    [i \in DOMAIN new \cup DOMAIN old |-> IF i \in DOMAIN new THEN new[i] ELSE old[i]]

---------------------------------------------------------------------------
\* The generator.  Node numbers start at 0.

\* a + b in u16
Plus(build, a, b) ==
    IF a = Panic THEN Panic
    ELSE IF a[1] + b < NumPorts THEN Ok(a[1] + b)
    ELSE IF build = "debug" THEN Panic ELSE Ok((a[1] + b) % NumPorts)

AsU16(i) == i % NumPorts
\* A node's two ports.  The mutant counts by one.
PortsOfDense(build, start, i) ==
    LET port == Plus(build, Ok(start), AsU16(i))
    IN  [port |-> port, metrics |-> Plus(build, port, 1)]
PortsOf(build, start, i) ==
    LET port == Plus(build, Ok(start), 2 * AsU16(i))
    IN  [port |-> port, metrics |-> Plus(build, port, 1)]

\* The identities, sorted by public key: the k-th has k - 1 before it.
Identities(seed, n) ==
    LET drawn == {Keys[seed][k] : k \in 1 .. n}
    IN  [k \in 1 .. n |-> CHOOSE x \in drawn : Cardinality({y \in drawn : y < x}) = k - 1]

\* The BLS key pair is drawn from a generator seeded with these 32 bytes, by the
\* deployer for proposer_public_key, by the node for its signer.
ProposerSeed(seed) == seed + 1000
DrawnFrom(bytes) == [drawn |-> bytes]

RoleOf(i) == IF i = 0 THEN "proposer" ELSE "receiver"

\* NodeConfigYaml: what both modes write into node-i.yaml.
NodeConfigYaml(o, i, port, metrics, dialable) ==
    [key |-> Identities(o.seed, o.nodes)[i + 1],
     port |-> port, metrics |-> metrics, dialable |-> dialable,
     role |-> RoleOf(i),
     signing |-> IF i = 0 THEN Ok(ProposerSeed(o.seed)) ELSE Absent,
     public |-> DrawnFrom(ProposerSeed(o.seed)),
     strategy |-> o.strategy, blockSize |-> o.blockSize, numBlocks |-> o.numBlocks]

\* generate_local.  peers.yaml is written after all p2p ports have been computed, a node's
\* file after its metrics port has: a panic there leaves the new peers.yaml and files
\* beside the old files of the other nodes.  So does a generation of fewer nodes.
GenerateLocal(o) ==
    LET ports == [i \in 0 .. o.nodes - 1 |-> PortsOf(o.build, o.port, i)]
        reaches(i) == \A j \in 0 .. i : ports[j].metrics # Panic
        written == {i \in DOMAIN ports : reaches(i)}
    IN  IF \E i \in DOMAIN ports : ports[i].port = Panic
        THEN UNCHANGED <<peersFile, files, edited, fresh>>
        ELSE /\ peersFile' =
                    [k \in 1 .. o.nodes |->
                        [key |-> Identities(o.seed, o.nodes)[k],
                         address |-> <<"127.0.0.1", ports[k - 1].port[1]>>]]
             /\ LET new(i) ==
                        NodeConfigYaml(o, i, ports[i].port[1], ports[i].metrics[1], Absent)
                IN  files' = Over([i \in written |-> new(i)], files)
             /\ edited' = FALSE /\ fresh' = written

Host(i) == <<"node", i>>

\* The node-*.yaml of a previous run that are still there when the new ones are
\* written: none.  The mutant leaves them.
KeptAll(old) == old
Kept(old) == <<>>

\* generate_docker.  The host port of Prometheus is computed after the nodes' files
\* have been written and before docker-compose.yml is.
GenerateDocker(o) ==
    LET nodes == 0 .. o.nodes - 1
        hostPort == Plus(o.build, Plus(o.build, Ok(o.metrics), AsU16(o.nodes)), 1)
    IN  /\ peersFile' = [k \in 1 .. o.nodes |->
                            [key |-> Identities(o.seed, o.nodes)[k],
                             address |-> <<Host(k - 1), o.port>>]]
        /\ files' = Over([i \in nodes |->
                            NodeConfigYaml(o, i, o.port, o.metrics, Ok(<<Host(i), o.port>>))],
                         Kept(files))
        /\ edited' = FALSE /\ fresh' = nodes
        /\ IF o.monitoring /\ hostPort = Panic
           THEN UNCHANGED services
           ELSE services' = nodes

---------------------------------------------------------------------------
\* A node.

\* Everything but "proposer" is a receiver.
ParsedRole(config) == IF config.role = "proposer" THEN "proposer" ELSE "receiver"

\* The peers of peers.yaml but the node itself, with their addresses.
Bootstrappers(config, peers) == {p \in Range(peers) : p.key # config.key}

\* The set the P2P layer may talk to; Panic if a key is listed twice.
Tracked(peers) ==
    LET keys == {p.key : p \in Range(peers)}
    IN  IF Cardinality(keys) = Len(peers) THEN Ok(keys) ELSE Panic

\* PedersenSigner::generate, BfkwSigner::generate.  The mutant takes the configured
\* bytes for the key itself.
SignerAsScalar(config) ==
    IF config.signing = Absent THEN Absent ELSE Ok([scalar |-> config.signing[1]])
SignerOf(config) ==
    IF config.signing = Absent THEN Absent ELSE Ok(DrawnFrom(config.signing[1]))

\* The protocol object main makes for the actor.  The baseline signs and verifies
\* nothing.
ProtocolOf(config) ==
    IF config.strategy = "baseline"
    THEN [strategy |-> "baseline", signer |-> Absent, verifies |-> Absent]
    ELSE [strategy |-> config.strategy, signer |-> SignerOf(config),
          verifies |-> Ok(config.public)]

Dialable(config) ==
    IF config.dialable = Absent THEN <<"127.0.0.1", config.port>> ELSE config.dialable[1]

\* The process: a machine of its own under Docker, all on one machine otherwise.
NodeOf(i, config, peers) ==
    [key |-> config.key,
     host |-> IF mode = "docker" THEN Host(i) ELSE "127.0.0.1",
     port |-> config.port, metrics |-> config.metrics, dialable |-> Dialable(config),
     role |-> ParsedRole(config), protocol |-> ProtocolOf(config),
     blockSize |-> config.blockSize, numBlocks |-> config.numBlocks,
     peers |-> Bootstrappers(config, peers), tracked |-> Tracked(peers)[1]]

---------------------------------------------------------------------------

Options ==
    [nodes : NodeCounts, seed : DOMAIN Keys, strategy : Strategies,
     blockSize : BlockSizes, numBlocks : {1},
     build : {"debug", "release"}, port : Ports, metrics : Ports, monitoring : BOOLEAN]

Init ==
    /\ mode \in {"local", "docker"}
    /\ peersFile = <<>> /\ files = <<>> /\ services = {}
    /\ running = <<>> /\ edited = FALSE /\ fresh = {}

\* An operator stops the nodes first, and does not ask for a metrics port that is the p2p
\* port of the same container; the generator looks at neither.  The options a mode does
\* not have keep one value.
Generate ==
    /\ running = <<>>
    /\ UNCHANGED <<mode, running>>
    /\ \E o \in Options :
        \/ /\ mode = "local"
           /\ o.monitoring = FALSE /\ o.metrics = o.port
           /\ GenerateLocal(o)
           /\ UNCHANGED services
        \/ /\ mode = "docker"
           /\ o.metrics # o.port
           /\ GenerateDocker(o)

\* A service of the compose file, or the command for any file of a local directory.  A node
\* whose file is missing panics at once.
Start(i) ==
    /\ i \in DOMAIN files \ DOMAIN running
    /\ mode = "docker" => i \in services
    /\ Tracked(peersFile) # Panic
    /\ running' = Over([j \in {i} |-> NodeOf(j, files[j], peersFile)], running)
    /\ UNCHANGED <<mode, peersFile, files, services, edited, fresh>>

Stop ==
    /\ running # <<>>
    /\ running' = <<>>
    /\ UNCHANGED <<mode, peersFile, files, services, edited, fresh>>

\* A receiver's file without the fields that are the proposer's only: they are read
\* as their defaults.
Omit(i) ==
    /\ i \in DOMAIN files \ {0}
    /\ files' = [files EXCEPT ![i].blockSize = DefaultBlockSize,
                              ![i].numBlocks = DefaultNumBlocks]
    /\ edited' = TRUE
    /\ UNCHANGED <<mode, peersFile, services, running, fresh>>

Next == Generate \/ Stop \/ \E i \in DOMAIN files : Start(i) \/ Omit(i)

Spec == Init /\ [][Next]_deployVars

---------------------------------------------------------------------------

\* The nodes that run and are meant to be one network.  generate_docker removes the files
\* of earlier generations, so there it is all that the compose file can start, whatever was
\* in the directory, and also after a panic halfway.  generate_local does not, so there it
\* is those started from a file of the generation that wrote peers.yaml: an older file
\* beside it, left by more nodes or by a panic halfway, starts a node of another network.
Meant == IF mode = "docker" THEN DOMAIN running ELSE DOMAIN running \cap fresh

\* Any two of them know each other, and are not the same to a third.
KnownToEachOther ==
    \A i, j \in Meant :
        /\ running[i].key \in running[j].tracked
        /\ i # j => /\ running[i].key # running[j].key
                    /\ \E p \in running[j].peers : p.key = running[i].key

\* Where one of them says it is, and where the others look for it, is where it listens, and
\* no two of their sockets on one machine have the same port.  Port 0, which the arithmetic
\* of a release build can come to, stands for any port and is left out.
AddressesTrue ==
    \A i, j \in Meant :
        LET a == running[i]
            b == running[j]
        IN  /\ a.port # 0 =>
                  /\ a.dialable = <<a.host, a.port>>
                  /\ \A p \in b.peers : p.key = a.key => p.address = a.dialable
            /\ a.host = b.host =>
                  /\ a.port # b.metrics
                  /\ i # j => a.port # b.port /\ a.metrics # b.metrics

SameProtocol ==
    \A i, j \in Meant :
        /\ running[i].blockSize = running[j].blockSize
        /\ running[i].numBlocks = running[j].numBlocks

\* They have one proposer at most, run one strategy, verify with the key the proposer
\* signs with, and agree on the number of blocks and on the block size, from which
\* each computes the length of a chunk: unless somebody edited a file.
OneNetwork ==
    /\ \A i \in Meant :
          /\ running[i].role = "proposer" <=> i = 0
          /\ running[i].protocol.strategy # "baseline" =>
                (running[i].role = "proposer" <=> running[i].protocol.signer # Absent)
          /\ \A j \in Meant :
                /\ running[j].protocol.strategy = running[i].protocol.strategy
                /\ running[j].protocol.signer # Absent =>
                       running[j].protocol.signer = running[i].protocol.verifies
    /\ ~edited => SameProtocol

\* What the documentation of NodeConfig says of block_size and num_blocks: they are
\* the proposer's only, so a receiver may leave them out.
ProposerOnlyFields == SameProtocol
===========================================================================

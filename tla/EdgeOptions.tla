---------------------------- MODULE EdgeOptions -----------------------------
(***************************************************************************)
(* How an edge comes to its configuration: defaults and environment, then  *)
(* the lines of a configuration file, then the command line, one option at *)
(* a time, then what main makes of them before edge_init (edge.c,          *)
(* edge_utils.c, n2n.c).                                                   *)
(*                                                                         *)
(* An option is a pair of its letter and its argument.  "?" stands for     *)
(* whatever getopt_long does not know or finds no argument for; options    *)
(* that only fill a field of their own are one, "t".                       *)
(***************************************************************************)
EXTENDS Naturals, Sequences, FiniteSets, TLC

CONSTANTS
    Options,        \* what may be given
    Environments,   \* records of N2N_KEY, N2N_COMMUNITY and N2N_PASSWORD, or None
    Host, Address,  \* names for -l, and what they may resolve to
    MaxOptions

None == "none"
Unresolved == "AF_INVALID"  \* the socket of a name that does not resolve: no port either
Ciphers == ("1" :> "null") @@ ("2" :> "tf") @@ ("3" :> "aes") @@ ("4" :> "cc20") @@ ("5" :> "speck") @@ (None :> "aes")
Compressors == ("1" :> "lzo") @@ ("2" :> "zstd") @@ (None :> "lzo")

EdgeOptionsAssumption ==
    /\ \A o \in Options : Len(o) = 2
    /\ Environments \subseteq [key : STRING, community : STRING, password : STRING]
    /\ {None, Unresolved} \cap (Host \cup Address) = {} /\ MaxOptions \in Nat

VARIABLES
    env, dns,   \* fixed while the edge starts
    phase,      \* "file", "cli", "started" or "exit"
    deaf,       \* loadFromCLI has returned before the end of the command line
    rc,
    conf,       \* n2n_edge_conf_t and n2n_tuntap_priv_config_t
    given,      \* the options of the file and of the command line
    heard       \* those that reached setOption
vars == <<env, dns, phase, deaf, rc, conf, given, heard>>

----------------------------------------------------------------------------
\* edge_init_conf_defaults.  A secret is the password, later with the user's name
\* and the federation's key.
edge_init_conf_defaults ==
    [key |-> env.key, transop |-> IF env.key # None THEN "aes" ELSE "null",
     community |-> env.community,
     secret |-> IF env.password # None THEN <<env.password>> ELSE <<>>,
     federation |-> None, desc |-> "hostname", header |-> FALSE, compression |-> "none",
     supernodes |-> {}, sn_num |-> 0, interval |-> "20", plain |-> "5644",
     bind |-> "any", port |-> "0", preferred |-> None, auto |-> FALSE,
     p2p |-> TRUE, tcp |-> FALSE, kcp |-> TRUE, fallback |-> TRUE, strategy |-> "load",
     ip_mode |-> "", ip |-> "", tap |-> "sn_assign"]

\* supernode2sock: the socket is only written when the name resolves.
supernode2sock(h) == IF dns[h] = None THEN Unresolved ELSE dns[h]

\* edge_conf_add_supernode with add_sn_to_list_by_mac_or_sock: an entry with the
\* same socket is found again, and named anew.
edge_conf_add_supernode(c, h) ==
    LET s == supernode2sock(h)
    IN [c EXCEPT !.supernodes = {x \in @ : x.sock # s} \cup {[sock |-> s, name |-> h]},
                 !.sn_num = @ + 1]

\* scan_address: the mode is only written when there is a colon.
scan_address(c, v) ==
    CASE v = "dhcp:0.0.0.0" -> [c EXCEPT !.ip_mode = "dhcp", !.ip = "0.0.0.0"]
      [] v = "static:10.0.0.1" -> [c EXCEPT !.ip_mode = "static", !.ip = "10.0.0.1"]
      [] OTHER -> [c EXCEPT !.ip = v]

\* -p with a port, an address, or both.
Bound(c, v) ==
    CASE v = "127.0.0.1:7777" -> [c EXCEPT !.bind = "127.0.0.1", !.port = "7777"]
      [] v = "127.0.0.1" -> [c EXCEPT !.bind = v]
      [] OTHER -> [c EXCEPT !.port = v]

\* -S: how the supernode is reached, and nobody else.
Solitude(c, v) ==
    [c EXCEPT !.p2p = @ /\ v = "0",
              !.tcp = IF v = "0" THEN @ ELSE v = "2",
              !.kcp = IF v = "0" THEN @ ELSE v # "2",
              !.fallback = IF v = "0" THEN @ ELSE v = "3"]

Preferred(c, v) ==
    IF v = "auto" THEN [c EXCEPT !.auto = TRUE, !.preferred = "0.0.0.0"]
    ELSE [c EXCEPT !.preferred = IF v = "bad" THEN None ELSE v]

\* Mutant: the password is bound to the user's name when it is read.
NewSecretBound(c, v) == <<v, c.desc>>

\* -J: the key is made from the password alone.
NewSecret(c, v) == <<v>>

\* Options that end the program: help(2), help(3), or an argument that
\* setPayloadEncryption or setPayloadCompression does not know.
Ends(o) ==
    \/ o[1] \in {"h", "@", "n", "s"}
    \/ o[1] = "P" /\ o[2] = "too long"
    \/ o[1] = "A" /\ o[2] \notin DOMAIN Ciphers
    \/ o[1] = "z" /\ o[2] \notin DOMAIN Compressors

setOption(c, o) ==
    LET v == o[2]
    IN CASE o[1] = "a" -> scan_address(c, v)
         [] o[1] = "c" -> [c EXCEPT !.community = v]
         [] o[1] = "k" -> [c EXCEPT !.key = v]
         [] o[1] = "A" -> [c EXCEPT !.transop = Ciphers[v]]
         [] o[1] = "z" -> [c EXCEPT !.compression = Compressors[v]]
         [] o[1] = "H" -> [c EXCEPT !.header = TRUE]
         [] o[1] = "l" -> IF v \in Host THEN edge_conf_add_supernode(c, v) ELSE c
         [] o[1] = "i" -> [c EXCEPT !.interval = v]
         [] o[1] = "I" -> [c EXCEPT !.desc = v]
         [] o[1] = "J" -> [c EXCEPT !.secret = NewSecret(c, v)]
         [] o[1] = "P" -> [c EXCEPT !.federation = v]
         [] o[1] = "p" -> Bound(c, v)
         [] o[1] = "e" -> Preferred(c, v)
         [] o[1] = "S" -> Solitude(c, v)
         [] o[1] = "[" -> [c EXCEPT !.strategy = "rtt"]
         [] o[1] = "]" -> [c EXCEPT !.strategy = "mac"]
         [] o[1] = "t" -> [c EXCEPT !.plain = v]

\* loadFromCLI on one option; '?' ends its loop.
loadFromCLI(o) ==
    /\ Len(given) < MaxOptions
    /\ given' = Append(given, o)
    /\ IF o[1] = "?" \/ deaf
       THEN UNCHANGED <<phase, conf, heard>>
       ELSE /\ heard' = Append(heard, o)
            /\ IF Ends(o) THEN phase' = "exit" /\ UNCHANGED conf
               ELSE conf' = setOption(conf, o) /\ UNCHANGED phase

\* loadFromFile calls loadFromCLI for every line.
Line(o) == phase = "file" /\ loadFromCLI(o) /\ UNCHANGED <<env, dns, deaf, rc>>
EndOfFile == phase = "file" /\ phase' = "cli" /\ UNCHANGED <<env, dns, deaf, rc, conf, given, heard>>

Argument(o) ==
    /\ phase = "cli" /\ loadFromCLI(o)
    /\ deaf' = (deaf \/ o[1] = "?")
    /\ rc' = 0
    /\ UNCHANGED <<env, dns>>

----------------------------------------------------------------------------
\* The crypto setup of main, when all options are known.
CryptoSetup(c) ==
    LET fed == IF c.federation = None THEN "default" ELSE c.federation
    IN [c EXCEPT !.transop = IF @ = "null" /\ c.key # None THEN "aes" ELSE @,
                 !.federation = IF c.secret = <<>> THEN @ ELSE fed,
                 !.secret = IF @ = <<>> THEN @ ELSE @ \o <<c.desc, fed>>,
                 !.header = @ \/ c.secret # <<>>]

edge_verify_conf(c) ==
    /\ c.community # None /\ c.sn_num # 0 /\ c.supernodes # {} /\ c.interval # "0"
    /\ (c.key = None) <=> (c.transop = "null")

TapMode(c) ==
    IF c.ip_mode = "static" \/ (c.ip_mode = "" /\ c.ip # "") THEN "static"
    ELSE IF c.ip_mode = "dhcp" THEN "dhcp" ELSE "sn_assign"

\* The rest of main, up to the first packet: short help, or the edge starts.
main ==
    LET c == CryptoSetup(conf)
    IN /\ phase = "cli"
       /\ conf' = [c EXCEPT !.tap = TapMode(c)]
       /\ phase' = IF rc = 0 /\ edge_verify_conf(c) THEN "started" ELSE "exit"
       /\ UNCHANGED <<env, dns, deaf, rc, given, heard>>

Init ==
    /\ env \in Environments /\ dns \in [Host -> Address \cup {None}]
    /\ phase \in {"file", "cli"}
    /\ rc = (IF phase = "file" THEN 0 ELSE 1)   \* 1 for -1: no file, and no options yet
    /\ deaf = FALSE /\ conf = edge_init_conf_defaults /\ given = <<>> /\ heard = <<>>

Next ==
    \/ \E o \in Options : Line(o) \/ Argument(o)
    \/ EndOfFile \/ main

Spec == Init /\ [][Next]_vars

----------------------------------------------------------------------------
\* The last argument given for one of these letters, of those in V.
LastOf(L, V, default) ==
    LET at == {i \in 1..Len(heard) : heard[i][1] \in L /\ heard[i][2] \in V}
    IN IF at = {} THEN default ELSE heard[CHOOSE i \in at : \A j \in at : j <= i][2]
Values == {o[2] : o \in Options}
Latest(l, default) == LastOf({l}, Values, default)
Was(l) == \E i \in 1..Len(heard) : heard[i][1] = l

\* What an edge that started uses follows from the last argument of each option
\* and from the environment, whatever the order: the password is bound to the
\* user's name and the federation's key (-J, -I, -P), a key without a cipher means
\* AES and a cipher needs a key (-k, -A), a password means header encryption (-H),
\* and the last level of -S decides how the supernode is reached
\* (setOption, and main's setup after it).
OrderDoesNotMatter ==
    phase = "started" =>
    LET key == Latest("k", env.key)
        password == Latest("J", env.password)
        cipher == IF Was("A") THEN Ciphers[Latest("A", None)] ELSE "null"
        level == LastOf({"S"}, {"1", "2", "3"}, "0")
    IN /\ conf.community = Latest("c", env.community)
       /\ conf.key = key
       /\ conf.transop = IF key # None /\ cipher = "null" THEN "aes" ELSE cipher
       /\ conf.secret = IF password = None THEN <<>>
                        ELSE <<password, Latest("I", "hostname"), Latest("P", "default")>>
       /\ conf.header = (Was("H") \/ password # None)
       /\ conf.p2p = (level = "0")
       /\ conf.tcp = (level = "2") /\ conf.kcp = (level # "2") /\ conf.fallback = (level \in {"0", "3"})
       /\ conf.port = (LET v == LastOf({"p"}, Values \ {"127.0.0.1"}, "0")
                       IN IF v = "127.0.0.1:7777" THEN "7777" ELSE v)
       /\ conf.bind = (IF LastOf({"p"}, {"127.0.0.1", "127.0.0.1:7777"}, None) = None THEN "any" ELSE "127.0.0.1")

Named == {heard[i][2] : i \in {j \in 1..Len(heard) : heard[j][1] = "l"}} \cap Host

\* Every supernode given with -l whose name resolves is in the list, under a name
\* that leads to it and only once (edge_conf_add_supernode).
ResolvedKept ==
    /\ \A h \in Named : dns[h] # None => \E s \in conf.supernodes : s.sock = dns[h] /\ dns[s.name] = dns[h]
    /\ \A s, t \in conf.supernodes : s.sock = t.sock => s = t

=============================================================================

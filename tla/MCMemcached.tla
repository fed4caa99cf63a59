---------------------------- MODULE MCMemcached ----------------------------
(* Two pages of two chunks each, three keys stored and two connections.    *)
EXTENDS Memcached

MCPageChunks == "p" :> <<"a", "b">> @@ "q" :> <<"c", "d">>
MCFirstPages == <<"p", "q">>
MCFreshPages == <<>>
MCPmemPool == <<>>
MCPreloaded == <<"k3", "k2", "k1", "k3">>

MCSymmetry == Permutations(Conns)

Shift(threads, dying, n, cmds) ==
  [awake |-> threads, dying |-> dying, commands |-> n, cmds |-> cmds]

AllCommands == {"set", "add", "append", "cas", "get", "touch", "delete", "incr"}

(* Which threads run beside the connections, and what those are asked.     *)
MCShifts ==
  {Shift({Mover}, FALSE, 2, {"set", "append", "cas", "get", "incr"}),
   Shift({Mover}, TRUE, 1, AllCommands \cup {"flush_all"}),
   Shift({Lru}, FALSE, 2, {"set", "get", "incr"}),
   Shift({Lru}, TRUE, 1, AllCommands \cup {"flush_all"}),
   Shift({}, TRUE, 2, {"append", "flush_all"}),
   Shift({Lru, Crawler}, TRUE, 1, {"get"}),
   Shift({Crawler}, TRUE, 2, {"set", "delete", "flush_all"}),
   Shift({Mover, Lru}, TRUE, 1, {"set", "append", "flush_all"})}

(* Items die while the mover and the LRU maintainer run.                   *)
MCTogetherShifts == {Shift({Mover, Lru}, TRUE, 2, {"get", "flush_all"})}
=============================================================================

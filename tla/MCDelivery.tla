----------------------------- MODULE MCDelivery -----------------------------
(***************************************************************************)
(* Small instances of three parts that share no state: the mesh, the       *)
(* chunked transfer of one hop, and the local socket with one call, a      *)
(* subscriber and the process that holds the daemon.  A behaviour is a     *)
(* behaviour of one of them.                                               *)
(***************************************************************************)
EXTENDS Mesh, Transfer, Ipc, TLC

CONSTANTS a, b, c, e1, e2, h1, h2

VARIABLE part

MCOriginOf == (e1 :> a @@ e2 :> b)
MCHashOf == (e1 :> h1 @@ e2 :> h2)
MCPrimaryOf == (a :> b @@ b :> a @@ c :> a)
InLine == {<<a, b>>, <<b, a>>, <<b, c>>, <<c, b>>}

\* One item in a full mesh where a link, a daemon, a pairing or a policy fails; two
\* items between two devices, with the same faults; two items that cross on a line.
MCPlans ==
    {[paired |-> Pairs, todo |-> {e1}, losses |-> 1, trouble |-> 1],
     [paired |-> {<<a, b>>, <<b, a>>}, todo |-> {e1, e2}, losses |-> 1, trouble |-> 1],
     [paired |-> InLine, todo |-> {e1, e2}, losses |-> 1, trouble |-> 0]}

\* One peer with two encodings of the item; two peers with one each.
MCSendings == {(a :> {1, 2} @@ b :> {}), (a :> {1} @@ b :> {2})}
MCTotal == <<2, 1>>

\* The parts that do not run keep one initial state, in which fairness asks nothing
\* of them and their properties hold.
MCInit ==
    /\ MeshInit /\ TransferInit /\ IpcInit
    /\ \/ part = "mesh" /\ unsent[b] = {}
       \/ part = "transfer" /\ paired = InLine
       \/ part = "ipc" /\ unsent[b] = {} /\ paired = InLine

MCNext ==
    \/ part = "mesh" /\ MeshNext /\ UNCHANGED <<transferVars, ipcVars, part>>
    \/ part = "transfer" /\ TransferNext /\ UNCHANGED <<meshVars, ipcVars, part>>
    \/ part = "ipc" /\ IpcNext /\ UNCHANGED <<meshVars, transferVars, part>>

MCSpec ==
    /\ MCInit /\ [][MCNext]_<<meshVars, transferVars, ipcVars, part>>
    /\ MeshFairness /\ TransferFairness /\ IpcFairness
=============================================================================

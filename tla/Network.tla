------------------------------ MODULE Network ------------------------------
(***************************************************************************)
(* The socket table of src/x86_64/drivers/network/hell_network.c, composed *)
(* with the heap allocator that provides each socket's receive buffer.     *)
(*                                                                         *)
(* net.sock[s] is sockets[s] reduced to what a later call reads: the       *)
(* socket_id (0 marks a free slot), type, state, local and remote port,    *)
(* the buffer pointer (NULL or a heap payload offset) and the two flags    *)
(* is_listening and is_connected.  The sockets' IP addresses are data the *)
(* table never compares and are left out.  net.up is network_initialized. *)
(*                                                                         *)
(* link is network_interface and network_stats: the three configured      *)
(* addresses, is_up and the packet counters something increments; the MAC *)
(* address and byte counts are left out.  given is a history variable: the *)
(* address string each field was last configured from.                    *)
(*                                                                         *)
(* socket_accept and socket_receive change no state and are not actions.  *)
(* socket ids are int and next_socket_id only grows; MaxSocketId bounds it *)
(* below the signed overflow.  MaxPackets bounds the packet counters.      *)
(***************************************************************************)
EXTENDS HeapOps

CONSTANTS
    MAX_SOCKETS,    \* size of sockets[] (hell_network.c:19, scaled)
    BUFFER_SIZE,    \* NETWORK_BUFFER_SIZE (hell_network.c:21, scaled)
    Ports,          \* ports callers bind and connect to
    MaxSocketId,    \* bound: next_socket_id never exceeds it
    IpStrings,      \* address strings callers pass, as sequences of char codes
    MaxPackets,     \* bound: packets counted since init_network_driver
    ConfigCalls     \* argument triples set_network_config is called with

TCP == "TCP"
UDP == "UDP"
CLOSED == "CLOSED"
LISTENING == "LISTENING"
CONNECTED == "CONNECTED"
SocketStates == {CLOSED, LISTENING, CONNECTED}

Sockets == 0..(MAX_SOCKETS - 1)

VARIABLES heap, net, link, given

vars == <<heap, net, link, given>>

\* find_socket_by_id: the first slot whose socket_id equals id, or NULL.
FindSocket(n, id) ==
    LET S == {s \in Sockets : n.sock[s].id = id}
    IN IF S = {} THEN NULL ELSE Min(S)

\* The fields init_network_driver writes into every slot.
FreeSocket == [id |-> 0, type |-> TCP, state |-> CLOSED, lport |-> 0,
               rport |-> 0, buf |-> NULL, listening |-> FALSE,
               connected |-> FALSE]

\* Static storage before init_network_driver: zero, which is the same.
NetBoot == [sock |-> [s \in Sockets |-> FreeSocket], nextId |-> 1, up |-> FALSE]

Fields == {"ip", "mask", "gw"}
NoAddr == <<0, 0, 0, 0>>

\* network_interface and network_stats in static storage: zero.
LinkBoot == [ip |-> NoAddr, mask |-> NoAddr, gw |-> NoAddr, isUp |-> FALSE,
             sent |-> 0, received |-> 0, tcp |-> 0, udp |-> 0, icmp |-> 0,
             ifSent |-> 0]

\* What init_network_driver writes: the default addresses, is_up, and
\* every counter reset.
LinkUp == [LinkBoot EXCEPT !.ip = <<192, 168, 1, 100>>,
                           !.mask = <<255, 255, 255, 0>>,
                           !.gw = <<192, 168, 1, 1>>, !.isUp = TRUE]

\* A char* argument: <<>> is NULL and <<s>> points at the string s.
Args == {<<>>} \cup {<<s>> : s \in IpStrings}

ASSUME ConfigCalls \subseteq [Fields -> Args]

DOT == 46
ZERO == 48
NINE == 57

\* The loop of parse_ip_address: the number read so far is stored at each
\* dot, digits accumulate into current_value and other characters are
\* skipped; the loop ends with the string or once count reaches 4.
RECURSIVE ParseFrom(_, _, _, _, _)
ParseFrom(s, i, count, cur, vals) ==
    IF i > Len(s) \/ count >= 4 THEN <<count, Append(vals, cur)>>
    ELSE IF s[i] = DOT
         THEN ParseFrom(s, i + 1, count + 1, 0, Append(vals, cur))
    ELSE IF ZERO <= s[i] /\ s[i] <= NINE
         THEN ParseFrom(s, i + 1, count, cur * 10 + (s[i] - ZERO), vals)
    ELSE ParseFrom(s, i + 1, count, cur, vals)

ParseIpAddressAnyCount(s, ip) ==
    LET r == ParseFrom(s, 1, 0, 0, <<>>)
    IN IF r[1] >= 3 THEN [k \in 1..4 |-> r[2][k] % 256] ELSE ip

\* parse_ip_address(s, ip): the four values, each cast to uint8_t, replace
\* ip only when exactly three dots were seen; otherwise ip is kept.
ParseIpAddress(s, ip) ==
    LET r == ParseFrom(s, 1, 0, 0, <<>>)
    IN IF r[1] = 3 THEN [k \in 1..4 |-> r[2][k] % 256] ELSE ip

\* The reading of an address string the interface should end up with,
\* stated without the loop: exactly three dots split it into four fields,
\* and the digits of each field, in decimal, give one byte modulo 256.
IsDigit(c) == ZERO <= c /\ c <= NINE
Decimal(ds) == FoldLeft(LAMBDA acc, c : acc * 10 + (c - ZERO), 0, ds)
DotsOf(s) == {i \in 1..Len(s) : s[i] = DOT}
IsDottedQuad(s) == Cardinality(DotsOf(s)) = 3
DottedQuad(s) ==
    LET b == <<0>> \o SetToSortSeq(DotsOf(s), <) \o <<Len(s) + 1>>
    IN [k \in 1..4 |-> Decimal(SelectSeq(SubSeq(s, b[k] + 1, b[k + 1] - 1),
                                         IsDigit)) % 256]

\* kernel_main runs init_memory_manager before init_network_driver.
Init ==
    /\ heap = InitMemoryManager(HeapBoot)
    /\ net = NetBoot
    /\ link = LinkBoot
    /\ given = [f \in Fields |-> <<>>]

(***************************************************************************)
(* init_network_driver: every slot is reset, buffers included (their      *)
(* pointers are overwritten, not freed), the interface gets its default   *)
(* configuration and is up, the statistics are reset, and the driver is   *)
(* up.  kernel_main calls it once; after shutdown it may be called again. *)
(***************************************************************************)
InitNetworkDriver ==
    /\ ~net.up
    /\ net' = [net EXCEPT !.sock = [s \in Sockets |-> FreeSocket], !.up = TRUE]
    /\ link' = LinkUp
    /\ given' = [f \in Fields |-> <<>>]
    /\ UNCHANGED heap

(***************************************************************************)
(* socket_create: the first free slot gets the next id, TCP for type 1    *)
(* and UDP otherwise, and a buffer from malloc.  A failed malloc leaves   *)
(* the buffer NULL; the socket is created all the same.                   *)
(***************************************************************************)
SocketCreate(type) ==
    LET s == FindSocket(net, 0)
        r == Malloc(heap, BUFFER_SIZE)
    IN /\ net.up
       /\ s # NULL
       /\ net.nextId < MaxSocketId
       /\ heap' = r[1]
       /\ net' = [net EXCEPT
                    !.nextId = @ + 1,
                    !.sock[s] = [FreeSocket EXCEPT
                                   !.id = net.nextId,
                                   !.type = IF type = 1 THEN TCP ELSE UDP,
                                   !.buf = r[2]]]
       /\ UNCHANGED <<link, given>>

\* socket_create with the driver down or the table full: returns -1.
SocketCreateRefused ==
    /\ ~net.up \/ FindSocket(net, 0) = NULL
    /\ UNCHANGED vars

\* socket_bind: sets the local port of whatever slot matches.
SocketBind(id, port) ==
    LET s == FindSocket(net, id)
    IN /\ s # NULL
       /\ net' = [net EXCEPT !.sock[s].lport = port]
       /\ UNCHANGED <<heap, link, given>>

\* socket_listen: TCP only; the state and the listening flag are set,
\* nothing else is touched.
SocketListen(id) ==
    LET s == FindSocket(net, id)
    IN /\ s # NULL
       /\ net.sock[s].type = TCP
       /\ net' = [net EXCEPT !.sock[s].state = LISTENING,
                             !.sock[s].listening = TRUE]
       /\ UNCHANGED <<heap, link, given>>

\* socket_connect: TCP only; CONNECTING then CONNECTED in the same call.
SocketConnect(id, port) ==
    LET s == FindSocket(net, id)
    IN /\ s # NULL
       /\ net.sock[s].type = TCP
       /\ net' = [net EXCEPT !.sock[s].rport = port,
                             !.sock[s].state = CONNECTED,
                             !.sock[s].connected = TRUE]
       /\ UNCHANGED <<heap, link, given>>

\* A socket operation on an id no slot holds: returns -1.
SocketMiss(id) ==
    /\ FindSocket(net, id) = NULL
    /\ UNCHANGED vars

\* socket_close of the slot s: free the buffer if set, then reset the id,
\* the state and both flags (type and ports stay).
CloseSlotNoFree(h, n, s) ==
    <<h, [n EXCEPT !.sock[s].buf = NULL, !.sock[s].id = 0,
                   !.sock[s].state = CLOSED, !.sock[s].listening = FALSE,
                   !.sock[s].connected = FALSE]>>

CloseSlotInvalidId(h, n, s) ==
    LET b == n.sock[s].buf
    IN <<IF b # NULL THEN Free(h, b) ELSE h,
         [n EXCEPT !.sock[s].buf = NULL, !.sock[s].id = -1,
                   !.sock[s].state = CLOSED, !.sock[s].listening = FALSE,
                   !.sock[s].connected = FALSE]>>

CloseSlot(h, n, s) ==
    LET b == n.sock[s].buf
    IN <<IF b # NULL THEN Free(h, b) ELSE h,
         [n EXCEPT !.sock[s].buf = NULL, !.sock[s].id = 0,
                   !.sock[s].state = CLOSED, !.sock[s].listening = FALSE,
                   !.sock[s].connected = FALSE]>>

SocketClose(id) ==
    LET s == FindSocket(net, id)
        r == CloseSlot(heap, net, s)
    IN /\ s # NULL
       /\ heap' = r[1]
       /\ net' = r[2]
       /\ UNCHANGED <<link, given>>

\* The loop of shutdown_network_driver: slots in index order, each one
\* with a nonzero id closed through socket_close(its id).
RECURSIVE CloseFrom(_, _, _)
CloseFrom(h, n, i) ==
    IF i >= MAX_SOCKETS THEN <<h, n>>
    ELSE IF n.sock[i].id # 0
         THEN LET r == CloseSlot(h, n, FindSocket(n, n.sock[i].id))
              IN CloseFrom(r[1], r[2], i + 1)
         ELSE CloseFrom(h, n, i + 1)

\* A shutdown that marks the driver down without closing the sockets.
ShutdownNoClose ==
    /\ net.up
    /\ heap' = heap
    /\ net' = [net EXCEPT !.up = FALSE]
    /\ link' = [link EXCEPT !.isUp = FALSE]
    /\ UNCHANGED given

\* shutdown_network_driver: close every open socket, mark the interface
\* down, then the driver.
ShutdownNetworkDriver ==
    LET r == CloseFrom(heap, net, 0)
    IN /\ net.up
       /\ heap' = r[1]
       /\ net' = [r[2] EXCEPT !.up = FALSE]
       /\ link' = [link EXCEPT !.isUp = FALSE]
       /\ UNCHANGED given

\* Ids callers pass: every id issued so far, the next one, 0 and -1 (the
\* error result of socket_create).
CallerIds == {-1} \cup 0..net.nextId

(***************************************************************************)
(* The packet paths.  None of them moves data: each checks its arguments  *)
(* and counts.  Counting stops at MaxPackets packets since the last       *)
(* init_network_driver.                                                   *)
(***************************************************************************)
Counted == link.sent + link.received + link.icmp

\* socket_send(id, data, length): refused for an id no slot holds, a zero
\* length, or a TCP socket not connected; network_initialized is not
\* tested.  Otherwise one packet is counted, as TCP or as UDP.
SocketSend(id, length) ==
    LET s == FindSocket(net, id)
    IN /\ s # NULL
       /\ length # 0
       /\ net.sock[s].type = TCP => net.sock[s].connected
       /\ Counted < MaxPackets
       /\ link' = [link EXCEPT !.sent = @ + 1,
                               !.tcp = IF net.sock[s].type = TCP THEN @ + 1 ELSE @,
                               !.udp = IF net.sock[s].type = UDP THEN @ + 1 ELSE @]
       /\ UNCHANGED <<heap, net, given>>

SocketSendRefused(id, length) ==
    LET s == FindSocket(net, id)
    IN /\ \/ s = NULL
          \/ length = 0
          \/ s # NULL /\ net.sock[s].type = TCP /\ ~net.sock[s].connected
       /\ UNCHANGED vars

\* send_packet(data, length, ...): refused while the driver is down or for
\* a zero length; otherwise counted in network_stats and the interface.
SendPacket(length) ==
    /\ net.up
    /\ length # 0
    /\ Counted < MaxPackets
    /\ link' = [link EXCEPT !.sent = @ + 1, !.ifSent = @ + 1]
    /\ UNCHANGED <<heap, net, given>>

\* process_network_packets: counts one received packet while the driver is up.
ProcessNetworkPackets ==
    /\ net.up
    /\ Counted < MaxPackets
    /\ link' = [link EXCEPT !.received = @ + 1]
    /\ UNCHANGED <<heap, net, given>>

\* ping_host(ip_str): refused while down or for NULL; the parsed target is
\* a local nothing reads, and one ICMP packet is counted.
PingHost(arg) ==
    /\ net.up
    /\ arg # <<>>
    /\ Counted < MaxPackets
    /\ link' = [link EXCEPT !.icmp = @ + 1]
    /\ UNCHANGED <<heap, net, given>>

\* send_packet, ping_host or set_network_config while the driver is down,
\* or ping_host(NULL): returns -1.
LinkCallRefused(arg) ==
    /\ ~net.up \/ arg = <<>>
    /\ UNCHANGED vars

\* set_network_config(ip, subnet, gateway): refused while down; each
\* non-NULL string is parsed into its field, in that order.
SetNetworkConfig(a) ==
    /\ net.up
    /\ link' = [f \in DOMAIN link |->
                   IF f \in Fields /\ a[f] # <<>>
                   THEN ParseIpAddress(a[f][1], link[f]) ELSE link[f]]
    /\ given' = [f \in Fields |->
                   IF a[f] # <<>> /\ IsDottedQuad(a[f][1]) THEN a[f] ELSE given[f]]
    /\ UNCHANGED <<heap, net>>

\* The calls that touch the socket table.
SocketNext ==
    \/ InitNetworkDriver
    \/ \E t \in {1, 2} : SocketCreate(t)
    \/ SocketCreateRefused
    \/ \E id \in CallerIds, p \in Ports : SocketBind(id, p)
    \/ \E id \in CallerIds : SocketListen(id)
    \/ \E id \in CallerIds, p \in Ports : SocketConnect(id, p)
    \/ \E id \in CallerIds : SocketMiss(id)
    \/ \E id \in CallerIds : SocketClose(id)
    \/ ShutdownNetworkDriver

\* The calls that only count packets or configure the interface.
LinkNext ==
    \/ \E id \in CallerIds, n \in {0, 1} : SocketSend(id, n) \/ SocketSendRefused(id, n)
    \/ \E n \in {0, 1} : SendPacket(n)
    \/ ProcessNetworkPackets
    \/ \E a \in Args : PingHost(a) \/ LinkCallRefused(a)
    \/ \E a \in ConfigCalls : SetNetworkConfig(a)

Next == SocketNext \/ LinkNext

Spec == Init /\ [][Next]_vars

-----------------------------------------------------------------------------
Open == {s \in Sockets : net.sock[s].id # 0}

Addrs == [1..4 -> 0..255]

TypeOK ==
    /\ net.sock \in [Sockets -> [id : 0..MaxSocketId, type : {TCP, UDP},
                                 state : SocketStates, lport : {0} \cup Ports,
                                 rport : {0} \cup Ports,
                                 buf : {NULL} \cup {a + HDR : a \in Addr},
                                 listening : BOOLEAN, connected : BOOLEAN]]
    /\ net.nextId \in 1..MaxSocketId
    /\ net.up \in BOOLEAN
    /\ link \in [ip : Addrs, mask : Addrs, gw : Addrs, isUp : BOOLEAN,
                 sent : 0..MaxPackets, received : 0..MaxPackets,
                 tcp : 0..MaxPackets, udp : 0..MaxPackets,
                 icmp : 0..MaxPackets, ifSent : 0..MaxPackets]
    /\ given \in [Fields -> Args]

(***************************************************************************)
(* Each open socket owns its buffer, no two share one, and the heap's     *)
(* allocated blocks are exactly these buffers: socket_create's malloc,    *)
(* socket_close's free and shutdown's close loop neither leak a buffer    *)
(* nor free one twice, whatever ids callers pass (0 included).            *)
(***************************************************************************)
BuffersOwnedExactly ==
    LET Alloc == {a + HDR : a \in {b \in ToSet(Blocks(heap)) : ~heap.mem[b].free}}
        Bufs  == {net.sock[s].buf : s \in {t \in Open : net.sock[t].buf # NULL}}
    IN /\ Bufs = Alloc
       /\ \A s \in Sockets : net.sock[s].id = 0 => net.sock[s].buf = NULL
       /\ \A s, t \in Open : s # t /\ net.sock[s].buf # NULL
                              => net.sock[s].buf # net.sock[t].buf

(***************************************************************************)
(* While the driver is down no socket is open: shutdown_network_driver    *)
(* closes every slot with a nonzero id before it clears                   *)
(* network_initialized, and socket_create refuses while it is clear.      *)
(***************************************************************************)
DownMeansNoSockets ==
    ~net.up => Open = {}

(***************************************************************************)
(* While the interface is up, each configured address (ip, subnet mask,   *)
(* gateway) reads as the last dotted-quad string set_network_config was   *)
(* given for it, or is the default init_network_driver wrote if there was *)
(* none since: parse_ip_address leaves the field alone for a string       *)
(* without exactly three dots, skips non-digits, and truncates each value *)
(* to uint8_t, as a field-by-field reading of the string does.            *)
(***************************************************************************)
ConfigMatchesLastAddress ==
    link.isUp =>
        \A f \in Fields :
            link[f] = IF given[f] = <<>> THEN LinkUp[f]
                      ELSE DottedQuad(given[f][1])

=============================================================================

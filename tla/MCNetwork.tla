----------------------------- MODULE MCNetwork -----------------------------
(* The socket table, instantiated for TLC. *)
EXTENDS Network

MCPorts == {1}

\* "9.1..3x00": an empty field, a skipped letter and 300, which the cast
\* to uint8_t turns into 44; "1.2.3.4.5": four dots, which leaves the
\* address unchanged.
MCIpStrings == {<<57, 46, 49, 46, 46, 51, 120, 48, 48>>,
                <<49, 46, 50, 46, 51, 46, 52, 46, 53>>}

\* Two set_network_config calls: the address field is given the string
\* parse_ip_address takes and the one it rejects, the mask only the
\* rejected one, the gateway the taken one or NULL.
MCConfigCalls ==
    LET q == <<<<57, 46, 49, 46, 46, 51, 120, 48, 48>>>>
        r == <<<<49, 46, 50, 46, 51, 46, 52, 46, 53>>>>
    IN {[ip |-> q, mask |-> r, gw |-> <<>>],
        [ip |-> r, mask |-> <<>>, gw |-> q]}

=============================================================================

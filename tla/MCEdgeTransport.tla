-------------------------- MODULE MCEdgeTransport --------------------------
(* Instances of EdgeTransport for TLC. *)
EXTENDS EdgeTransport

AllConfs == {SMode.S1, SMode.S2, SMode.S3}
OnlyS3 == {SMode.S3}

\* Everything may fail at any time.
Hostile == {[udpOpen |-> BOOLEAN, tcpOpen |-> BOOLEAN, tcpSend |-> BOOLEAN,
             answers |-> {"UDP", "TCP"}]}

\* UDP sockets can always be opened; TCP streams come and go.
UnsteadyTcp == {[udpOpen |-> {TRUE}, tcpOpen |-> {TRUE}, tcpSend |-> BOOLEAN,
                 answers |-> {"UDP", "TCP"}]}

=============================================================================

---------------------------- MODULE MCTcpStream ----------------------------
(* Instances of TcpStream for TLC. *)
EXTENDS TcpStream

\* A frame with bytes to escape, an overlong one and two plain ones; then a
\* second connection.
TwoSessions ==
  << << <<"7E", "61">>, <<"61", "61", "7D">>, <<"5D">>, <<"7D", "41">> >>,
     << <<"61">>, <<"41">> >> >>

\* Four short frames, so that a netbuf can hold three.
OneSession == << << <<"7E">>, <<"61">>, <<"41">>, <<"61">> >> >>
=============================================================================

---------------------------- MODULE MCSocksHandshake ----------------------------
(***************************************************************************)
(* Foreign peers for SocksHandshake: every combination of the fields of a  *)
(* handshake, right and wrong ones, with and without payload behind it.    *)
(***************************************************************************)
EXTENDS SocksHandshake

\* Address types with an encoded address; 9 is not a name.
Addresses ==
  {<<1, <<1, 2, 3, 4>>>>, <<2, <<>>>>, <<3, <<2, 6, 4>>>>, <<3, <<0>>>>, <<3, <<1, 9>>>>,
   <<4, [i \in 1 .. 16 |-> i % 6]>>}

Ends == {[type |-> a[1], address |-> a[2], port |-> <<1, 4>>, payload |-> p] :
           a \in Addresses, p \in {<<>>, <<5>>}}

MCFromClient ==
  [version : {4, 5}, methods : {<<>>, <<0>>, <<2>>, <<2, 0>>}, request : {5, 6}, command : {1, 2},
   reserved : {0}, to : Ends]

\* A method, and the answer to the password that it makes the client send.
Chosen == {<<0, <<>>>>, <<2, <<1, 0>>>>, <<2, <<1, 1>>>>, <<Byte, <<>>>>, <<3, <<>>>>}

MCFromServer ==
  {[version |-> f[1], method |-> f[2][1], auth |-> f[2][2], reply |-> f[3], code |-> f[4],
    reserved |-> 0, bound |-> f[5]] : f \in {4, 5} \X Chosen \X {5, 6} \X {0, 1} \X Ends}

TooLong == [i \in 1 .. Byte + 1 |-> 4]

MCHosts == {<<>>, <<6, 4>>, TooLong}

MCLogins ==
  {NoLogin, [user |-> <<6>>, password |-> <<6, 4>>], [user |-> TooLong, password |-> <<>>],
   [user |-> <<6>>, password |-> TooLong]}
=============================================================================

------------------------- MODULE MCRequestAssembly -------------------------
(* RequestAssembly with the shapes of requests that tell its parts apart.  *)
EXTENDS RequestAssembly

Line == <<"line", 1>>
Length(n) == <<"content-length", n>>
Byte == <<"byte", 1>>

Get(fields) == [line |-> Line, fields |-> fields, body |-> <<>>]
Post(fields, body) == [line |-> <<"line", 2>>, fields |-> fields, body |-> body]

MCRequests == {
  Get(<<>>),
  Get(<< <<"connection", CLOSE>> >>),
  Post(<<Length(0)>>, <<>>),
  \* a body that looks like the end of the headers and like a header
  Post(<<Length(3)>>, <<Crlf, Crlf, Length(9)>>),
  \* the same header twice, and a form with a field called data
  Post(<<Length(2), Length(1)>>, <<Byte, Byte>>),
  Post(<< <<"content-type", FORM>>, Length(2)>>, << <<"pair", "data">>, <<"pair", "user">> >>),
  \* does not fit the buffer
  Post(<<Length(7)>>, <<Byte, Byte, Byte, Byte, Byte, Byte, Byte>>),
  \* does not fit an int
  Post(<<Length(11)>>, [p \in 1 .. 11 |-> Byte]),
  \* lengths that are not the body's: negative, too large for an int, of
  \* another header, with a zero byte
  Post(<<Length(-1)>>, <<Byte>>),
  Post(<<Length(14)>>, <<Byte>>),
  Post(<< <<"x-content-length", 2>>, Length(1)>>, <<Byte>>),
  Post(<<Length(2)>>, <<Zero, Byte>>),
  \* the text Content-Length: in the request line, alone and before the header
  [line |-> <<"length-line", 9>>, fields |-> <<>>, body |-> <<>>],
  [line |-> <<"length-line", 0>>, fields |-> <<Length(1)>>, body |-> <<Byte>>] }

(* A fresh slot, one with the beginning of a request line, and one with a  *)
(* request of whose body most is missing.                                  *)
MCLeftovers == {
  <<>>,
  <<Byte>>,
  << <<"line", 2>>, Crlf, Length(9), Crlf, Crlf, Byte>> }
=============================================================================

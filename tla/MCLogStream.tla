---------------------------- MODULE MCLogStream -----------------------------
(***************************************************************************)
(* An instance of LogStream for TLC: four values of a byte, fields of one  *)
(* byte (an argument has at most 3 bytes, a row counts at most 3           *)
(* arguments), two bytes for the length of a response.                     *)
(***************************************************************************)
EXTENDS LogStream

\* S, G and D stand for the three methods; the same letters make keys and values.
MCSET == <<1>>
MCGET == <<2>>
MCDEL == <<3>>

\* SET k v; SET with a value of two words; a value that is too long; DEL k;
\* DEL with one argument more than the count can say; a line that is refused.
SomeLines == { <<1,0,2,0,3>>, <<1,0,3,3,0,2,0,1>>, <<1,0,2,0,1,1,1,0,2>>,
               <<3,0,2>>, <<3,0,1,0,1,0,2,0,1>>, <<1,0,2>> }

\* Every line of at most five bytes, and every sequence of lines above.
MCInputs == { <<l>> : l \in BoundedSeq(0..3, 5) }
            \cup UNION {[1..n -> SomeLines] : n \in 2..3}
=============================================================================

------------------------------- MODULE MCStream -------------------------------
(* Instances of Stream for TLC.                                                *)
EXTENDS Stream

\* A character and the end of a line.
MCByte == {"c", "nl"}

\* An empty line, a line with the beginning of the next, and one longer than
\* both buffers.
MCTexts == { <<"nl">>, <<"c", "nl", "c">>, <<"c", "c", "c", "c", "nl">> }

MCWants == {2}
=============================================================================

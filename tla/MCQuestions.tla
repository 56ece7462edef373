---------------------------- MODULE MCQuestions ----------------------------
(* Questions for TLC: two questions of the loop after the brief, and two    *)
(* challenges, so that an answer can come from one question to the next.    *)
EXTENDS Questions
=============================================================================

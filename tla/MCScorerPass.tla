---- MODULE MCScorerPass ----
EXTENDS ScorerPass
====

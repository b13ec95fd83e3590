---- MODULE MCImportPage ----
EXTENDS ImportPage
MCFiles == {[csv |-> c, large |-> l, readable |-> r] : c \in {TRUE, FALSE}, l \in {TRUE, FALSE}, r \in {TRUE, FALSE}}
====

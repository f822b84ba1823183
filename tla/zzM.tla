---- MODULE zzM ----
EXTENDS MCRaces
A1 == {DayProfile(2, 0, 0, 0, 2, 1, 1, 1)}
A2 == {DayProfile(2, 0, 0, 0, 1, 1, 1, 2)}
A3 == {DayProfile(1, 0, 0, 0, 2, 1, 1, 2)}
SR == (RacesInit /\ about = "day") /\ [][RacesNext]_<<vars, documents, about>>
D1 == {DocumentProfile(Race, 2, 3, 2, 0, 1)}
D2 == {DocumentProfile(Race, 1, 3, 2, 0, 2)}
SD == (RacesInit /\ about = "documents") /\ [][RacesNext]_<<vars, documents, about>>
====

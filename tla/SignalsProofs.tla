--------------------------- MODULE SignalsProofs ---------------------------
(***************************************************************************)
(* The safety of Signals, for every number of writing requests, every      *)
(* Threshold and OpenFor, and every bound on writes and faults.            *)
(***************************************************************************)
EXTENDS Signals, TLAPS

\* The router shows answers in the order of their reading, so a screen never
\* goes back, and nothing read is newer than what is stored.
ReadsInv ==
    /\ shown <= stored
    /\ answer # None => shown <= answer /\ answer <= stored

IInv == TypeOK /\ PollIffBlind /\ NothingAfterDispose /\ BreakerEarned /\ ReadsInv /\ StaleIsCovered

\* The invariant holds at the start.
LEMMA IInit == Init => IInv
<1> SUFFICES ASSUME Init PROVE IInv
  OBVIOUS
<1> USE DEF Init
<1>1. TypeOK
  <2>1. visible \in BOOLEAN /\ poll \in BOOLEAN /\ coalesce \in BOOLEAN /\ asked \in BOOLEAN
    OBVIOUS
  <2>2. link \in BOOLEAN /\ connected \in BOOLEAN /\ disposed \in BOOLEAN /\ lost \in BOOLEAN
    OBVIOUS
  <2>3. QED
    BY <2>1, <2>2, LimitsAssumption DEF TypeOK
<1>2. PollIffBlind
  BY DEF PollIffBlind
<1>3. NothingAfterDispose
  BY DEF NothingAfterDispose
<1>4. BreakerEarned
  BY LimitsAssumption DEF BreakerEarned
<1>5. ReadsInv
  BY DEF ReadsInv
<1>6. StaleIsCovered
  <2>1. visible => poll
    OBVIOUS
  <2>2. QED
    BY <2>1 DEF StaleIsCovered
<1>7. QED
  BY <1>1, <1>2, <1>3, <1>4, <1>5, <1>6 DEF IInv

\* The part of the types that is not Boolean, and the part that is: the provers
\* take them one at a time.
Numbers ==
    /\ stored \in 0..MaxWrites
    /\ request \in [Writers -> {"idle", "committed", "sending"}]
    /\ failures \in 0..Threshold /\ openFor \in 0..OpenFor
    /\ inFlight \in Nat
    /\ socket \in {"asking", "opening", "open", "off"}
    /\ token \in {"none", "valid", "expired"}
    /\ tokenTimer \in {"none", "armed", "minting"}
    /\ answer \in {None} \cup 0..MaxWrites /\ shown \in 0..MaxWrites
    /\ faults \in 0..MaxFaults

Flags ==
    /\ link \in BOOLEAN /\ connected \in BOOLEAN
    /\ visible \in BOOLEAN /\ disposed \in BOOLEAN
    /\ coalesce \in BOOLEAN /\ poll \in BOOLEAN
    /\ asked \in BOOLEAN /\ lost \in BOOLEAN

\* Counters stay within their bounds.
LEMMA NumbersStep == Numbers /\ [Next]_vars => Numbers'
<1> SUFFICES ASSUME Numbers, [Next]_vars PROVE Numbers'
  OBVIOUS
<1> USE DEF vars, apiVars, socketVars, routerVars, ClientUnchanged, ScreenUnchanged,
    ApiUnchanged, Numbers, Closed, NextFailures, StillWanted, None
<1>1. CASE UNCHANGED vars
  BY <1>1
<1>2. ASSUME NEW w \in Writers, Commit(w) PROVE Numbers'
  BY <1>2, LimitsAssumption DEF Commit
<1>3. ASSUME NEW w \in Writers, Skip(w) PROVE Numbers'
  BY <1>3, LimitsAssumption DEF Skip
<1>4. ASSUME NEW w \in Writers, Send(w) PROVE Numbers'
  BY <1>4, LimitsAssumption DEF Send
<1>5. ASSUME NEW w \in Writers, PublishOk(w) PROVE Numbers'
  BY <1>5, LimitsAssumption DEF PublishOk
<1>6. ASSUME NEW w \in Writers, PublishFails(w) PROVE Numbers'
  BY <1>6, LimitsAssumption DEF PublishFails
<1>7. ASSUME ApiDies PROVE Numbers'
  BY <1>7, LimitsAssumption DEF ApiDies
<1>8. ASSUME Tick PROVE Numbers'
  BY <1>8, LimitsAssumption DEF Tick
<1>9. ASSUME CoalesceFires PROVE Numbers'
  BY <1>9, LimitsAssumption DEF CoalesceFires
<1>10. ASSUME PollFires PROVE Numbers'
  BY <1>10, LimitsAssumption DEF PollFires
<1>11. ASSUME Hide PROVE Numbers'
  BY <1>11, LimitsAssumption DEF Hide
<1>12. ASSUME Show PROVE Numbers'
  BY <1>12, LimitsAssumption DEF Show
<1>13. ASSUME FocusOrOnline PROVE Numbers'
  BY <1>13, LimitsAssumption DEF FocusOrOnline
<1>14. ASSUME Dispose PROVE Numbers'
  BY <1>14, LimitsAssumption DEF Dispose
<1>15. ASSUME NoToken PROVE Numbers'
  BY <1>15, LimitsAssumption DEF NoToken
<1>16. ASSUME TokenGiven PROVE Numbers'
  BY <1>16, LimitsAssumption DEF TokenGiven
<1>17. ASSUME Opened PROVE Numbers'
  BY <1>17, LimitsAssumption DEF Opened
<1>18. ASSUME OpenFails PROVE Numbers'
  BY <1>18, LimitsAssumption DEF OpenFails
<1>19. ASSUME TokenTimerFires PROVE Numbers'
  BY <1>19, LimitsAssumption DEF TokenTimerFires
<1>20. ASSUME Minted PROVE Numbers'
  BY <1>20, LimitsAssumption DEF Minted
<1>21. ASSUME NotMinted PROVE Numbers'
  BY <1>21, LimitsAssumption DEF NotMinted
<1>22. ASSUME Joined PROVE Numbers'
  BY <1>22, LimitsAssumption DEF Joined
<1>23. ASSUME Subscribed PROVE Numbers'
  BY <1>23, LimitsAssumption DEF Subscribed
<1>24. ASSUME Drop PROVE Numbers'
  BY <1>24, LimitsAssumption DEF Drop
<1>25. ASSUME DropNoticed PROVE Numbers'
  BY <1>25, LimitsAssumption DEF DropNoticed
<1>26. ASSUME Deliver PROVE Numbers'
  BY <1>26, LimitsAssumption DEF Deliver
<1>27. ASSUME RefreshReads PROVE Numbers'
  BY <1>27 DEF RefreshReads
<1>28. ASSUME RefreshShows PROVE Numbers'
  BY <1>28, LimitsAssumption DEF RefreshShows
<1>29. ASSUME RefreshFails PROVE Numbers'
  BY <1>29, LimitsAssumption DEF RefreshFails
<1>30. QED
  BY <1>1, <1>2, <1>3, <1>4, <1>5, <1>6, <1>7, <1>8, <1>9, <1>10, <1>11, <1>12, <1>13, <1>14, 
     <1>15, <1>16, <1>17, <1>18, <1>19, <1>20, <1>21, <1>22, <1>23, <1>24, <1>25, <1>26, <1>27, 
     <1>28, <1>29 DEF Next

\* Flags stay flags.
LEMMA FlagsStep == Flags /\ [Next]_vars => Flags'
<1> SUFFICES ASSUME Flags, [Next]_vars PROVE Flags'
  OBVIOUS
<1> USE DEF vars, apiVars, socketVars, routerVars, ClientUnchanged, ScreenUnchanged,
    ApiUnchanged, Flags, ScheduleRefresh, RefreshNow, ScheduleNextPoll, Blind, CatchUp, Relying
<1>1. CASE UNCHANGED vars
  BY <1>1
<1>2. ASSUME NEW w \in Writers, Commit(w) PROVE Flags'
  BY <1>2 DEF Commit
<1>3. ASSUME NEW w \in Writers, Skip(w) PROVE Flags'
  BY <1>3 DEF Skip
<1>4. ASSUME NEW w \in Writers, Send(w) PROVE Flags'
  BY <1>4 DEF Send
<1>5. ASSUME NEW w \in Writers, PublishOk(w) PROVE Flags'
  BY <1>5 DEF PublishOk
<1>6. ASSUME NEW w \in Writers, PublishFails(w) PROVE Flags'
  BY <1>6 DEF PublishFails
<1>7. ASSUME ApiDies PROVE Flags'
  BY <1>7 DEF ApiDies
<1>8. ASSUME Tick PROVE Flags'
  BY <1>8 DEF Tick
<1>9. ASSUME CoalesceFires PROVE Flags'
  BY <1>9 DEF CoalesceFires
<1>10. ASSUME PollFires PROVE Flags'
  BY <1>10 DEF PollFires
<1>11. ASSUME Hide PROVE Flags'
  BY <1>11 DEF Hide
<1>12. ASSUME Show PROVE Flags'
  BY <1>12 DEF Show
<1>13. ASSUME FocusOrOnline PROVE Flags'
  BY <1>13 DEF FocusOrOnline
<1>14. ASSUME Dispose PROVE Flags'
  BY <1>14 DEF Dispose
<1>15. ASSUME NoToken PROVE Flags'
  BY <1>15 DEF NoToken
<1>16. ASSUME TokenGiven PROVE Flags'
  BY <1>16 DEF TokenGiven
<1>17. ASSUME Opened PROVE Flags'
  BY <1>17 DEF Opened
<1>18. ASSUME OpenFails PROVE Flags'
  BY <1>18 DEF OpenFails
<1>19. ASSUME TokenTimerFires PROVE Flags'
  BY <1>19 DEF TokenTimerFires
<1>20. ASSUME Minted PROVE Flags'
  BY <1>20 DEF Minted
<1>21. ASSUME NotMinted PROVE Flags'
  BY <1>21 DEF NotMinted
<1>22. ASSUME Joined PROVE Flags'
  BY <1>22 DEF Joined
<1>23. ASSUME Subscribed PROVE Flags'
  BY <1>23 DEF Subscribed
<1>24. ASSUME Drop PROVE Flags'
  BY <1>24 DEF Drop
<1>25. ASSUME DropNoticed PROVE Flags'
  BY <1>25 DEF DropNoticed
<1>26. ASSUME Deliver PROVE Flags'
  BY <1>26 DEF Deliver
<1>27. ASSUME RefreshReads PROVE Flags'
  BY <1>27 DEF RefreshReads
<1>28. ASSUME RefreshShows PROVE Flags'
  BY <1>28 DEF RefreshShows
<1>29. ASSUME RefreshFails PROVE Flags'
  BY <1>29 DEF RefreshFails
<1>30. QED
  BY <1>1, <1>2, <1>3, <1>4, <1>5, <1>6, <1>7, <1>8, <1>9, <1>10, <1>11, <1>12, <1>13, <1>14, 
     <1>15, <1>16, <1>17, <1>18, <1>19, <1>20, <1>21, <1>22, <1>23, <1>24, <1>25, <1>26, <1>27, 
     <1>28, <1>29 DEF Next

\* Every step keeps the types.
LEMMA TypeStep == TypeOK /\ [Next]_vars => TypeOK'
<1>1. TypeOK <=> Numbers /\ Flags
  BY DEF TypeOK, Numbers, Flags
<1>2. TypeOK' <=> Numbers' /\ Flags'
  BY DEF TypeOK, Numbers, Flags
<1>3. QED
  BY <1>1, <1>2, NumbersStep, FlagsStep

\* Every event that changes visibility or the connection schedules the next poll.
LEMMA PollStep == PollIffBlind /\ [Next]_vars => PollIffBlind'
<1> SUFFICES ASSUME PollIffBlind, [Next]_vars PROVE PollIffBlind'
  OBVIOUS
<1> USE DEF vars, apiVars, socketVars, routerVars, ClientUnchanged, ScreenUnchanged,
    ApiUnchanged, PollIffBlind, ScheduleNextPoll, Blind
<1>1. CASE UNCHANGED vars
  BY <1>1
<1>2. ASSUME NEW w \in Writers, Commit(w) PROVE PollIffBlind'
  BY <1>2 DEF Commit
<1>3. ASSUME NEW w \in Writers, Skip(w) PROVE PollIffBlind'
  BY <1>3 DEF Skip
<1>4. ASSUME NEW w \in Writers, Send(w) PROVE PollIffBlind'
  BY <1>4 DEF Send
<1>5. ASSUME NEW w \in Writers, PublishOk(w) PROVE PollIffBlind'
  BY <1>5 DEF PublishOk
<1>6. ASSUME NEW w \in Writers, PublishFails(w) PROVE PollIffBlind'
  BY <1>6 DEF PublishFails
<1>7. ASSUME ApiDies PROVE PollIffBlind'
  BY <1>7 DEF ApiDies
<1>8. ASSUME Tick PROVE PollIffBlind'
  BY <1>8 DEF Tick
<1>9. ASSUME CoalesceFires PROVE PollIffBlind'
  BY <1>9 DEF CoalesceFires
<1>10. ASSUME PollFires PROVE PollIffBlind'
  BY <1>10 DEF PollFires
<1>11. ASSUME Hide PROVE PollIffBlind'
  BY <1>11 DEF Hide
<1>12. ASSUME Show PROVE PollIffBlind'
  BY <1>12 DEF Show
<1>13. ASSUME FocusOrOnline PROVE PollIffBlind'
  BY <1>13 DEF FocusOrOnline
<1>14. ASSUME Dispose PROVE PollIffBlind'
  BY <1>14 DEF Dispose
<1>15. ASSUME NoToken PROVE PollIffBlind'
  BY <1>15 DEF NoToken
<1>16. ASSUME TokenGiven PROVE PollIffBlind'
  BY <1>16 DEF TokenGiven
<1>17. ASSUME Opened PROVE PollIffBlind'
  BY <1>17 DEF Opened
<1>18. ASSUME OpenFails PROVE PollIffBlind'
  BY <1>18 DEF OpenFails
<1>19. ASSUME TokenTimerFires PROVE PollIffBlind'
  BY <1>19 DEF TokenTimerFires
<1>20. ASSUME Minted PROVE PollIffBlind'
  BY <1>20 DEF Minted
<1>21. ASSUME NotMinted PROVE PollIffBlind'
  BY <1>21 DEF NotMinted
<1>22. ASSUME Joined PROVE PollIffBlind'
  BY <1>22 DEF Joined
<1>23. ASSUME Subscribed PROVE PollIffBlind'
  BY <1>23 DEF Subscribed
<1>24. ASSUME Drop PROVE PollIffBlind'
  BY <1>24 DEF Drop
<1>25. ASSUME DropNoticed PROVE PollIffBlind'
  BY <1>25 DEF DropNoticed
<1>26. ASSUME Deliver PROVE PollIffBlind'
  BY <1>26 DEF Deliver
<1>27. ASSUME RefreshReads PROVE PollIffBlind'
  BY <1>27 DEF RefreshReads
<1>28. ASSUME RefreshShows PROVE PollIffBlind'
  BY <1>28 DEF RefreshShows
<1>29. ASSUME RefreshFails PROVE PollIffBlind'
  BY <1>29 DEF RefreshFails
<1>30. QED
  BY <1>1, <1>2, <1>3, <1>4, <1>5, <1>6, <1>7, <1>8, <1>9, <1>10, <1>11, <1>12, <1>13, <1>14, 
     <1>15, <1>16, <1>17, <1>18, <1>19, <1>20, <1>21, <1>22, <1>23, <1>24, <1>25, <1>26, <1>27, 
     <1>28, <1>29 DEF Next

\* Whatever arms a timer or opens the socket looks at disposed first.
LEMMA DisposeStep == NothingAfterDispose /\ [Next]_vars => NothingAfterDispose'
<1> SUFFICES ASSUME NothingAfterDispose, [Next]_vars PROVE NothingAfterDispose'
  OBVIOUS
<1> USE DEF vars, apiVars, socketVars, routerVars, ClientUnchanged, ScreenUnchanged,
    ApiUnchanged, NothingAfterDispose, ScheduleRefresh, RefreshNow, ScheduleNextPoll, CatchUp,
        StillWanted
<1>1. CASE UNCHANGED vars
  BY <1>1
<1>2. ASSUME NEW w \in Writers, Commit(w) PROVE NothingAfterDispose'
  BY <1>2 DEF Commit
<1>3. ASSUME NEW w \in Writers, Skip(w) PROVE NothingAfterDispose'
  BY <1>3 DEF Skip
<1>4. ASSUME NEW w \in Writers, Send(w) PROVE NothingAfterDispose'
  BY <1>4 DEF Send
<1>5. ASSUME NEW w \in Writers, PublishOk(w) PROVE NothingAfterDispose'
  BY <1>5 DEF PublishOk
<1>6. ASSUME NEW w \in Writers, PublishFails(w) PROVE NothingAfterDispose'
  BY <1>6 DEF PublishFails
<1>7. ASSUME ApiDies PROVE NothingAfterDispose'
  BY <1>7 DEF ApiDies
<1>8. ASSUME Tick PROVE NothingAfterDispose'
  BY <1>8 DEF Tick
<1>9. ASSUME CoalesceFires PROVE NothingAfterDispose'
  BY <1>9 DEF CoalesceFires
<1>10. ASSUME PollFires PROVE NothingAfterDispose'
  BY <1>10 DEF PollFires
<1>11. ASSUME Hide PROVE NothingAfterDispose'
  BY <1>11 DEF Hide
<1>12. ASSUME Show PROVE NothingAfterDispose'
  BY <1>12 DEF Show
<1>13. ASSUME FocusOrOnline PROVE NothingAfterDispose'
  BY <1>13 DEF FocusOrOnline
<1>14. ASSUME Dispose PROVE NothingAfterDispose'
  BY <1>14 DEF Dispose
<1>15. ASSUME NoToken PROVE NothingAfterDispose'
  BY <1>15 DEF NoToken
<1>16. ASSUME TokenGiven PROVE NothingAfterDispose'
  BY <1>16 DEF TokenGiven
<1>17. ASSUME Opened PROVE NothingAfterDispose'
  BY <1>17 DEF Opened
<1>18. ASSUME OpenFails PROVE NothingAfterDispose'
  BY <1>18 DEF OpenFails
<1>19. ASSUME TokenTimerFires PROVE NothingAfterDispose'
  BY <1>19 DEF TokenTimerFires
<1>20. ASSUME Minted PROVE NothingAfterDispose'
  BY <1>20 DEF Minted
<1>21. ASSUME NotMinted PROVE NothingAfterDispose'
  BY <1>21 DEF NotMinted
<1>22. ASSUME Joined PROVE NothingAfterDispose'
  BY <1>22 DEF Joined
<1>23. ASSUME Subscribed PROVE NothingAfterDispose'
  BY <1>23 DEF Subscribed
<1>24. ASSUME Drop PROVE NothingAfterDispose'
  BY <1>24 DEF Drop
<1>25. ASSUME DropNoticed PROVE NothingAfterDispose'
  BY <1>25 DEF DropNoticed
<1>26. ASSUME Deliver PROVE NothingAfterDispose'
  BY <1>26 DEF Deliver
<1>27. ASSUME RefreshReads PROVE NothingAfterDispose'
  BY <1>27 DEF RefreshReads
<1>28. ASSUME RefreshShows PROVE NothingAfterDispose'
  BY <1>28 DEF RefreshShows
<1>29. ASSUME RefreshFails PROVE NothingAfterDispose'
  BY <1>29 DEF RefreshFails
<1>30. QED
  BY <1>1, <1>2, <1>3, <1>4, <1>5, <1>6, <1>7, <1>8, <1>9, <1>10, <1>11, <1>12, <1>13, <1>14, 
     <1>15, <1>16, <1>17, <1>18, <1>19, <1>20, <1>21, <1>22, <1>23, <1>24, <1>25, <1>26, <1>27, 
     <1>28, <1>29 DEF Next

\* openUntil is set at the threshold, and reset with the count.
LEMMA BreakerStep == Numbers /\ BreakerEarned /\ [Next]_vars => BreakerEarned'
<1> SUFFICES ASSUME Numbers, BreakerEarned, [Next]_vars PROVE BreakerEarned'
  OBVIOUS
<1> USE DEF vars, apiVars, socketVars, routerVars, ClientUnchanged, ScreenUnchanged,
    ApiUnchanged, BreakerEarned, Closed, NextFailures
<1>1. CASE UNCHANGED vars
  BY <1>1
<1>2. ASSUME NEW w \in Writers, Commit(w) PROVE BreakerEarned'
  BY <1>2, LimitsAssumption DEF Commit, Numbers
<1>3. ASSUME NEW w \in Writers, Skip(w) PROVE BreakerEarned'
  BY <1>3, LimitsAssumption DEF Skip, Numbers
<1>4. ASSUME NEW w \in Writers, Send(w) PROVE BreakerEarned'
  BY <1>4, LimitsAssumption DEF Send, Numbers
<1>5. ASSUME NEW w \in Writers, PublishOk(w) PROVE BreakerEarned'
  BY <1>5, LimitsAssumption DEF PublishOk, Numbers
<1>6. ASSUME NEW w \in Writers, PublishFails(w) PROVE BreakerEarned'
  BY <1>6, LimitsAssumption DEF PublishFails, Numbers
<1>7. ASSUME ApiDies PROVE BreakerEarned'
  BY <1>7, LimitsAssumption DEF ApiDies, Numbers
<1>8. ASSUME Tick PROVE BreakerEarned'
  BY <1>8, LimitsAssumption DEF Tick, Numbers
<1>9. ASSUME CoalesceFires PROVE BreakerEarned'
  BY <1>9, LimitsAssumption DEF CoalesceFires, Numbers
<1>10. ASSUME PollFires PROVE BreakerEarned'
  BY <1>10, LimitsAssumption DEF PollFires, Numbers
<1>11. ASSUME Hide PROVE BreakerEarned'
  BY <1>11, LimitsAssumption DEF Hide, Numbers
<1>12. ASSUME Show PROVE BreakerEarned'
  BY <1>12, LimitsAssumption DEF Show, Numbers
<1>13. ASSUME FocusOrOnline PROVE BreakerEarned'
  BY <1>13, LimitsAssumption DEF FocusOrOnline, Numbers
<1>14. ASSUME Dispose PROVE BreakerEarned'
  BY <1>14, LimitsAssumption DEF Dispose, Numbers
<1>15. ASSUME NoToken PROVE BreakerEarned'
  BY <1>15, LimitsAssumption DEF NoToken, Numbers
<1>16. ASSUME TokenGiven PROVE BreakerEarned'
  BY <1>16, LimitsAssumption DEF TokenGiven, Numbers
<1>17. ASSUME Opened PROVE BreakerEarned'
  BY <1>17, LimitsAssumption DEF Opened, Numbers
<1>18. ASSUME OpenFails PROVE BreakerEarned'
  BY <1>18, LimitsAssumption DEF OpenFails, Numbers
<1>19. ASSUME TokenTimerFires PROVE BreakerEarned'
  BY <1>19, LimitsAssumption DEF TokenTimerFires, Numbers
<1>20. ASSUME Minted PROVE BreakerEarned'
  BY <1>20, LimitsAssumption DEF Minted, Numbers
<1>21. ASSUME NotMinted PROVE BreakerEarned'
  BY <1>21, LimitsAssumption DEF NotMinted, Numbers
<1>22. ASSUME Joined PROVE BreakerEarned'
  BY <1>22, LimitsAssumption DEF Joined, Numbers
<1>23. ASSUME Subscribed PROVE BreakerEarned'
  BY <1>23, LimitsAssumption DEF Subscribed, Numbers
<1>24. ASSUME Drop PROVE BreakerEarned'
  BY <1>24, LimitsAssumption DEF Drop, Numbers
<1>25. ASSUME DropNoticed PROVE BreakerEarned'
  BY <1>25, LimitsAssumption DEF DropNoticed, Numbers
<1>26. ASSUME Deliver PROVE BreakerEarned'
  BY <1>26, LimitsAssumption DEF Deliver, Numbers
<1>27. ASSUME RefreshReads PROVE BreakerEarned'
  BY <1>27, LimitsAssumption DEF RefreshReads, Numbers
<1>28. ASSUME RefreshShows PROVE BreakerEarned'
  BY <1>28, LimitsAssumption DEF RefreshShows, Numbers
<1>29. ASSUME RefreshFails PROVE BreakerEarned'
  BY <1>29, LimitsAssumption DEF RefreshFails, Numbers
<1>30. QED
  BY <1>1, <1>2, <1>3, <1>4, <1>5, <1>6, <1>7, <1>8, <1>9, <1>10, <1>11, <1>12, <1>13, <1>14, 
     <1>15, <1>16, <1>17, <1>18, <1>19, <1>20, <1>21, <1>22, <1>23, <1>24, <1>25, <1>26, <1>27, 
     <1>28, <1>29 DEF Next

\* One refresh at a time.
LEMMA ReadsStep == Numbers /\ ReadsInv /\ [Next]_vars => ReadsInv'
<1> SUFFICES ASSUME Numbers, ReadsInv, [Next]_vars PROVE ReadsInv'
  OBVIOUS
<1> USE DEF vars, apiVars, socketVars, routerVars, ClientUnchanged, ScreenUnchanged,
    ApiUnchanged, ReadsInv, None
<1>1. CASE UNCHANGED vars
  BY <1>1
<1>2. ASSUME NEW w \in Writers, Commit(w) PROVE ReadsInv'
  BY <1>2 DEF Commit, Numbers
<1>3. ASSUME NEW w \in Writers, Skip(w) PROVE ReadsInv'
  BY <1>3 DEF Skip, Numbers
<1>4. ASSUME NEW w \in Writers, Send(w) PROVE ReadsInv'
  BY <1>4 DEF Send, Numbers
<1>5. ASSUME NEW w \in Writers, PublishOk(w) PROVE ReadsInv'
  BY <1>5 DEF PublishOk, Numbers
<1>6. ASSUME NEW w \in Writers, PublishFails(w) PROVE ReadsInv'
  BY <1>6 DEF PublishFails, Numbers
<1>7. ASSUME ApiDies PROVE ReadsInv'
  BY <1>7 DEF ApiDies, Numbers
<1>8. ASSUME Tick PROVE ReadsInv'
  BY <1>8 DEF Tick, Numbers
<1>9. ASSUME CoalesceFires PROVE ReadsInv'
  BY <1>9 DEF CoalesceFires, Numbers
<1>10. ASSUME PollFires PROVE ReadsInv'
  BY <1>10 DEF PollFires, Numbers
<1>11. ASSUME Hide PROVE ReadsInv'
  BY <1>11 DEF Hide, Numbers
<1>12. ASSUME Show PROVE ReadsInv'
  BY <1>12 DEF Show, Numbers
<1>13. ASSUME FocusOrOnline PROVE ReadsInv'
  BY <1>13 DEF FocusOrOnline, Numbers
<1>14. ASSUME Dispose PROVE ReadsInv'
  BY <1>14 DEF Dispose, Numbers
<1>15. ASSUME NoToken PROVE ReadsInv'
  BY <1>15 DEF NoToken, Numbers
<1>16. ASSUME TokenGiven PROVE ReadsInv'
  BY <1>16 DEF TokenGiven, Numbers
<1>17. ASSUME Opened PROVE ReadsInv'
  BY <1>17 DEF Opened, Numbers
<1>18. ASSUME OpenFails PROVE ReadsInv'
  BY <1>18 DEF OpenFails, Numbers
<1>19. ASSUME TokenTimerFires PROVE ReadsInv'
  BY <1>19 DEF TokenTimerFires, Numbers
<1>20. ASSUME Minted PROVE ReadsInv'
  BY <1>20 DEF Minted, Numbers
<1>21. ASSUME NotMinted PROVE ReadsInv'
  BY <1>21 DEF NotMinted, Numbers
<1>22. ASSUME Joined PROVE ReadsInv'
  BY <1>22 DEF Joined, Numbers
<1>23. ASSUME Subscribed PROVE ReadsInv'
  BY <1>23 DEF Subscribed, Numbers
<1>24. ASSUME Drop PROVE ReadsInv'
  BY <1>24 DEF Drop, Numbers
<1>25. ASSUME DropNoticed PROVE ReadsInv'
  BY <1>25 DEF DropNoticed, Numbers
<1>26. ASSUME Deliver PROVE ReadsInv'
  BY <1>26 DEF Deliver, Numbers
<1>27. ASSUME RefreshReads PROVE ReadsInv'
  BY <1>27 DEF RefreshReads, Numbers
<1>28. ASSUME RefreshShows PROVE ReadsInv'
  BY <1>28 DEF RefreshShows, Numbers
<1>29. ASSUME RefreshFails PROVE ReadsInv'
  BY <1>29 DEF RefreshFails, Numbers
<1>30. QED
  BY <1>1, <1>2, <1>3, <1>4, <1>5, <1>6, <1>7, <1>8, <1>9, <1>10, <1>11, <1>12, <1>13, <1>14, 
     <1>15, <1>16, <1>17, <1>18, <1>19, <1>20, <1>21, <1>22, <1>23, <1>24, <1>25, <1>26, <1>27, 
     <1>28, <1>29 DEF Next

\* Where a tab does not rely on signals, it polls or has a broken channel.
LEMMA Fallback ==
    ASSUME PollIffBlind, visible, ~disposed, ~Relying
    PROVE  poll \/ (connected /\ ~link)
BY DEF PollIffBlind, Relying

\* What covered the screen is handed on, or the loss is noted.
LEMMA StaleStep == Numbers /\ PollIffBlind /\ ReadsInv /\ StaleIsCovered /\ [Next]_vars => StaleIsCovered'
<1> SUFFICES ASSUME Numbers, PollIffBlind, ReadsInv, StaleIsCovered,
    [Next]_vars PROVE StaleIsCovered'
  OBVIOUS
<1> USE DEF vars, apiVars, socketVars, routerVars, ClientUnchanged, ScreenUnchanged,
    ApiUnchanged, StaleIsCovered, ScheduleRefresh, RefreshNow, ScheduleNextPoll, Blind,
        CatchUp, Relying
<1>1. CASE UNCHANGED vars
  BY <1>1
<1>2. ASSUME NEW w \in Writers, Commit(w) PROVE StaleIsCovered'
  BY <1>2 DEF Commit, Numbers, PollIffBlind
<1>3. ASSUME NEW w \in Writers, Skip(w) PROVE StaleIsCovered'
  BY <1>3 DEF Skip, Numbers, PollIffBlind
<1>4. ASSUME NEW w \in Writers, Send(w) PROVE StaleIsCovered'
  BY <1>4 DEF Send, Numbers, PollIffBlind
<1>5. ASSUME NEW w \in Writers, PublishOk(w) PROVE StaleIsCovered'
  BY <1>5 DEF PublishOk, Numbers, PollIffBlind
<1>6. ASSUME NEW w \in Writers, PublishFails(w) PROVE StaleIsCovered'
  <2>1. UNCHANGED <<stored, link, connected, visible, disposed, coalesce, poll, asked, answer,
      shown>>
    BY <1>6 DEF PublishFails
  <2>2. CASE link /\ inFlight' = inFlight + 1
    BY <2>1, <2>2 DEF Numbers
  <2>3. CASE lost' = (lost \/ Relying)
    <3>1. visible /\ ~disposed => lost' \/ poll \/ (connected /\ ~link)
      BY <2>3, Fallback
    <3>2. QED
      BY <2>1, <3>1
  <2>4. QED
    BY <1>6, <2>2, <2>3 DEF PublishFails
<1>7. ASSUME ApiDies PROVE StaleIsCovered'
  BY <1>7 DEF ApiDies, Numbers, PollIffBlind
<1>8. ASSUME Tick PROVE StaleIsCovered'
  BY <1>8 DEF Tick, Numbers, PollIffBlind
<1>9. ASSUME CoalesceFires PROVE StaleIsCovered'
  BY <1>9 DEF CoalesceFires, Numbers, PollIffBlind
<1>10. ASSUME PollFires PROVE StaleIsCovered'
  BY <1>10 DEF PollFires, Numbers, PollIffBlind
<1>11. ASSUME Hide PROVE StaleIsCovered'
  BY <1>11 DEF Hide, Numbers, PollIffBlind
<1>12. ASSUME Show PROVE StaleIsCovered'
  BY <1>12 DEF Show, Numbers, PollIffBlind
<1>13. ASSUME FocusOrOnline PROVE StaleIsCovered'
  BY <1>13 DEF FocusOrOnline, Numbers, PollIffBlind
<1>14. ASSUME Dispose PROVE StaleIsCovered'
  BY <1>14 DEF Dispose, Numbers, PollIffBlind
<1>15. ASSUME NoToken PROVE StaleIsCovered'
  BY <1>15 DEF NoToken, Numbers, PollIffBlind
<1>16. ASSUME TokenGiven PROVE StaleIsCovered'
  BY <1>16 DEF TokenGiven, Numbers, PollIffBlind
<1>17. ASSUME Opened PROVE StaleIsCovered'
  BY <1>17 DEF Opened, Numbers, PollIffBlind
<1>18. ASSUME OpenFails PROVE StaleIsCovered'
  BY <1>18 DEF OpenFails, Numbers, PollIffBlind
<1>19. ASSUME TokenTimerFires PROVE StaleIsCovered'
  BY <1>19 DEF TokenTimerFires, Numbers, PollIffBlind
<1>20. ASSUME Minted PROVE StaleIsCovered'
  BY <1>20 DEF Minted, Numbers, PollIffBlind
<1>21. ASSUME NotMinted PROVE StaleIsCovered'
  BY <1>21 DEF NotMinted, Numbers, PollIffBlind
<1>22. ASSUME Joined PROVE StaleIsCovered'
  BY <1>22 DEF Joined, Numbers, PollIffBlind
<1>23. ASSUME Subscribed PROVE StaleIsCovered'
  BY <1>23 DEF Subscribed, Numbers, PollIffBlind
<1>24. ASSUME Drop PROVE StaleIsCovered'
  BY <1>24 DEF Drop, Numbers, PollIffBlind
<1>25. ASSUME DropNoticed PROVE StaleIsCovered'
  BY <1>25 DEF DropNoticed, Numbers, PollIffBlind
<1>26. ASSUME Deliver PROVE StaleIsCovered'
  BY <1>26 DEF Deliver, Numbers, PollIffBlind
<1>27. ASSUME RefreshReads PROVE StaleIsCovered'
  BY <1>27 DEF RefreshReads, Numbers, PollIffBlind
<1>28. ASSUME RefreshShows PROVE StaleIsCovered'
  BY <1>28 DEF RefreshShows, Numbers, ReadsInv, None
<1>29. ASSUME RefreshFails PROVE StaleIsCovered'
  BY <1>29 DEF RefreshFails, Numbers, PollIffBlind
<1>30. QED
  BY <1>1, <1>2, <1>3, <1>4, <1>5, <1>6, <1>7, <1>8, <1>9, <1>10, <1>11, <1>12, <1>13, <1>14, 
     <1>15, <1>16, <1>17, <1>18, <1>19, <1>20, <1>21, <1>22, <1>23, <1>24, <1>25, <1>26, <1>27, 
     <1>28, <1>29 DEF Next

-----------------------------------------------------------------------------

\* The invariant holds in every reachable state.
THEOREM SafetyInductive == Spec => []IInv
<1>1. TypeOK => Numbers
  BY DEF TypeOK, Numbers
<1>2. IInv /\ [Next]_vars => IInv'
  BY <1>1, TypeStep, PollStep, DisposeStep, BreakerStep, ReadsStep, StaleStep DEF IInv
<1>3. QED
  BY IInit, <1>2, PTL DEF Spec

\* Every variable keeps its type.
THEOREM TypeCorrect == Spec => []TypeOK
<1>1. IInv => TypeOK
  BY DEF IInv
<1>2. QED
  BY <1>1, SafetyInductive, PTL

\* The fallback schedule runs exactly while the mounted tab is looked at and has no socket
\* (FEAT-019 D4).
THEOREM PollsWhileBlind == Spec => []PollIffBlind
<1>1. IInv => PollIffBlind
  BY DEF IInv
<1>2. QED
  BY <1>1, SafetyInductive, PTL

\* An unmounted tab holds no timer and no open socket (FEAT-019 AC-10).
THEOREM NothingRunsUnmounted == Spec => []NothingAfterDispose
<1>1. IInv => NothingAfterDispose
  BY DEF IInv
<1>2. QED
  BY <1>1, SafetyInductive, PTL

\* An open breaker has its failures.
THEOREM BreakerIsEarned == Spec => []BreakerEarned
<1>1. IInv => BreakerEarned
  BY DEF IInv
<1>2. QED
  BY <1>1, SafetyInductive, PTL

\* A stale screen always has something on its way to it.
THEOREM StaleScreensAreCovered == Spec => []StaleIsCovered
<1>1. IInv => StaleIsCovered
  BY DEF IInv
<1>2. QED
  BY <1>1, SafetyInductive, PTL
=============================================================================

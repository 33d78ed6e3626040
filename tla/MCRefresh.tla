------------------------------ MODULE MCRefresh ------------------------------
(* Two contracts, hours and four hours.  The times are of a Friday (date 4):
   late evening in Bangkok, and after midnight, when it is Saturday there; and
   of the Monday after.  The narrow window ends with the Friday. *)
EXTENDS DataJobs

At(d, h, m) == d * Day + h * 60 + m
Late == At(4, 16, 45)   \* 23:45 in Bangkok
Night == At(4, 18, 45)  \* 01:45
Final == At(4, 19, 45)  \* 02:45
Monday == At(7, 2, 45)  \* 09:45

OpenHolidays == {5}
TimeSlots == {Late, Night, Final, Monday}
Bar(t, r) == [time |-> t, revision |-> r]
TfMinutes == [h1 |-> 60, h4 |-> 240]

Command(contracts, timeframes, end) ==
  [contracts |-> contracts, timeframes |-> timeframes, start |-> At(4, 0, 0), end |-> end]
Commands == {Command(<<"H", "M">>, <<"h1", "h4">>, At(8, 0, 0)),
             Command(<<"M">>, <<"h1", "h4">>, Monday)}

AnswersH1 == [H |-> {{Bar(Night, 1), Bar(Final, 1)}},
              M |-> {{Bar(Late, 1), Bar(Final, 1), Bar(Monday, 1)},
                     {Bar(Late, 1), Bar(Late, 2), Bar(Night, 2)}}]
AnswersH4 == [H |-> {{Bar(Final, 1)}}, M |-> {{}, {Bar(Final, 2), Bar(Monday, 1)}}]
SourceAnswers == [h1 |-> AnswersH1, h4 |-> AnswersH4]
SourceReferences == [h1 |-> {{}, {Late, Monday}}, h4 |-> {{Final}}]

FirstBars == {Late, Night, Final, Monday}
MoreBars == FirstBars \cup {Monday + 60}
DailyReport(drawdown, margin, extra) ==
  [total_value |-> 1, cash_balance |-> 1, positions_count |-> 0,
   max_drawdown |-> drawdown, margin_usage |-> margin, extra_report |-> extra]
DailyReports == {DailyReport(-1, 1, None), DailyReport(0, 1, -1)}
=============================================================================

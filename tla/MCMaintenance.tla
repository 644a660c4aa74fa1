--------------------------- MODULE MCMaintenance ---------------------------
EXTENDS Maintenance

CONSTANTS a, b, g, s, d, name

MCInputs == {<<a, b>>}
MCAgentTexts == {g}
\* `name` is a person that a and the imported s mention.
MCMentions == [t \in {a, b, g, s, d, name} |-> IF t \in {a, g} THEN {name} ELSE {}]
MCNear == {<<a, b>>, <<a, s>>, <<b, g>>}
MCTwin == {<<a, b>>}
\* Another vault: one note with a status, and one deleted there.
MCSource == [index |-> [notes |-> {<<s, "baseline">>, <<d, "baseline">>},
                        marks |-> {<<s, "baseline">>}, dead |-> {<<d, "baseline">>},
                        edges |-> {<<<<s, "baseline">>, <<d, "baseline">>>>}],
             inbox |-> <<s, d>>]
=============================================================================

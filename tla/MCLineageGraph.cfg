SPECIFICATION Spec
CONSTANTS
    Queens = {1, 2}
    Houses = {h1, h2}
    Seasons = {s1}
    BirthPlace <- MCBirthPlace
    NoPlace = ""
    Tags <- MCTags
    Placements = {winner, runnerUp}
    Battles = {b1, b2}
    Copies = {1, 2}
    MaxNodes = 6
    MaxTies = 2
INVARIANTS NoReciprocals ListedOnce ScoreByTable

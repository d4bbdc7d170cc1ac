SPECIFICATION MCSpec
CONSTANTS
    None = None
    Instances = {1, 2, 3}
    LinkSet <- MCLinks
    Accounts <- MCAccounts
    MaxRetries = 1
    MaxCrashes = 1
    Engines = {"alfresco", "nuxeo"}
    KindOf <- MCKindOf
    New = "new"
    Budgets <- PageBudgets
    Uploads = {1, 2}
    Downloads = {3, 4}
    Types = {5}
    Written = {2, 6}
    Contents <- MCContents
    App = 24
    MaxKills = 1
    MaxDamages = 1
    MaxDays = 1
    MaxBackups = 2
    Features = {"synchronization", "auto_update"}
    Configs = {"channel"}
    Values = {1, 2}
    Default = 1
    Lines <- MCLines
    MaxStarts = 2
    MaxChoices = 2
    MaxNews = 1
INVARIANTS
    FiltersKept
    AnswersKept
    RowsKept
    SettingsKept
    OneInstance
    LinksAnswered
